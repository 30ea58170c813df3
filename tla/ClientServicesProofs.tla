------------------------ MODULE ClientServicesProofs ------------------------
(***************************************************************************)
(* Proofs about the services a client runs beside its keeps: the recovery  *)
(* of liquidated deposits, for any number of keeps; the firewall, for any  *)
(* peers, keeps and cache periods; and the tbtc extension, for any number  *)
(* of start events, redemption requests and failing calls.                 *)
(***************************************************************************)
EXTENDS LiquidationRecovery, Firewall, Registration, TBTCExtension, FiniteSetTheorems, TLAPS

-----------------------------------------------------------------------------
(* The recovery: the derivation index.                                     *)

RecoveryStates == {"announce", "lock", "read", "check", "clean", "write", "fund", "fee",
                   "exchange", "build", "broadcast", "done", "aborted", "archived"}

RecoveryTypeOK ==
    /\ recovery \in [TerminatedKeeps ->
                        [pc : RecoveryStates, index : Nat, unused : BOOLEAN, fee : Int]]
    /\ output \in RecoveryCases
    /\ indexFiles \subseteq Nat /\ given \subseteq Nat
    /\ interrupted \in BOOLEAN

\* Only the holder of the mutex uses the storage.
Holding == {"read", "check", "clean", "write"}
StorageExclusion == \A k \in TerminatedKeeps : recovery[k].pc \in Holding => storageMutex = k

\* An index that was given is covered by a file, or by the save in progress that
\* has just removed the file.
Covered(i) ==
    \/ \E j \in indexFiles : i <= j
    \/ \E k \in TerminatedKeeps : At(k, "write") /\ i < recovery[k].index

IndexInv ==
    ~interrupted =>
        /\ \A i \in given : Covered(i)
        /\ \A k \in TerminatedKeeps :
             recovery[k].pc \in {"check", "clean", "write"} =>
                \A i \in given : i < recovery[k].index
        /\ reused = {}

RecoveryInv == RecoveryTypeOK /\ StorageExclusion /\ IndexInv

Recoveries == [pc : RecoveryStates, index : Nat, unused : BOOLEAN, fee : Int]

\* The recovery of keep k is now at r.
RecoveryMoves(k, r) ==
    /\ recovery' \in [TerminatedKeeps -> Recoveries]
    /\ recovery'[k] = r
    /\ \A j \in TerminatedKeeps \ {k} : recovery'[j] = recovery[j]

LEMMA StepMoves ==
    ASSUME RecoveryTypeOK, NEW k \in TerminatedKeeps, NEW pc \in RecoveryStates, Step(k, pc)
    PROVE  /\ RecoveryMoves(k, [recovery[k] EXCEPT !.pc = pc])
           /\ recovery'[k].pc = pc
           /\ recovery'[k].index = recovery[k].index
  BY DEF RecoveryTypeOK, RecoveryMoves, Recoveries, Step

LEMMA RetryMoves ==
    ASSUME RecoveryTypeOK, NEW k \in TerminatedKeeps, Retry(k)
    PROVE  /\ RecoveryMoves(k, RecoveryStart)
           /\ recovery'[k].pc = "announce"
  BY DEF RecoveryTypeOK, RecoveryMoves, Recoveries, Retry, RecoveryStart, RecoveryStates

\* Outside the storage a recovery moves freely, and it may leave the storage
\* when it is not in the middle of a save.
LEMMA MoveOutside ==
    ASSUME RecoveryInv, NEW k \in TerminatedKeeps, NEW r, RecoveryMoves(k, r),
           recovery'[k].pc \notin Holding, recovery[k].pc # "write",
           \/ storageMutex' = storageMutex
           \/ recovery[k].pc \in Holding /\ storageMutex' = NoKeep,
           UNCHANGED <<output, indexFiles, given, reused, interrupted>>
    PROVE  RecoveryInv'
<1>1. RecoveryTypeOK'
  BY DEF RecoveryInv, RecoveryTypeOK, RecoveryMoves, Recoveries
<1>2. StorageExclusion'
  BY DEF RecoveryInv, StorageExclusion, RecoveryMoves
<1>3. \A i \in given : Covered(i) => Covered(i)'
  BY DEF Covered, At, RecoveryMoves
<1>4. IndexInv'
  BY <1>3 DEF RecoveryInv, IndexInv, RecoveryMoves, Holding
<1> QED
  BY <1>1, <1>2, <1>4 DEF RecoveryInv

LEMMA LockInv ==
    ASSUME RecoveryInv, NEW k \in TerminatedKeeps, Lock(k), UNCHANGED output
    PROVE  RecoveryInv'
<1>0. RecoveryTypeOK
  BY DEF RecoveryInv
<1>1. /\ RecoveryMoves(k, [recovery[k] EXCEPT !.pc = "read"]) /\ recovery'[k].pc = "read"
      /\ storageMutex = NoKeep /\ storageMutex' = k
      /\ UNCHANGED <<indexFiles, given, reused, interrupted>>
  BY <1>0, StepMoves DEF Lock, RecoveryStates
<1>2. \A j \in TerminatedKeeps : recovery[j].pc \notin Holding
  BY <1>1, RecoveryAssumption DEF RecoveryInv, StorageExclusion
<1>3. RecoveryTypeOK'
  BY <1>0, <1>1 DEF RecoveryTypeOK, RecoveryMoves, Recoveries
<1>4. StorageExclusion'
  BY <1>1, <1>2 DEF StorageExclusion, RecoveryMoves
<1>5. IndexInv'
  BY <1>1, <1>2 DEF RecoveryInv, IndexInv, RecoveryMoves, Holding, Covered, At
<1> QED
  BY <1>3, <1>4, <1>5 DEF RecoveryInv

\* What the holder of the mutex does concerns no other recovery.
LEMMA HolderInv ==
    ASSUME RecoveryInv, NEW k \in TerminatedKeeps, NEW r, RecoveryMoves(k, r),
           recovery[k].pc \in Holding, recovery'[k].pc \in Holding,
           storageMutex' = storageMutex,
           UNCHANGED <<output, given, reused, interrupted>>,
           indexFiles' \subseteq Nat,
           ~interrupted => \A i \in given : Covered(i)',
           ~interrupted /\ recovery'[k].pc # "read" => \A i \in given : i < recovery'[k].index
    PROVE  RecoveryInv'
<1>1. RecoveryTypeOK'
  BY DEF RecoveryInv, RecoveryTypeOK, RecoveryMoves, Recoveries
<1>2. StorageExclusion'
  BY DEF RecoveryInv, StorageExclusion, RecoveryMoves
<1>3. \A j \in TerminatedKeeps \ {k} : recovery'[j].pc \notin Holding
  BY DEF RecoveryInv, StorageExclusion, RecoveryMoves
<1>4. IndexInv'
  BY <1>3 DEF RecoveryInv, IndexInv, Holding
<1> QED
  BY <1>1, <1>2, <1>4 DEF RecoveryInv

\* Nobody else is in the middle of a save, so a given index has a file.
LEMMA GivenHasFile ==
    ASSUME RecoveryInv, ~interrupted, NEW k \in TerminatedKeeps,
           recovery[k].pc \in {"read", "check", "clean"}
    PROVE  \A i \in given : \E j \in indexFiles : i <= j
<1>1. \A j \in TerminatedKeeps : ~At(j, "write")
  BY DEF RecoveryInv, StorageExclusion, Holding, At
<1> QED
  BY <1>1 DEF RecoveryInv, IndexInv, Covered

LEMMA ReadInv ==
    ASSUME RecoveryInv, NEW k \in TerminatedKeeps, read(k), UNCHANGED output
    PROVE  RecoveryInv'
<1>0. /\ RecoveryTypeOK /\ At(k, "read") /\ recovery[k].pc \in Holding
      /\ UNCHANGED <<indexFiles, given, reused, interrupted>>
  BY DEF RecoveryInv, read, At, Holding
<1>1. CASE Retry(k) /\ Unlock
  BY <1>0, <1>1, RetryMoves, MoveOutside DEF At, Holding, Unlock
<1>2. ASSUME NEW i \in {j + 1 : j \in indexFiles \cup {-1}},
             \A j \in indexFiles : j < i,
             recovery' = [recovery EXCEPT ![k].index = i, ![k].pc = "check"],
             UNCHANGED storageMutex
      PROVE  RecoveryInv'
  <2>1. i \in Nat
    BY <1>0, <1>2 DEF RecoveryTypeOK
  <2>2. /\ RecoveryMoves(k, [recovery[k] EXCEPT !.index = i, !.pc = "check"])
        /\ recovery'[k].pc = "check" /\ recovery'[k].index = i
    BY <1>0, <1>2, <2>1 DEF RecoveryTypeOK, RecoveryMoves, Recoveries, RecoveryStates
  <2>3. ASSUME ~interrupted PROVE \A g \in given : (\E j \in indexFiles : g <= j) /\ g < i
    <3>1. \A g \in given : \E j \in indexFiles : g <= j
      BY <1>0, <2>3, GivenHasFile DEF At
    <3> QED
      BY <1>0, <1>2, <2>1, <3>1 DEF RecoveryTypeOK
  <2>4. ~interrupted => \A g \in given : Covered(g)'
    BY <1>0, <2>3 DEF Covered
  <2> QED
    BY <1>0, <1>2, <2>2, <2>3, <2>4, HolderInv DEF RecoveryTypeOK, Holding
<1> QED
  BY <1>1, <1>2 DEF read

LEMMA CheckInv ==
    ASSUME RecoveryInv, NEW k \in TerminatedKeeps, IsAddressUnused(k), UNCHANGED output
    PROVE  RecoveryInv'
<1>0. /\ RecoveryTypeOK /\ At(k, "check") /\ recovery[k].pc \in Holding
      /\ UNCHANGED <<storageMutex, indexFiles, given, reused, interrupted>>
  BY DEF RecoveryInv, IsAddressUnused, At, Holding
<1>1. PICK unused \in BOOLEAN :
        recovery' = [recovery EXCEPT ![k].unused = unused, ![k].pc = "clean"]
  BY DEF IsAddressUnused
<1>2. /\ RecoveryMoves(k, [recovery[k] EXCEPT !.unused = unused, !.pc = "clean"])
      /\ recovery'[k].pc = "clean" /\ recovery'[k].index = recovery[k].index
  BY <1>0, <1>1 DEF RecoveryTypeOK, RecoveryMoves, Recoveries, RecoveryStates
<1>3. ~interrupted => \A i \in given : Covered(i)'
  BY <1>0, GivenHasFile DEF At, Covered
<1>4. ~interrupted => \A i \in given : i < recovery'[k].index
  BY <1>0, <1>2 DEF RecoveryInv, IndexInv, At
<1> QED
  BY <1>0, <1>2, <1>3, <1>4, HolderInv DEF RecoveryTypeOK, Holding

\* The files that are removed are those below the index about to be written,
\* which is above every index that was given.
LEMMA CleanUpInv ==
    ASSUME RecoveryInv, NEW k \in TerminatedKeeps, cleanUp(k), UNCHANGED output
    PROVE  RecoveryInv'
<1>0. /\ RecoveryTypeOK /\ At(k, "clean") /\ recovery[k].pc \in Holding
      /\ UNCHANGED <<given, reused, interrupted>>
  BY DEF RecoveryInv, cleanUp, At, Holding
<1>1. CASE Retry(k) /\ Unlock /\ UNCHANGED indexFiles
  BY <1>0, <1>1, RetryMoves, MoveOutside DEF At, Holding, Unlock
<1>2. CASE Step(k, "write") /\ UNCHANGED storageMutex /\ indexFiles' \subseteq indexFiles
  <2>1. /\ RecoveryMoves(k, [recovery[k] EXCEPT !.pc = "write"])
        /\ recovery'[k].pc = "write" /\ recovery'[k].index = recovery[k].index
    BY <1>0, <1>2, StepMoves DEF RecoveryStates
  <2>2. ~interrupted => \A i \in given : i < recovery'[k].index
    BY <1>0, <2>1 DEF RecoveryInv, IndexInv, At
  <2>3. ~interrupted => \A i \in given : Covered(i)'
    BY <2>1, <2>2 DEF Covered, At
  <2> QED
    BY <1>0, <1>2, <2>1, <2>2, <2>3, HolderInv DEF RecoveryTypeOK, Holding
<1> QED
  BY <1>1, <1>2 DEF cleanUp

LEMMA WriteInv ==
    ASSUME RecoveryInv, NEW k \in TerminatedKeeps, writeIndex(k), UNCHANGED output
    PROVE  RecoveryInv'
<1>0. /\ RecoveryTypeOK /\ At(k, "write") /\ recovery[k].pc \in Holding
      /\ recovery[k].index \in Nat
  BY DEF RecoveryInv, RecoveryTypeOK, writeIndex, At, Holding
<1>1. PICK i : i = recovery[k].index
  OBVIOUS
<1>2. ~interrupted => \A g \in given : g < i
  BY <1>0, <1>1 DEF RecoveryInv, IndexInv, At
<1>3. \A j \in TerminatedKeeps \ {k} : recovery[j].pc \notin Holding
  BY <1>0 DEF RecoveryInv, StorageExclusion
<1>4. CASE Retry(k) /\ Unlock /\ interrupted' = TRUE /\ UNCHANGED <<indexFiles, given, reused>>
  <2>1. RecoveryMoves(k, RecoveryStart) /\ recovery'[k].pc = "announce"
    BY <1>0, <1>4, RetryMoves
  <2>2. RecoveryTypeOK'
    BY <1>0, <1>4, <2>1 DEF RecoveryTypeOK, RecoveryMoves, Recoveries
  <2>3. StorageExclusion'
    BY <1>3, <2>1 DEF StorageExclusion, RecoveryMoves, Holding
  <2> QED
    BY <1>4, <2>2, <2>3 DEF RecoveryInv, IndexInv
<1>5. CASE /\ indexFiles' = indexFiles \cup {i} /\ interrupted' = interrupted
           /\ recovery[k].unused
           /\ given' = given \cup {i} /\ reused' = reused \cup (given \cap {i})
           /\ recovery' = [recovery EXCEPT ![k].unused = FALSE, ![k].pc = "fund"]
           /\ Unlock
  <2>1. /\ RecoveryMoves(k, [recovery[k] EXCEPT !.unused = FALSE, !.pc = "fund"])
        /\ recovery'[k].pc = "fund"
    BY <1>0, <1>5 DEF RecoveryTypeOK, RecoveryMoves, Recoveries, RecoveryStates
  <2>2. RecoveryTypeOK'
    BY <1>0, <1>1, <1>5, <2>1 DEF RecoveryTypeOK, RecoveryMoves, Recoveries
  <2>3. \A j \in TerminatedKeeps : recovery'[j].pc \notin Holding
    BY <1>3, <2>1 DEF RecoveryMoves, Holding
  <2>4. StorageExclusion'
    BY <2>3 DEF StorageExclusion
  <2>5. ASSUME ~interrupted PROVE reused' = {} /\ \A g \in given' : Covered(g)'
    <3>1. given \cap {i} = {}
      BY <1>0, <1>1, <1>2, <2>5
    <3>2. i \in Nat /\ \A g \in given' : g <= i
      BY <1>0, <1>1, <1>2, <1>5, <2>5 DEF RecoveryTypeOK
    <3> QED
      BY <1>5, <2>5, <3>1, <3>2 DEF RecoveryInv, IndexInv, Covered
  <2>6. IndexInv'
    BY <1>5, <2>3, <2>5 DEF IndexInv, Holding
  <2> QED
    BY <2>2, <2>4, <2>6 DEF RecoveryInv
<1>6. CASE /\ indexFiles' = indexFiles \cup {i} /\ interrupted' = interrupted
           /\ recovery' = [recovery EXCEPT ![k].index = i + 1, ![k].pc = "check"]
           /\ UNCHANGED <<storageMutex, given, reused>>
  <2> DEFINE n == i + 1
  <2>0. n \in Nat /\ recovery' = [recovery EXCEPT ![k].index = n, ![k].pc = "check"]
    BY <1>0, <1>1, <1>6
  <2> HIDE DEF n
  <2>1. /\ RecoveryMoves(k, [recovery[k] EXCEPT !.index = n, !.pc = "check"])
        /\ recovery'[k].pc = "check" /\ recovery'[k].index = n
    BY <1>0, <2>0 DEF RecoveryTypeOK, RecoveryMoves, Recoveries, RecoveryStates
  <2>2. ~interrupted => \A g \in given : g <= i /\ g < n
    BY <1>0, <1>1, <1>2 DEF RecoveryTypeOK, n
  <2>3. ~interrupted => \A g \in given : Covered(g)'
    BY <1>6, <2>2 DEF Covered
  <2> QED
    BY <1>0, <1>1, <1>6, <2>1, <2>2, <2>3, HolderInv DEF RecoveryTypeOK, Holding
<1> QED
  BY <1>1, <1>4, <1>5, <1>6 DEF writeIndex

LEMMA CaseTypes ==
    ASSUME RecoveryTypeOK
    PROVE  output.estimates \cup {0, output.maxFee, defaultVbyteFee} \subseteq Int
<1>1. output.estimates \cup {output.maxFee} \subseteq 0..(2^(IntBits - 1) - 1)
  BY RecoveryAssumption DEF RecoveryTypeOK
<1>2. 0..(2^(IntBits - 1) - 1) \subseteq Int
  OBVIOUS
<1>3. defaultVbyteFee \in Int
  BY RecoveryAssumption
<1> QED
  BY <1>1, <1>2, <1>3

LEMMA FeeType ==
    ASSUME RecoveryTypeOK, NEW suggested \in output.estimates \cup {0}
    PROVE  resolveVbyteFee(suggested) \in Int
<1>1. resolveVbyteFee(suggested) \in {output.maxFee, suggested, defaultVbyteFee}
  BY Zenon DEF resolveVbyteFee
<1> QED
  BY <1>1, CaseTypes

LEMMA OutsideInv ==
    ASSUME RecoveryInv, NEW k \in TerminatedKeeps, UNCHANGED output,
           \/ AnnouncePresence(k) \/ FundingInfo(k) \/ VbyteFeeFor25Blocks(k)
           \/ BroadcastRecoveryAddress(k) \/ BuildBitcoinTransaction(k) \/ Broadcast(k)
    PROVE  RecoveryInv'
<1>0. /\ RecoveryTypeOK /\ recovery[k].pc # "write"
      /\ UNCHANGED <<storageMutex, indexFiles, given, reused, interrupted>>
  BY DEF RecoveryInv, AnnouncePresence, FundingInfo, VbyteFeeFor25Blocks,
         BroadcastRecoveryAddress, BuildBitcoinTransaction, Broadcast, At
<1>1. ASSUME NEW pc \in {"lock", "fee", "aborted", "broadcast", "done"}, Step(k, pc)
      PROVE  RecoveryInv'
  <2>1. RecoveryMoves(k, [recovery[k] EXCEPT !.pc = pc]) /\ recovery'[k].pc = pc
    BY <1>0, <1>1, StepMoves DEF RecoveryStates
  <2> QED
    BY <1>0, <1>1, <2>1, MoveOutside DEF Holding
<1>2. CASE Retry(k)
  <2>1. RecoveryMoves(k, RecoveryStart) /\ recovery'[k].pc = "announce"
    BY <1>0, <1>2, RetryMoves
  <2> QED
    BY <1>0, <2>1, MoveOutside DEF Holding
<1>3. ASSUME NEW pc \in {"exchange", "build"}, NEW fee \in Int,
             recovery' = [recovery EXCEPT ![k].pc = pc, ![k].fee = fee]
      PROVE  RecoveryInv'
  <2>1. /\ RecoveryMoves(k, [recovery[k] EXCEPT !.pc = pc, !.fee = fee])
        /\ recovery'[k].pc = pc
    BY <1>0, <1>3 DEF RecoveryTypeOK, RecoveryMoves, Recoveries, RecoveryStates
  <2> QED
    BY <1>0, <1>3, <2>1, MoveOutside DEF Holding
<1>4. CASE AnnouncePresence(k) \/ FundingInfo(k) \/ BuildBitcoinTransaction(k) \/ Broadcast(k)
  BY <1>1, <1>2, <1>4 DEF AnnouncePresence, FundingInfo, BuildBitcoinTransaction, Broadcast
<1>5. CASE VbyteFeeFor25Blocks(k)
  <2>1. PICK suggested \in output.estimates \cup {0} :
          recovery' = [recovery EXCEPT ![k].fee = resolveVbyteFee(suggested), ![k].pc = "exchange"]
    BY <1>5 DEF VbyteFeeFor25Blocks
  <2>2. PICK fee \in Int : fee = resolveVbyteFee(suggested)
    BY <1>0, FeeType
  <2>3. recovery' = [recovery EXCEPT ![k].pc = "exchange", ![k].fee = fee]
    BY <1>0, <2>1, <2>2 DEF RecoveryTypeOK
  <2> QED
    BY <1>3, <2>3
<1>6. CASE BroadcastRecoveryAddress(k) /\ ~Retry(k)
  <2>1. PICK others \in output.estimates \cup {defaultVbyteFee} :
          recovery' = [recovery EXCEPT
                ![k].pc = "build",
                ![k].fee = IF others > recovery[k].fee THEN others ELSE recovery[k].fee]
    BY <1>6 DEF BroadcastRecoveryAddress
  <2>2. PICK fee \in Int : fee = IF others > recovery[k].fee THEN others ELSE recovery[k].fee
    BY <1>0, CaseTypes DEF RecoveryTypeOK
  <2> QED
    BY <1>3, <2>1, <2>2
<1> QED
  BY <1>2, <1>4, <1>5, <1>6

\* A restart: a save that was under way is an interrupted one.
LEMMA RecoveryCrashInv ==
    ASSUME RecoveryInv, RecoveryCrash
    PROVE  RecoveryInv'
<1>0. RecoveryTypeOK
  BY DEF RecoveryInv
<1>1. PICK again \in SUBSET Unfinished :
        recovery' = [k \in TerminatedKeeps |->
                        CASE k \in again -> RecoveryStart
                          [] k \in Unfinished \ again -> [RecoveryStart EXCEPT !.pc = "archived"]
                          [] OTHER -> recovery[k]]
  BY DEF RecoveryCrash
<1>2. /\ UNCHANGED <<output, indexFiles, given, reused>> /\ storageMutex' = NoKeep
      /\ interrupted' = (interrupted \/ \E k \in TerminatedKeeps : At(k, "write"))
  BY DEF RecoveryCrash
<1>3. ASSUME NEW k \in TerminatedKeeps
      PROVE  recovery'[k] \in Recoveries /\ recovery'[k].pc \notin Holding
  <2>1. CASE k \in again
    BY <1>1, <2>1 DEF RecoveryStart, Recoveries, RecoveryStates, Holding
  <2>2. CASE k \in Unfinished \ again
    <3>1. recovery'[k] = [RecoveryStart EXCEPT !.pc = "archived"]
      BY <1>1, <2>2
    <3>2. recovery'[k] = [pc |-> "archived", index |-> 0, unused |-> FALSE, fee |-> 0]
      BY <3>1 DEF RecoveryStart
    <3> QED
      BY <3>2 DEF Recoveries, RecoveryStates, Holding
  <2>3. CASE k \notin Unfinished
    <3>1. recovery'[k] = recovery[k]
      BY <1>1, <2>3
    <3>2. recovery[k].pc \in {"done", "aborted", "archived"}
      BY <2>3 DEF Unfinished
    <3> QED
      BY <1>0, <3>1, <3>2 DEF RecoveryTypeOK, Recoveries, Holding
  <2> QED
    BY <2>1, <2>2, <2>3
<1>4. RecoveryTypeOK'
  <2>1. recovery' \in [TerminatedKeeps -> Recoveries]
    BY <1>1, <1>3
  <2>2. interrupted' \in BOOLEAN
    BY <1>2 DEF RecoveryTypeOK
  <2> QED
    BY <1>0, <1>2, <2>1, <2>2 DEF RecoveryTypeOK, Recoveries
<1>5. StorageExclusion'
  BY <1>3 DEF StorageExclusion
<1>6. IndexInv'
  <2>1. ASSUME ~interrupted'
        PROVE  ~interrupted /\ \A k \in TerminatedKeeps : ~At(k, "write")
    BY <1>2, <2>1
  <2>2. ASSUME ~interrupted' PROVE \A i \in given' : Covered(i)'
    BY <1>2, <2>1, <2>2 DEF RecoveryInv, IndexInv, Covered
  <2>3. ASSUME ~interrupted' PROVE reused' = {}
    BY <1>2, <2>1, <2>3 DEF RecoveryInv, IndexInv
  <2> QED
    BY <1>3, <2>2, <2>3 DEF IndexInv, Holding
<1> QED
  BY <1>4, <1>5, <1>6 DEF RecoveryInv

LEMMA RecoveryInitInv == RecoveryInit => RecoveryInv
<1> SUFFICES ASSUME RecoveryInit PROVE RecoveryInv
  OBVIOUS
<1>1. RecoveryTypeOK
  <2>1. RecoveryStart \in Recoveries
    BY DEF RecoveryStart, Recoveries, RecoveryStates
  <2>2. recovery \in [TerminatedKeeps -> Recoveries]
    BY <2>1 DEF RecoveryInit
  <2> QED
    BY <2>2 DEF RecoveryInit, RecoveryTypeOK, Recoveries
<1>2. StorageExclusion
  BY DEF RecoveryInit, StorageExclusion, RecoveryStart, Holding
<1>3. IndexInv
  BY DEF RecoveryInit, IndexInv, RecoveryStart
<1> QED
  BY <1>1, <1>2, <1>3 DEF RecoveryInv

LEMMA RecoveryStepInv == RecoveryInv /\ [RecoveryNext]_recoveryVars => RecoveryInv'
<1> SUFFICES ASSUME RecoveryInv, [RecoveryNext]_recoveryVars PROVE RecoveryInv'
  OBVIOUS
<1>1. ASSUME NEW k \in TerminatedKeeps, handleLiquidationRecovery(k) PROVE RecoveryInv'
  BY <1>1, LockInv, ReadInv, CheckInv, CleanUpInv, WriteInv, OutsideInv
     DEF handleLiquidationRecovery, GetNextAddress
<1>2. CASE UNCHANGED <<recovery, output, storageMutex, indexFiles, given, reused, interrupted>>
  BY <1>2 DEF RecoveryInv, RecoveryTypeOK, StorageExclusion, IndexInv, Covered, At
<1>3. ASSUME NEW k \in TerminatedKeeps, OthersBroadcast(k) /\ UNCHANGED output PROVE RecoveryInv'
  BY <1>2, <1>3 DEF OthersBroadcast
<1>4. CASE RecoveryCrash
  BY <1>4, RecoveryCrashInv
<1>5. CASE UNCHANGED recoveryVars
  BY <1>2, <1>5 DEF recoveryVars
<1> QED
  BY <1>1, <1>3, <1>4, <1>5 DEF RecoveryNext

\* However many keeps are recovered side by side, retried and started over after
\* crashes, no receiving address is announced twice unless a save of the derivation
\* index was cut between the removal of the old file and the write of the new one.
THEOREM AddressesFresh == RecoverySpec => []AddressIsFresh
<1>1. RecoveryInv => AddressIsFresh
  BY DEF RecoveryInv, IndexInv, AddressIsFresh
<1> QED
  BY <1>1, RecoveryInitInv, RecoveryStepInv, PTL DEF RecoverySpec

-----------------------------------------------------------------------------
(* The firewall: what its caches know.                                     *)

ValidationStates == {"idle", "authorization", "membership", "keep", "active", "members"}
                        \cup Verdicts
WalkStates == {"keep", "active", "members"}
Walking(v) == validation[v].pc \in WalkStates

FirewallTypeOK ==
    /\ peering \in FirewallCases
    /\ authorized \in [Peers -> Nat] /\ opened \in [Keeps -> Nat] /\ ended \in [Keeps -> Nat]
    /\ nonAuthorizedOperatorsCache \in [Peers -> Nat]
    /\ activeKeepMembersCache \in [Peers -> Nat] /\ noActiveKeepMembersCache \in [Peers -> Nat]
    /\ isActive \in [Keeps -> Nat]
    /\ validation \in [Validations ->
                        [pc : ValidationStates, peer : Peers \cup {NoPeer}, index : Nat]]
    /\ failure \in Nat

\* Keeps are opened in order.
PrefixOpened == \A k, j \in Keeps : j < k /\ Opened(k) => Opened(j)

\* Keep k has been opened, and it has ended at most so long ago.
RecentlyActive(k, age) ==
    /\ Opened(k)
    /\ ended[k] = Never \/ ended[k] <= age

\* What lets peer p in, by an answer of the given age.
Evidence(p, age) ==
    \E k \in Keeps : p \in peering.groups[k]
                     /\ RecentlyActive(k, activeKeepMemberCachePeriod + age)

\* What turns peer p away after a search of the keeps above i, of the given age.
Excuse(p, i, age) ==
    \/ failure <= age
    \/ \A k \in Keeps : k > i /\ Active(k) /\ p \in peering.groups[k] => opened[k] <= age

LateAuthorization(p, age) == authorized[p] = Never \/ authorized[p] <= age

\* A cached answer is as good as its age.
CacheInv ==
    /\ \A p \in Peers :
        /\ activeKeepMembersCache[p] <= activeKeepMemberCachePeriod
                => Evidence(p, activeKeepMembersCache[p])
        /\ noActiveKeepMembersCache[p] <= activeKeepMemberCachePeriod
                => Excuse(p, 0, noActiveKeepMembersCache[p])
        /\ nonAuthorizedOperatorsCache[p] <= authorizationCachePeriod
                => LateAuthorization(p, nonAuthorizedOperatorsCache[p])
    /\ \A k \in Keeps :
        /\ isActive[k] <= activeKeepMemberCachePeriod => RecentlyActive(k, isActive[k])
        /\ k \in isInactive => ended[k] # Never

Fresh(age) == age = Never \/ age <= activeKeepMemberCachePeriod

\* A search has swept the caches, and no time passes while it is under way.
ValidationInv(v) ==
    /\ ~AtStep(v, "idle") => Peer(v) \in Peers
    /\ Walking(v) =>
        /\ \/ Index(v) \in Keeps /\ Opened(Index(v))
           \/ Index(v) = 0 /\ AtStep(v, "keep")
        /\ Excuse(Peer(v), Index(v), 0)
        /\ \A p \in Peers : Fresh(activeKeepMembersCache[p]) /\ Fresh(noActiveKeepMembersCache[p])
    /\ AtStep(v, "members") => RecentlyActive(Index(v), activeKeepMemberCachePeriod)
    /\ AtStep(v, "admitted") => Evidence(Peer(v), activeKeepMemberCachePeriod)
    /\ AtStep(v, "notMember") => Excuse(Peer(v), 0, activeKeepMemberCachePeriod)
    /\ AtStep(v, "notAuthorized") => LateAuthorization(Peer(v), authorizationCachePeriod)

FirewallInv ==
    /\ FirewallTypeOK /\ PrefixOpened /\ CacheInv
    /\ \A v \in Validations : ValidationInv(v)

-----------------------------------------------------------------------------
(* Ages and caches.                                                        *)

LEMMA Periods ==
    /\ authorizationCachePeriod \in Nat /\ activeKeepMemberCachePeriod \in Nat /\ Never \in Nat
    /\ authorizationCachePeriod + 1 < Never
    /\ activeKeepMemberCachePeriod + 1 < Never
    /\ 2 * activeKeepMemberCachePeriod + 1 < Never
<1>1. authorizationCachePeriod \in Nat /\ activeKeepMemberCachePeriod \in Nat
  BY FirewallAssumption
<1> QED
  BY <1>1 DEF Never

LEMMA OlderAge ==
    ASSUME NEW age \in Nat, NEW period \in Nat, period + 1 < Never
    PROVE  /\ Older(age, period) \in Nat
           /\ Older(age, period) = Never <=> age = Never
           /\ age <= period => Older(age, period) = age + 1
           /\ age > period => Older(age, period) = age
  BY Periods DEF Older

LEMMA AgedAges ==
    ASSUME NEW S, NEW ages \in [S -> Nat], NEW period \in Nat, period + 1 < Never
    PROVE  /\ Aged(ages, period) \in [S -> Nat]
           /\ \A e \in S : Aged(ages, period)[e] = Older(ages[e], period)
  BY OlderAge DEF Aged

LEMMA SweptCache ==
    ASSUME NEW S, NEW held \in [S -> Nat], NEW period \in Nat, period < Never
    PROVE  /\ Swept(held, period) \in [S -> Nat]
           /\ \A e \in S : /\ held[e] > period => Swept(held, period)[e] = Never
                           /\ held[e] <= period => Swept(held, period)[e] = held[e]
                           /\ Holds(Swept(held, period), e) <=> held[e] <= period
  BY Periods DEF Swept, Holds

LEMMA AddedCache ==
    ASSUME NEW S, NEW held \in [S -> Nat], NEW T
    PROVE  /\ Add(held, T) \in [S -> Nat]
           /\ \A e \in S : /\ held[e] # Never \/ e \notin T => Add(held, T)[e] = held[e]
                           /\ held[e] = Never /\ e \in T => Add(held, T)[e] = 0
                           /\ Holds(Add(held, T), e) <=> held[e] # Never \/ e \in T
  BY Periods DEF Add, Holds

LEMMA KeepsAre ==
    ASSUME peering \in FirewallCases
    PROVE  /\ Len(peering.groups) \in Nat /\ Keeps = 1..Len(peering.groups)
           /\ \A k \in Keeps : peering.groups[k] \subseteq Peers
           /\ peering.peers \subseteq Peers /\ peering.goroutines \subseteq Validations
<1>1. peering.groups \in Seq(SUBSET Peers)
  BY FirewallAssumption
<1> QED
  BY <1>1, FirewallAssumption DEF Keeps

\* The search starts at the number of opened keeps, which is the last of them.
LEMMA LastOpened ==
    ASSUME FirewallTypeOK, PrefixOpened
    PROVE  /\ Cardinality({k \in Keeps : Opened(k)}) \in Nat
           /\ \A k \in Keeps : Opened(k) <=> k <= Cardinality({j \in Keeps : Opened(j)})
           /\ Cardinality({k \in Keeps : Opened(k)}) \in Keeps \cup {0}
<1> DEFINE S == {k \in Keeps : Opened(k)}
           m == Cardinality(S)
           n == Len(peering.groups)
<1>1. n \in Nat /\ Keeps = 1..n
  BY KeepsAre DEF FirewallTypeOK
<1>2. IsFiniteSet(1..n) /\ Cardinality(1..n) = n
  <2>1. IsFiniteSet(1..n) /\ Cardinality(1..n) = IF 1 > n THEN 0 ELSE n - 1 + 1
    BY <1>1, FS_Interval
  <2> QED
    BY <1>1, <2>1
<1>3. S \in SUBSET (1..n)
  BY <1>1
<1>4. IsFiniteSet(S) /\ m \in Nat
  BY <1>2, <1>3, FS_Subset, FS_CardinalityType
<1>5. m <= n
  BY <1>2, <1>3, FS_Subset
<1> HIDE DEF m
<1>6. ASSUME NEW k \in S PROVE k <= m
  <2>1. k \in Nat /\ k >= 1 /\ k \in Keeps /\ Opened(k)
    BY <1>1, <1>6
  <2>2. 1..k \in SUBSET S
    BY <1>1, <2>1 DEF PrefixOpened
  <2>3. Cardinality(1..k) = k
    <3>1. Cardinality(1..k) = IF 1 > k THEN 0 ELSE k - 1 + 1
      BY <2>1, FS_Interval
    <3> QED
      BY <2>1, <3>1
  <2>4. Cardinality(1..k) <= Cardinality(S)
    BY <1>4, <2>2, FS_Subset
  <2> QED
    BY <2>3, <2>4 DEF m
<1>7. S \in SUBSET (1..m)
  BY <1>1, <1>3, <1>4, <1>6
<1>8. IsFiniteSet(1..m) /\ Cardinality(1..m) = m
  <2>1. IsFiniteSet(1..m) /\ Cardinality(1..m) = IF 1 > m THEN 0 ELSE m - 1 + 1
    BY <1>4, FS_Interval
  <2> QED
    BY <1>4, <2>1
<1>9. 1..m = S
  BY <1>7, <1>8, FS_Subset DEF m
<1>10. \A k \in Keeps : Opened(k) <=> k <= m
  BY <1>1, <1>4, <1>9
<1>11. m \in Keeps \cup {0}
  BY <1>1, <1>4, <1>5
<1> QED
  BY <1>4, <1>10, <1>11 DEF m

-----------------------------------------------------------------------------
(* What was a reason stays one while no time passes.                       *)

FactsStay ==
    /\ peering' = peering
    /\ \A p \in Peers, i, age \in Nat :
        /\ Evidence(p, age) => Evidence(p, age)'
        /\ Excuse(p, i, age) => Excuse(p, i, age)'
        /\ LateAuthorization(p, age) => LateAuthorization(p, age)'
    /\ \A k \in Keeps, age \in Nat : RecentlyActive(k, age) => RecentlyActive(k, age)'
    /\ \A k \in Keeps : /\ Opened(k) => Opened(k)'
                        /\ ended[k] # Never => ended'[k] # Never

LEMMA CallFacts ==
    ASSUME FirewallTypeOK, UNCHANGED chainState, CallFails \/ CallWorks
    PROVE  FactsStay /\ failure' \in Nat
<1>1. UNCHANGED <<peering, authorized, opened, ended>> /\ Keeps' = Keeps
  BY DEF chainState, Keeps
<1>2. failure' \in Nat /\ \A age \in Nat : failure <= age => failure' <= age
  BY DEF FirewallTypeOK, CallFails, CallWorks
<1>3. \A k \in Keeps : (Opened(k) <=> Opened(k)') /\ (Active(k) <=> Active(k)')
  BY <1>1 DEF Opened, Active
<1>4. \A k \in Keeps, age \in Nat : RecentlyActive(k, age) => RecentlyActive(k, age)'
  BY <1>1, <1>3 DEF RecentlyActive
<1>5. \A p \in Peers, i, age \in Nat : Excuse(p, i, age) => Excuse(p, i, age)'
  BY <1>1, <1>2, <1>3 DEF Excuse
<1>6. \A p \in Peers, age \in Nat : Evidence(p, age) => Evidence(p, age)'
  BY <1>1, <1>3 DEF Evidence, RecentlyActive
<1>7. \A p \in Peers, age \in Nat : LateAuthorization(p, age) => LateAuthorization(p, age)'
  BY <1>1 DEF LateAuthorization
<1> QED
  BY <1>1, <1>2, <1>3, <1>4, <1>5, <1>6, <1>7 DEF FactsStay

LEMMA ChainFacts ==
    ASSUME FirewallTypeOK, PrefixOpened, ChainStep
    PROVE  /\ FactsStay /\ PrefixOpened'
           /\ authorized' \in [Peers -> Nat] /\ opened' \in [Keeps -> Nat] /\ ended' \in [Keeps -> Nat]
<1> USE Periods
<1>0. /\ peering' = peering /\ failure' = failure /\ Keeps' = Keeps
      /\ Keeps \subseteq Nat /\ \A k \in Keeps : peering.groups[k] \subseteq Peers
      /\ peering.peers \subseteq Peers
  BY KeepsAre DEF FirewallTypeOK, ChainStep, Authorize, OpenKeep, EndKeep, Keeps
<1> DEFINE Monotone ==
             /\ \A p \in Peers : authorized[p] # Never => authorized'[p] = authorized[p]
             /\ \A p \in Peers : authorized[p] = Never => authorized'[p] \in {0, Never}
             /\ \A k \in Keeps : Opened(k) => opened'[k] = opened[k]
             /\ \A k \in Keeps : ~Opened(k) => opened'[k] \in {0, Never}
             /\ \A k \in Keeps : ended[k] # Never => ended'[k] = ended[k]
             /\ \A k \in Keeps : ended[k] = Never => ended'[k] \in {0, Never}
           Types == /\ authorized' \in [Peers -> Nat]
                    /\ opened' \in [Keeps -> Nat] /\ ended' \in [Keeps -> Nat]
<1>1. ASSUME Authorize PROVE Monotone /\ Types
  <2>1. PICK p \in Peers : authorized[p] = Never /\ authorized' = [authorized EXCEPT ![p] = 0]
    BY <1>0, <1>1 DEF Authorize
  <2>2. opened' = opened /\ ended' = ended
    BY <1>1 DEF Authorize
  <2> QED
    BY <2>1, <2>2 DEF FirewallTypeOK, PrefixOpened, Opened, Keeps
<1>2. ASSUME OpenKeep PROVE Monotone /\ Types
  <2>1. PICK k \in Keeps : /\ ~Opened(k) /\ \A j \in 1..(k - 1) : Opened(j)
                           /\ opened' = [opened EXCEPT ![k] = 0]
    BY <1>2 DEF OpenKeep
  <2>2. authorized' = authorized /\ ended' = ended
    BY <1>2 DEF OpenKeep
  <2> QED
    BY <2>1, <2>2 DEF FirewallTypeOK, Opened
<1>3. ASSUME EndKeep PROVE Monotone /\ Types
  <2>1. PICK k \in Keeps : Active(k) /\ ended' = [ended EXCEPT ![k] = 0]
    BY <1>3 DEF EndKeep
  <2>2. authorized' = authorized /\ opened' = opened
    BY <1>3 DEF EndKeep
  <2> QED
    BY <2>1, <2>2 DEF FirewallTypeOK, Active, Opened
<1>4. Monotone /\ Types
  BY <1>1, <1>2, <1>3 DEF ChainStep
<1>5. PrefixOpened'
  <2>1. CASE OpenKeep
    <3>1. PICK k \in Keeps : /\ ~Opened(k) /\ \A j \in 1..(k - 1) : Opened(j)
                             /\ opened' = [opened EXCEPT ![k] = 0]
      BY <2>1 DEF OpenKeep
    <3>2. \A j \in Keeps : Opened(j)' <=> Opened(j) \/ j = k
      BY <3>1 DEF FirewallTypeOK, Opened
    <3>3. \A j \in Keeps : j >= 1 /\ j \in Nat
      BY KeepsAre DEF FirewallTypeOK
    <3>4. \A j \in Keeps : j < k => Opened(j)
      BY <3>1, <3>3
    <3> QED
      BY <1>0, <3>2, <3>4 DEF PrefixOpened
  <2>2. CASE opened' = opened
    BY <1>0, <2>2 DEF PrefixOpened, Opened
  <2> QED
    BY <2>1, <2>2 DEF ChainStep, Authorize, EndKeep
<1> HIDE DEF Types
<1>6. \A k \in Keeps : /\ Opened(k) => Opened(k)'
                       /\ ended[k] # Never => ended'[k] # Never
                       /\ Active(k)' /\ Opened(k) => Active(k)
                       /\ Active(k)' /\ ~Opened(k) => opened'[k] = 0
  BY <1>4 DEF Opened, Active
<1>7. \A k \in Keeps, age \in Nat : RecentlyActive(k, age) => RecentlyActive(k, age)'
  BY <1>4, <1>6 DEF RecentlyActive
<1>8. ASSUME NEW p \in Peers, NEW i \in Nat, NEW age \in Nat, Excuse(p, i, age)
      PROVE  Excuse(p, i, age)'
  <2>1. CASE failure <= age
    BY <1>0, <2>1 DEF Excuse
  <2>2. CASE \A k \in Keeps : k > i /\ Active(k) /\ p \in peering.groups[k] => opened[k] <= age
    <3>1. ASSUME NEW k \in Keeps, k > i, Active(k)', p \in peering.groups[k]
          PROVE  opened'[k] <= age
      BY <1>4, <1>6, <2>2, <3>1
    <3> QED
      BY <1>0, <3>1 DEF Excuse
  <2> QED
    BY <1>8, <2>1, <2>2 DEF Excuse
<1>9. ASSUME NEW p \in Peers, NEW age \in Nat, Evidence(p, age) PROVE Evidence(p, age)'
  <2>1. activeKeepMemberCachePeriod + age \in Nat
    OBVIOUS
  <2>2. PICK k \in Keeps : p \in peering.groups[k]
                           /\ RecentlyActive(k, activeKeepMemberCachePeriod + age)
    BY <1>9 DEF Evidence
  <2>3. RecentlyActive(k, activeKeepMemberCachePeriod + age)'
    BY <1>7, <2>1, <2>2
  <2> QED
    BY <1>0, <2>2, <2>3 DEF Evidence
<1>10. \A p \in Peers, age \in Nat : LateAuthorization(p, age) => LateAuthorization(p, age)'
  BY <1>4 DEF LateAuthorization
<1>11. FactsStay
  BY <1>0, <1>6, <1>7, <1>8, <1>9, <1>10 DEF FactsStay
<1> QED
  BY <1>4, <1>5, <1>11 DEF Types

LEMMA ValidationStays ==
    ASSUME FirewallTypeOK, FactsStay, NEW v \in Validations, ValidationInv(v),
           validation'[v] = validation[v],
           Walking(v) => \A p \in Peers : /\ Fresh(activeKeepMembersCache'[p])
                                          /\ Fresh(noActiveKeepMembersCache'[p])
    PROVE  ValidationInv(v)'
<1>1. PICK p, i : p = Peer(v) /\ i = Index(v)
  OBVIOUS
<1>2. /\ Peer(v)' = p /\ Index(v)' = i /\ (Walking(v)' <=> Walking(v))
      /\ \A pc \in ValidationStates : AtStep(v, pc)' <=> AtStep(v, pc)
      /\ Keeps' = Keeps /\ i \in Nat
  BY <1>1 DEF Peer, Index, Walking, AtStep, FactsStay, Keeps, FirewallTypeOK
<1>3. activeKeepMemberCachePeriod \in Nat /\ authorizationCachePeriod \in Nat
  BY Periods
<1>4. /\ ~AtStep(v, "idle") => p \in Peers
      /\ Walking(v) \/ AtStep(v, "members") \/ AtStep(v, "admitted") \/ AtStep(v, "notMember")
            \/ AtStep(v, "notAuthorized") => p \in Peers
  BY <1>1 DEF ValidationInv, AtStep, Walking, WalkStates
<1>5. Walking(v) =>
        /\ \/ i \in Keeps /\ Opened(i)'
           \/ i = 0 /\ AtStep(v, "keep")
        /\ Excuse(p, i, 0)'
  BY <1>1, <1>2, <1>4 DEF ValidationInv, FactsStay
<1>6. AtStep(v, "members") => RecentlyActive(i, activeKeepMemberCachePeriod)'
  BY <1>1, <1>3 DEF ValidationInv, FactsStay, AtStep, Walking, WalkStates
<1>7. AtStep(v, "admitted") => Evidence(p, activeKeepMemberCachePeriod)'
  BY <1>1, <1>3, <1>4 DEF ValidationInv, FactsStay
<1>8. AtStep(v, "notMember") => Excuse(p, 0, activeKeepMemberCachePeriod)'
  BY <1>1, <1>3, <1>4 DEF ValidationInv, FactsStay
<1>9. AtStep(v, "notAuthorized") => LateAuthorization(p, authorizationCachePeriod)'
  BY <1>1, <1>3, <1>4 DEF ValidationInv, FactsStay
<1> QED
  BY <1>2, <1>4, <1>5, <1>6, <1>7, <1>8, <1>9
     DEF ValidationInv, ValidationStates, Verdicts, Fresh, Excuse, Evidence, RecentlyActive,
         LateAuthorization, Opened, Active

-----------------------------------------------------------------------------
(* A step of a validation.                                                 *)

ValidationRecords == [pc : ValidationStates, peer : Peers \cup {NoPeer}, index : Nat]

\* Goroutine v is now at r.
ValidationMoves(v, r) ==
    /\ validation' \in [Validations -> ValidationRecords]
    /\ validation'[v] = r
    /\ \A u \in Validations \ {v} : validation'[u] = validation[u]

\* A cache keeps an answer, forgets it or gets one that is right now.
CacheStep ==
    /\ nonAuthorizedOperatorsCache' \in [Peers -> Nat]
    /\ activeKeepMembersCache' \in [Peers -> Nat] /\ noActiveKeepMembersCache' \in [Peers -> Nat]
    /\ isActive' \in [Keeps -> Nat]
    /\ \A p \in Peers :
        /\ \/ activeKeepMembersCache'[p] \in {activeKeepMembersCache[p], Never}
           \/ activeKeepMembersCache'[p] = 0 /\ Evidence(p, 0)
        /\ \/ noActiveKeepMembersCache'[p] \in {noActiveKeepMembersCache[p], Never}
           \/ noActiveKeepMembersCache'[p] = 0 /\ Excuse(p, 0, 0)
        /\ \/ nonAuthorizedOperatorsCache'[p] \in {nonAuthorizedOperatorsCache[p], Never}
           \/ nonAuthorizedOperatorsCache'[p] = 0 /\ LateAuthorization(p, 0)
    /\ \A k \in Keeps :
        /\ \/ isActive'[k] \in {isActive[k], Never}
           \/ isActive'[k] = 0 /\ RecentlyActive(k, 0)
        /\ k \in isInactive' => k \in isInactive \/ ended[k] # Never

LEMMA SameCaches ==
    ASSUME FirewallTypeOK,
           UNCHANGED <<nonAuthorizedOperatorsCache, memberCaches, isActive, isInactive>>
    PROVE  CacheStep
  BY DEF FirewallTypeOK, CacheStep, memberCaches

LEMMA CacheStepInv ==
    ASSUME FirewallTypeOK, CacheInv, FactsStay, CacheStep
    PROVE  CacheInv'
<1> USE Periods
<1>0. peering' = peering /\ Keeps' = Keeps
  BY DEF FactsStay, Keeps
<1>1. ASSUME NEW p \in Peers, activeKeepMembersCache'[p] <= activeKeepMemberCachePeriod
      PROVE  Evidence(p, activeKeepMembersCache[p])' 
  <2>1. PICK a \in Nat : a = activeKeepMembersCache'[p]
    BY DEF CacheStep
  <2>2. Evidence(p, a)
    BY <1>1, <2>1 DEF CacheStep, CacheInv
  <2>3. Evidence(p, a)'
    BY <2>2 DEF FactsStay
  <2> QED
    BY <2>1, <2>3 DEF Evidence
<1>2. ASSUME NEW p \in Peers, noActiveKeepMembersCache'[p] <= activeKeepMemberCachePeriod
      PROVE  Excuse(p, 0, noActiveKeepMembersCache[p])'
  <2>1. PICK a \in Nat : a = noActiveKeepMembersCache'[p]
    BY DEF CacheStep
  <2>2. Excuse(p, 0, a)
    BY <1>2, <2>1 DEF CacheStep, CacheInv
  <2>3. Excuse(p, 0, a)'
    BY <2>2 DEF FactsStay
  <2> QED
    BY <2>1, <2>3 DEF Excuse
<1>3. ASSUME NEW p \in Peers, nonAuthorizedOperatorsCache'[p] <= authorizationCachePeriod
      PROVE  LateAuthorization(p, nonAuthorizedOperatorsCache[p])'
  <2>1. PICK a \in Nat : a = nonAuthorizedOperatorsCache'[p]
    BY DEF CacheStep
  <2>2. LateAuthorization(p, a)
    BY <1>3, <2>1 DEF CacheStep, CacheInv
  <2>3. LateAuthorization(p, a)'
    BY <2>2 DEF FactsStay
  <2> QED
    BY <2>1, <2>3 DEF LateAuthorization
<1>4. ASSUME NEW k \in Keeps, isActive'[k] <= activeKeepMemberCachePeriod
      PROVE  RecentlyActive(k, isActive[k])'
  <2>1. PICK a \in Nat : a = isActive'[k]
    BY DEF CacheStep
  <2>2. RecentlyActive(k, a)
    BY <1>4, <2>1 DEF CacheStep, CacheInv
  <2>3. RecentlyActive(k, a)'
    BY <2>2 DEF FactsStay
  <2> QED
    BY <2>1, <2>3 DEF RecentlyActive
<1>5. \A k \in Keeps : k \in isInactive' => ended'[k] # Never
  BY DEF CacheStep, CacheInv, FactsStay
<1> QED
  BY <1>0, <1>1, <1>2, <1>3, <1>4, <1>5 DEF CacheInv

\* The other goroutines keep their ground.
LEMMA PolicyStep ==
    ASSUME FirewallInv, NEW v \in Validations, NEW r, ValidationMoves(v, r),
           UNCHANGED chainState, CallFails \/ CallWorks, CacheStep, ValidationInv(v)'
    PROVE  FirewallInv'
<1>0. FirewallTypeOK /\ PrefixOpened /\ CacheInv
  BY DEF FirewallInv
<1>1. FactsStay /\ failure' \in Nat
  BY <1>0, CallFacts
<1>2. /\ UNCHANGED <<peering, authorized, opened, ended>> /\ Keeps' = Keeps
  BY DEF chainState, Keeps
<1>3. FirewallTypeOK'
  BY <1>0, <1>1, <1>2 DEF FirewallTypeOK, CacheStep, ValidationMoves, ValidationRecords
<1>4. PrefixOpened'
  BY <1>0, <1>2 DEF PrefixOpened, Opened
<1>5. CacheInv'
  BY <1>0, <1>1, CacheStepInv
<1>6. \A p \in Peers : /\ Fresh(activeKeepMembersCache[p]) => Fresh(activeKeepMembersCache'[p])
                       /\ Fresh(noActiveKeepMembersCache[p]) => Fresh(noActiveKeepMembersCache'[p])
  BY Periods DEF CacheStep, Fresh
<1>7. ASSUME NEW u \in Validations, u # v PROVE ValidationInv(u)'
  <2>1. ValidationInv(u) /\ validation'[u] = validation[u]
    BY <1>7 DEF FirewallInv, ValidationMoves
  <2>2. Walking(u) => \A p \in Peers : /\ Fresh(activeKeepMembersCache'[p])
                                       /\ Fresh(noActiveKeepMembersCache'[p])
    BY <1>6, <2>1 DEF ValidationInv
  <2> QED
    BY <1>0, <1>1, <2>1, <2>2, ValidationStays
<1> QED
  BY <1>3, <1>4, <1>5, <1>7 DEF FirewallInv

LEMMA ProceedMoves ==
    ASSUME FirewallTypeOK, NEW v \in Validations, NEW pc \in ValidationStates, Proceed(v, pc)
    PROVE  /\ ValidationMoves(v, [validation[v] EXCEPT !.pc = pc])
           /\ validation'[v].pc = pc /\ Peer(v)' = Peer(v) /\ Index(v)' = Index(v)
  BY DEF FirewallTypeOK, Proceed, ValidationMoves, ValidationRecords, Peer, Index

LEMMA NextKeepMoves ==
    ASSUME FirewallTypeOK, NEW v \in Validations, NextKeep(v), Index(v) >= 1
    PROVE  /\ ValidationMoves(v, [validation[v] EXCEPT !.pc = "keep", !.index = Index(v) - 1])
           /\ validation'[v].pc = "keep" /\ Peer(v)' = Peer(v) /\ Index(v)' = Index(v) - 1
<1> DEFINE n == Index(v) - 1
<1>1. n \in Nat /\ validation' = [validation EXCEPT ![v].pc = "keep", ![v].index = n]
  BY DEF FirewallTypeOK, NextKeep, Index
<1> HIDE DEF n
<1>2. /\ ValidationMoves(v, [validation[v] EXCEPT !.pc = "keep", !.index = n])
      /\ validation'[v].pc = "keep" /\ validation'[v].peer = validation[v].peer
      /\ validation'[v].index = n
  BY <1>1 DEF FirewallTypeOK, ValidationMoves, ValidationRecords, ValidationStates
<1> QED
  BY <1>2 DEF n, Peer, Index

\* A validation that is not searching owes nothing but the reason of its verdict.
LEMMA VerdictInv ==
    ASSUME NEW v \in Validations, NEW p \in Peers, Peer(v)' = p,
           NEW pc \in ValidationStates \ WalkStates, validation'[v].pc = pc,
           pc = "admitted" => Evidence(p, activeKeepMemberCachePeriod)',
           pc = "notMember" => Excuse(p, 0, activeKeepMemberCachePeriod)',
           pc = "notAuthorized" => LateAuthorization(p, authorizationCachePeriod)'
    PROVE  ValidationInv(v)'
<1>1. \A q \in ValidationStates : AtStep(v, q)' <=> pc = q
  BY DEF AtStep
<1>2. ~Walking(v)'
  BY DEF Walking, WalkStates
<1> QED
  BY <1>1, <1>2 DEF ValidationInv, ValidationStates, Verdicts, WalkStates, Evidence, Excuse,
         LateAuthorization, RecentlyActive, Opened, Active

LEMMA SearchInv ==
    ASSUME NEW v \in Validations, NEW p \in Peers, NEW i, Peer(v)' = p, Index(v)' = i,
           NEW pc \in WalkStates, validation'[v].pc = pc, Keeps' = Keeps,
           \/ i \in Keeps /\ Opened(i)'
           \/ i = 0 /\ pc = "keep",
           Excuse(p, i, 0)',
           \A q \in Peers : Fresh(activeKeepMembersCache'[q]) /\ Fresh(noActiveKeepMembersCache'[q]),
           pc = "members" => RecentlyActive(i, activeKeepMemberCachePeriod)'
    PROVE  ValidationInv(v)'
<1>1. \A q \in ValidationStates : AtStep(v, q)' <=> pc = q
  BY DEF AtStep
<1>2. AtStep(v, "keep")' <=> pc = "keep"
  BY DEF AtStep
<1> QED
  BY <1>1, <1>2 DEF ValidationInv, ValidationStates, Verdicts, WalkStates, Excuse,
         RecentlyActive, Opened, Active, Fresh

-----------------------------------------------------------------------------
(* The steps of a validation, one by one.                                  *)

LEMMA ValidateInv ==
    ASSUME FirewallInv, NEW v \in Validations, Validate(v), UNCHANGED chainState
    PROVE  FirewallInv'
<1>0. FirewallTypeOK /\ CacheStep /\ (CallFails \/ CallWorks)
  BY SameCaches DEF FirewallInv, Validate, operatorCaches, keepInfoCache
<1>1. PICK p \in peering.peers :
        validation' = [validation EXCEPT ![v] = [pc |-> "authorization", peer |-> p, index |-> 0]]
  BY DEF Validate
<1>2. p \in Peers
  BY <1>0, KeepsAre DEF FirewallTypeOK
<1>3. [pc |-> "authorization", peer |-> p, index |-> 0] \in ValidationRecords
  BY <1>2 DEF ValidationRecords, ValidationStates
<1>4. /\ ValidationMoves(v, [pc |-> "authorization", peer |-> p, index |-> 0])
      /\ validation'[v].pc = "authorization" /\ Peer(v)' = p
  BY <1>0, <1>1, <1>3 DEF FirewallTypeOK, ValidationMoves, Peer, ValidationRecords
<1>5. ValidationInv(v)'
  BY <1>2, <1>4, VerdictInv DEF ValidationStates, WalkStates
<1> QED
  BY <1>0, <1>4, <1>5, PolicyStep

LEMMA EndValidationInv ==
    ASSUME FirewallInv, NEW v \in Validations, EndValidation(v), UNCHANGED chainState
    PROVE  FirewallInv'
<1>0. FirewallTypeOK /\ CacheStep /\ (CallFails \/ CallWorks)
  BY SameCaches DEF FirewallInv, EndValidation, operatorCaches, keepInfoCache
<1>1. Idle \in ValidationRecords
  BY DEF ValidationRecords, ValidationStates, Idle
<1>2. ValidationMoves(v, Idle)
  BY <1>0, <1>1 DEF FirewallTypeOK, ValidationMoves, ValidationRecords, EndValidation
<1>3. validation'[v].pc = "idle"
  BY <1>2 DEF ValidationMoves, Idle
<1>4. ValidationInv(v)'
  BY <1>3 DEF ValidationInv, AtStep, Walking, WalkStates
<1> QED
  BY <1>0, <1>2, <1>4, PolicyStep

\* A verdict that changes no cache of a search.
LEMMA ReachVerdict ==
    ASSUME FirewallInv, NEW v \in Validations, UNCHANGED chainState, CallFails \/ CallWorks,
           ~AtStep(v, "idle"), CacheStep,
           NEW pc \in ValidationStates \ WalkStates, Proceed(v, pc),
           pc = "admitted" => Evidence(Peer(v), activeKeepMemberCachePeriod),
           pc = "notMember" => Excuse(Peer(v), 0, activeKeepMemberCachePeriod),
           pc = "notAuthorized" => LateAuthorization(Peer(v), authorizationCachePeriod)
    PROVE  FirewallInv'
<1>0. FirewallTypeOK
  BY DEF FirewallInv
<1>1. PICK p \in Peers : p = Peer(v)
  BY DEF FirewallInv, ValidationInv
<1>2. /\ ValidationMoves(v, [validation[v] EXCEPT !.pc = pc])
      /\ validation'[v].pc = pc /\ Peer(v)' = p
  BY <1>0, <1>1, ProceedMoves
<1>3. FactsStay
  BY <1>0, CallFacts
<1>4. /\ pc = "admitted" => Evidence(p, activeKeepMemberCachePeriod)'
      /\ pc = "notMember" => Excuse(p, 0, activeKeepMemberCachePeriod)'
      /\ pc = "notAuthorized" => LateAuthorization(p, authorizationCachePeriod)'
  BY <1>1, <1>3, Periods DEF FactsStay
<1>5. ValidationInv(v)'
  BY <1>1, <1>2, <1>4, VerdictInv
<1> QED
  BY <1>2, <1>5, PolicyStep

\* An age within the period is a reason within the period.
LEMMA WithinPeriod ==
    ASSUME FirewallTypeOK, NEW p \in Peers, NEW age \in Nat
    PROVE  /\ Evidence(p, age) /\ age <= activeKeepMemberCachePeriod
                => Evidence(p, activeKeepMemberCachePeriod)
           /\ Excuse(p, 0, age) /\ age <= activeKeepMemberCachePeriod
                => Excuse(p, 0, activeKeepMemberCachePeriod)
           /\ LateAuthorization(p, age) /\ age <= authorizationCachePeriod
                => LateAuthorization(p, authorizationCachePeriod)
<1> USE Periods
<1>1. ASSUME Evidence(p, age), age <= activeKeepMemberCachePeriod
      PROVE  Evidence(p, activeKeepMemberCachePeriod)
  BY <1>1 DEF Evidence, RecentlyActive, FirewallTypeOK
<1>2. ASSUME Excuse(p, 0, age), age <= activeKeepMemberCachePeriod
      PROVE  Excuse(p, 0, activeKeepMemberCachePeriod)
  BY <1>2 DEF Excuse, FirewallTypeOK
<1>3. ASSUME LateAuthorization(p, age), age <= authorizationCachePeriod
      PROVE  LateAuthorization(p, authorizationCachePeriod)
  BY <1>3 DEF LateAuthorization, FirewallTypeOK
<1> QED
  BY <1>1, <1>2, <1>3

LEMMA AuthorizationInv ==
    ASSUME FirewallInv, NEW v \in Validations, validateAuthorization(v), UNCHANGED chainState
    PROVE  FirewallInv'
<1> DEFINE no == Swept(nonAuthorizedOperatorsCache, authorizationCachePeriod)
           yes == Swept(authorizedOperatorsCache, authorizationCachePeriod)
           p == Peer(v)
           answer == authorized[p] # Never
<1>0. /\ FirewallTypeOK /\ ~AtStep(v, "idle") /\ p \in Peers /\ CacheInv
      /\ nonAuthorizedOperatorsCache \in [Peers -> Nat]
  BY DEF FirewallInv, FirewallTypeOK, ValidationInv, validateAuthorization, AtStep
<1>1. UNCHANGED <<activeKeepMembersCache, noActiveKeepMembersCache, isActive, isInactive>>
  BY DEF validateAuthorization, memberCaches, keepInfoCache
<1>2. /\ no \in [Peers -> Nat]
      /\ \A q \in Peers : no[q] \in {nonAuthorizedOperatorsCache[q], Never}
      /\ Holds(no, p) => nonAuthorizedOperatorsCache[p] <= authorizationCachePeriod
  BY <1>0, SweptCache, Periods
<1>3. Holds(no, p) => LateAuthorization(p, authorizationCachePeriod)
  BY <1>0, <1>2, WithinPeriod DEF CacheInv
<1>4. ~answer => LateAuthorization(p, 0) /\ LateAuthorization(p, authorizationCachePeriod)
  BY DEF LateAuthorization
<1>5. CASE nonAuthorizedOperatorsCache' = no
  <2>1. CacheStep
    BY <1>0, <1>1, <1>2, <1>5 DEF CacheStep, FirewallTypeOK
  <2>2. CASE /\ Holds(yes, p) \/ Holds(no, p)
             /\ CallWorks /\ Proceed(v, IF Holds(yes, p) THEN "membership" ELSE "notAuthorized")
    <3>1. PICK pc \in {"membership", "notAuthorized"} :
            Proceed(v, pc) /\ (pc = "notAuthorized" => Holds(no, p))
      BY <2>2
    <3> QED
      BY <1>0, <1>3, <2>1, <2>2, <3>1, ReachVerdict DEF ValidationStates, Verdicts, WalkStates
  <2>3. CASE CallFails /\ Proceed(v, "refused")
    BY <1>0, <2>1, <2>3, ReachVerdict DEF ValidationStates, Verdicts, WalkStates
  <2>4. CASE CallWorks /\ Proceed(v, "membership")
    BY <1>0, <2>1, <2>4, ReachVerdict DEF ValidationStates, Verdicts, WalkStates
  <2>5. CASE CallWorks /\ ~answer /\ Proceed(v, "notAuthorized")
    BY <1>0, <1>4, <2>1, <2>5, ReachVerdict DEF ValidationStates, Verdicts, WalkStates
  <2>6. CASE CallWorks /\ Proceed(v, IF answer THEN "membership" ELSE "notAuthorized")
    BY <2>4, <2>5, <2>6
  <2> QED
    BY <2>2, <2>3, <2>6 DEF validateAuthorization
<1>6. CASE /\ ~Holds(no, p) /\ CallWorks
           /\ Proceed(v, IF answer THEN "membership" ELSE "notAuthorized")
           /\ nonAuthorizedOperatorsCache' = Add(no, IF answer THEN {} ELSE {p})
  <2>1. PICK T : T = (IF answer THEN {} ELSE {p})
    OBVIOUS
  <2>2. /\ Add(no, T) \in [Peers -> Nat]
        /\ \A q \in Peers : \/ Add(no, T)[q] = no[q]
                            \/ Add(no, T)[q] = 0 /\ q \in T
    BY <1>2, AddedCache
  <2>3. \A q \in T : LateAuthorization(q, 0)
    BY <1>4, <2>1
  <2>4. \A q \in Peers :
          \/ nonAuthorizedOperatorsCache'[q] \in {nonAuthorizedOperatorsCache[q], Never}
          \/ nonAuthorizedOperatorsCache'[q] = 0 /\ LateAuthorization(q, 0)
    BY <1>2, <1>6, <2>1, <2>2, <2>3
  <2>5. nonAuthorizedOperatorsCache' \in [Peers -> Nat]
    BY <1>6, <2>1, <2>2
  <2>6. CacheStep
    BY <1>0, <1>1, <2>4, <2>5 DEF CacheStep, FirewallTypeOK
  <2>7. PICK pc \in {"membership", "notAuthorized"} :
            Proceed(v, pc) /\ (pc = "notAuthorized" => ~answer)
    BY <1>6
  <2> QED
    BY <1>0, <1>4, <1>6, <2>6, <2>7, ReachVerdict DEF ValidationStates, Verdicts, WalkStates
<1> QED
  BY <1>5, <1>6 DEF validateAuthorization

LEMMA MembershipInv ==
    ASSUME FirewallInv, NEW v \in Validations, validateActiveKeepMembership(v),
           UNCHANGED chainState
    PROVE  FirewallInv'
<1> DEFINE yes == Swept(activeKeepMembersCache, activeKeepMemberCachePeriod)
           no == Swept(noActiveKeepMembersCache, activeKeepMemberCachePeriod)
           last == Cardinality({k \in Keeps : Opened(k)})
           p == Peer(v)
<1>0. /\ FirewallTypeOK /\ PrefixOpened /\ CacheInv /\ ~AtStep(v, "idle") /\ p \in Peers
      /\ activeKeepMembersCache \in [Peers -> Nat] /\ noActiveKeepMembersCache \in [Peers -> Nat]
  BY DEF FirewallInv, FirewallTypeOK, ValidationInv, validateActiveKeepMembership, AtStep
<1>1. /\ activeKeepMembersCache' = yes /\ noActiveKeepMembersCache' = no
      /\ UNCHANGED <<nonAuthorizedOperatorsCache, isActive, isInactive>>
  BY DEF validateActiveKeepMembership, operatorCaches, keepInfoCache
<1>2. /\ yes \in [Peers -> Nat]
      /\ \A q \in Peers : yes[q] \in {activeKeepMembersCache[q], Never} /\ Fresh(yes[q])
      /\ Holds(yes, p) => activeKeepMembersCache[p] <= activeKeepMemberCachePeriod
  BY <1>0, SweptCache, Periods DEF Fresh
<1>3. /\ no \in [Peers -> Nat]
      /\ \A q \in Peers : no[q] \in {noActiveKeepMembersCache[q], Never} /\ Fresh(no[q])
      /\ Holds(no, p) => noActiveKeepMembersCache[p] <= activeKeepMemberCachePeriod
  BY <1>0, SweptCache, Periods DEF Fresh
<1>4. CacheStep
  BY <1>0, <1>1, <1>2, <1>3 DEF CacheStep, FirewallTypeOK
<1>5. CASE Holds(yes, p) /\ CallWorks /\ Proceed(v, "admitted")
  <2>1. Evidence(p, activeKeepMemberCachePeriod)
    BY <1>0, <1>2, <1>5, WithinPeriod DEF CacheInv
  <2> QED
    BY <1>0, <1>4, <1>5, <2>1, ReachVerdict DEF ValidationStates, Verdicts, WalkStates
<1>6. CASE Holds(no, p) /\ CallWorks /\ Proceed(v, "notMember")
  <2>1. Excuse(p, 0, activeKeepMemberCachePeriod)
    BY <1>0, <1>3, <1>6, WithinPeriod DEF CacheInv
  <2> QED
    BY <1>0, <1>4, <1>6, <2>1, ReachVerdict DEF ValidationStates, Verdicts, WalkStates
<1>7. CASE CallFails /\ Proceed(v, "refused")
  BY <1>0, <1>4, <1>7, ReachVerdict DEF ValidationStates, Verdicts, WalkStates
<1>8. CASE /\ CallWorks
           /\ validation' = [validation EXCEPT ![v].pc = "keep", ![v].index = last]
  <2>1. PICK i : i = last
    OBVIOUS
  <2>2. PICK q \in Peers : q = p
    BY <1>0
  <2>3. /\ i \in Nat /\ i \in Keeps \cup {0} /\ \A k \in Keeps : Opened(k) <=> k <= i
        /\ Keeps \subseteq Nat
    BY <1>0, <2>1, LastOpened, KeepsAre DEF FirewallTypeOK
  <2>4. /\ ValidationMoves(v, [validation[v] EXCEPT !.pc = "keep", !.index = i])
        /\ validation'[v].pc = "keep" /\ Peer(v)' = q /\ Index(v)' = i
    BY <1>0, <1>8, <2>1, <2>2, <2>3
       DEF FirewallTypeOK, ValidationMoves, ValidationRecords, ValidationStates, Peer, Index
  <2>5. Excuse(q, i, 0)
    BY <2>3 DEF Excuse, Active
  <2>6. FactsStay
    BY <1>0, <1>8, CallFacts
  <2>7. Excuse(q, i, 0)' /\ Keeps' = Keeps
    BY <2>3, <2>5, <2>6 DEF FactsStay, Keeps
  <2>8. i \in Keeps => Opened(i)'
    BY <2>3, <2>6 DEF FactsStay
  <2>9. \A u \in Peers : Fresh(activeKeepMembersCache'[u]) /\ Fresh(noActiveKeepMembersCache'[u])
    BY <1>1, <1>2, <1>3
  <2>10. ValidationInv(v)'
    BY <2>3, <2>4, <2>7, <2>8, <2>9, SearchInv DEF WalkStates
  <2> QED
    BY <1>4, <1>8, <2>4, <2>10, PolicyStep
<1> QED
  BY <1>5, <1>6, <1>7, <1>8 DEF validateActiveKeepMembership

\* What a searching validation is known to be at.
LEMMA SearchFacts ==
    ASSUME FirewallInv, NEW v \in Validations, Walking(v), Index(v) # 0 \/ ~AtStep(v, "keep")
    PROVE  /\ FirewallTypeOK /\ CacheInv /\ Peer(v) \in Peers
           /\ Index(v) \in Keeps /\ Opened(Index(v)) /\ Index(v) \in Nat /\ Index(v) >= 1
           /\ Excuse(Peer(v), Index(v), 0)
           /\ \A p \in Peers : /\ Fresh(activeKeepMembersCache[p])
                               /\ Fresh(noActiveKeepMembersCache[p])
<1>1. ValidationInv(v) /\ FirewallTypeOK /\ CacheInv /\ ~AtStep(v, "idle")
  BY DEF FirewallInv, Walking, WalkStates, AtStep
<1>2. Index(v) \in Keeps
  BY <1>1 DEF ValidationInv
<1>3. Index(v) \in Nat /\ Index(v) >= 1
  BY <1>1, <1>2, KeepsAre DEF FirewallTypeOK
<1> QED
  BY <1>1, <1>2, <1>3 DEF ValidationInv

LEMMA FreshStays ==
    ASSUME CacheStep,
           \A p \in Peers : Fresh(activeKeepMembersCache[p]) /\ Fresh(noActiveKeepMembersCache[p])
    PROVE  \A p \in Peers : Fresh(activeKeepMembersCache'[p]) /\ Fresh(noActiveKeepMembersCache'[p])
  BY Periods DEF CacheStep, Fresh

\* The search goes on with the keep before: the one it leaves is no keep of the
\* peer's, has ended, or was not looked at because a call failed.
LEMMA GoOn ==
    ASSUME FirewallInv, NEW v \in Validations, Walking(v), Index(v) # 0 \/ ~AtStep(v, "keep"),
           NextKeep(v), UNCHANGED chainState, CallFails \/ CallWorks, CacheStep,
           \/ CallFails
           \/ ~Active(Index(v))
           \/ Peer(v) \notin peering.groups[Index(v)]
    PROVE  FirewallInv'
<1>0. /\ FirewallTypeOK /\ PrefixOpened
      /\ Index(v) \in Keeps /\ Opened(Index(v)) /\ Index(v) \in Nat /\ Index(v) >= 1
  BY SearchFacts DEF FirewallInv
<1>1. PICK i \in Keeps, p \in Peers : i = Index(v) /\ p = Peer(v)
  BY SearchFacts
<1>2. PICK j \in Nat : j = i - 1
  BY <1>0, <1>1
<1>3. /\ ValidationMoves(v, [validation[v] EXCEPT !.pc = "keep", !.index = Index(v) - 1])
      /\ validation'[v].pc = "keep" /\ Peer(v)' = p /\ Index(v)' = j
  BY <1>0, <1>1, <1>2, NextKeepMoves
<1>4. FactsStay
  BY <1>0, CallFacts
<1>5. Keeps' = Keeps /\ UNCHANGED <<peering, opened, ended>>
  BY DEF chainState, Keeps
<1>6. Excuse(p, i, 0)'
  <2>1. Excuse(p, i, 0)
    BY <1>1, SearchFacts
  <2> QED
    BY <1>0, <1>1, <1>4, <2>1 DEF FactsStay
<1>7. Excuse(p, j, 0)'
  <2>1. CASE CallFails
    BY <2>1 DEF CallFails, Excuse
  <2>2. CASE ~Active(i) \/ p \notin peering.groups[i]
    <3>1. ~Active(i)' \/ p \notin peering'.groups[i]
      BY <1>5, <2>2 DEF Active, Opened
    <3>2. \A k \in Keeps : k > j => k > i \/ k = i
      BY <1>0, <1>1, <1>2, KeepsAre DEF FirewallTypeOK
    <3> QED
      BY <1>5, <1>6, <3>1, <3>2 DEF Excuse
  <2> QED
    BY <1>1, <2>1, <2>2
<1>8. \/ j \in Keeps /\ Opened(j)'
      \/ j = 0
  <2>1. j \in Keeps \/ j = 0
    BY <1>0, <1>1, <1>2, KeepsAre DEF FirewallTypeOK
  <2>2. j < i /\ Opened(i)
    BY <1>0, <1>1, <1>2
  <2>3. j \in Keeps => Opened(j)
    BY <1>0, <2>2 DEF PrefixOpened
  <2> QED
    BY <1>5, <2>1, <2>3 DEF Opened
<1>9. \A q \in Peers : Fresh(activeKeepMembersCache'[q]) /\ Fresh(noActiveKeepMembersCache'[q])
  BY SearchFacts, FreshStays
<1>10. ValidationInv(v)'
  BY <1>3, <1>5, <1>7, <1>8, <1>9, SearchInv DEF WalkStates
<1> QED
  BY <1>3, <1>10, PolicyStep

\* The search looks further into the same keep.
LEMMA LookInto ==
    ASSUME FirewallInv, NEW v \in Validations, Walking(v), Index(v) # 0 \/ ~AtStep(v, "keep"),
           NEW pc \in {"active", "members"}, Proceed(v, pc),
           UNCHANGED chainState, CallFails \/ CallWorks, CacheStep,
           pc = "members" => RecentlyActive(Index(v), activeKeepMemberCachePeriod)
    PROVE  FirewallInv'
<1>0. FirewallTypeOK
  BY DEF FirewallInv
<1>1. PICK i \in Keeps, p \in Peers : i = Index(v) /\ p = Peer(v)
  BY SearchFacts
<1>2. i \in Nat /\ Opened(i) /\ Excuse(p, i, 0)
  BY <1>1, SearchFacts
<1>3. /\ ValidationMoves(v, [validation[v] EXCEPT !.pc = pc])
      /\ validation'[v].pc = pc /\ Peer(v)' = p /\ Index(v)' = i
  BY <1>0, <1>1, ProceedMoves DEF ValidationStates
<1>4. FactsStay /\ Keeps' = Keeps
  BY <1>0, CallFacts DEF chainState, Keeps
<1>5. /\ Opened(i)' /\ Excuse(p, i, 0)'
      /\ pc = "members" => RecentlyActive(i, activeKeepMemberCachePeriod)'
  BY <1>1, <1>2, <1>4, Periods DEF FactsStay
<1>6. \A q \in Peers : Fresh(activeKeepMembersCache'[q]) /\ Fresh(noActiveKeepMembersCache'[q])
  BY SearchFacts, FreshStays
<1>7. ValidationInv(v)'
  BY <1>3, <1>4, <1>5, <1>6, SearchInv DEF WalkStates
<1> QED
  BY <1>3, <1>7, PolicyStep

LEMMA KeepAtIndexInv ==
    ASSUME FirewallInv, NEW v \in Validations, getKeepAtIndex(v), UNCHANGED chainState
    PROVE  FirewallInv'
<1>1. /\ Walking(v) /\ Index(v) # 0 /\ CacheStep
  BY SameCaches DEF FirewallInv, FirewallTypeOK, getKeepAtIndex, AtStep, Walking, WalkStates,
     Index, operatorCaches, keepInfoCache
<1>2. CASE Proceed(v, "active") /\ CallWorks
  BY <1>1, <1>2, LookInto
<1>3. CASE NextKeep(v) /\ CallFails
  BY <1>1, <1>3, GoOn
<1> QED
  BY <1>2, <1>3 DEF getKeepAtIndex

LEMMA KeepActiveInv ==
    ASSUME FirewallInv, NEW v \in Validations, isKeepActive(v), UNCHANGED chainState
    PROVE  FirewallInv'
<1> DEFINE swept == Swept(isActive, activeKeepMemberCachePeriod)
           i == Index(v)
<1>1. Walking(v) /\ ~AtStep(v, "keep")
  BY DEF isKeepActive, AtStep, Walking, WalkStates
<1>2. /\ FirewallTypeOK /\ CacheInv /\ i \in Keeps /\ Opened(i) /\ isActive \in [Keeps -> Nat]
  BY <1>1, SearchFacts DEF FirewallTypeOK
<1>3. UNCHANGED <<nonAuthorizedOperatorsCache, activeKeepMembersCache, noActiveKeepMembersCache>>
  BY DEF isKeepActive, operatorCaches, memberCaches
<1>4. /\ swept \in [Keeps -> Nat]
      /\ \A k \in Keeps : swept[k] \in {isActive[k], Never}
      /\ Holds(swept, i) => isActive[i] <= activeKeepMemberCachePeriod
  BY <1>2, SweptCache, Periods
<1>5. ASSUME isActive' = swept \/ isActive' = isActive,
             \A k \in Keeps : k \in isInactive' => k \in isInactive \/ ended[k] # Never
      PROVE  CacheStep
  BY <1>2, <1>3, <1>4, <1>5 DEF CacheStep, FirewallTypeOK
<1>6. CASE i \in isInactive /\ NextKeep(v) /\ CallWorks /\ UNCHANGED <<isActive, isInactive>>
  <2>1. CacheStep
    BY <1>5, <1>6
  <2>2. ~Active(i)
    BY <1>2, <1>6 DEF CacheInv, Active
  <2> QED
    BY <1>1, <1>6, <2>1, <2>2, GoOn
<1>7. CASE /\ Holds(swept, i) /\ Proceed(v, "members") /\ CallWorks
           /\ isActive' = swept /\ UNCHANGED isInactive
  <2>1. CacheStep
    BY <1>5, <1>7
  <2>2. RecentlyActive(i, activeKeepMemberCachePeriod)
    BY <1>2, <1>4, <1>7, Periods DEF CacheInv, RecentlyActive, FirewallTypeOK
  <2> QED
    BY <1>1, <1>7, <2>1, <2>2, LookInto
<1>8. CASE /\ Active(i) /\ Proceed(v, "members") /\ CallWorks
           /\ isActive' = Add(swept, {i}) /\ UNCHANGED isInactive
  <2>1. RecentlyActive(i, 0) /\ RecentlyActive(i, activeKeepMemberCachePeriod)
    BY <1>8 DEF RecentlyActive, Active
  <2>2. /\ Add(swept, {i}) \in [Keeps -> Nat]
        /\ \A k \in Keeps : \/ Add(swept, {i})[k] = swept[k]
                            \/ Add(swept, {i})[k] = 0 /\ k = i
    BY <1>4, AddedCache
  <2>3. \A k \in Keeps : \/ isActive'[k] \in {isActive[k], Never}
                         \/ isActive'[k] = 0 /\ RecentlyActive(k, 0)
    BY <1>4, <1>8, <2>1, <2>2
  <2>4. CacheStep
    BY <1>2, <1>3, <1>8, <2>2, <2>3 DEF CacheStep, FirewallTypeOK
  <2> QED
    BY <1>1, <1>8, <2>1, <2>4, LookInto
<1>9. CASE /\ ~Active(i) /\ NextKeep(v) /\ CallWorks
           /\ isInactive' = isInactive \cup {i} /\ isActive' = swept
  <2>1. ended[i] # Never
    BY <1>2, <1>9 DEF Active
  <2>2. CacheStep
    BY <1>5, <1>9, <2>1
  <2> QED
    BY <1>1, <1>9, <2>2, GoOn
<1>10. CASE NextKeep(v) /\ CallFails /\ isActive' = swept /\ UNCHANGED isInactive
  <2>1. CacheStep
    BY <1>5, <1>10
  <2> QED
    BY <1>1, <1>10, <2>1, GoOn
<1> QED
  BY <1>6, <1>7, <1>8, <1>9, <1>10 DEF isKeepActive

LEMMA KeepMembersInv ==
    ASSUME FirewallInv, NEW v \in Validations, getKeepMembers(v), UNCHANGED chainState
    PROVE  FirewallInv'
<1> DEFINE i == Index(v)
           p == Peer(v)
<1>1. Walking(v) /\ ~AtStep(v, "keep") /\ ~AtStep(v, "idle")
  BY DEF getKeepMembers, AtStep, Walking, WalkStates
<1>2. /\ FirewallTypeOK /\ CacheInv /\ i \in Keeps /\ p \in Peers
      /\ activeKeepMembersCache \in [Peers -> Nat] /\ Fresh(activeKeepMembersCache[p])
  BY <1>1, SearchFacts DEF FirewallTypeOK
<1>3. UNCHANGED <<nonAuthorizedOperatorsCache, noActiveKeepMembersCache, isActive, isInactive>>
  BY DEF getKeepMembers, operatorCaches
<1>4. PICK members \in {peering.groups[i], {}} :
        LET held == Add(activeKeepMembersCache, members)
        IN  /\ \/ members = peering.groups[i] /\ CallWorks
               \/ members = {} /\ CallFails
            /\ activeKeepMembersCache' = held
            /\ IF Holds(held, p) THEN Proceed(v, "admitted") ELSE NextKeep(v)
  BY DEF getKeepMembers
<1>5. \A q \in members : Evidence(q, 0)
  <2>1. RecentlyActive(i, activeKeepMemberCachePeriod)
    BY DEF FirewallInv, ValidationInv, getKeepMembers
  <2>2. activeKeepMemberCachePeriod + 0 = activeKeepMemberCachePeriod
    BY Periods
  <2> QED
    BY <1>2, <1>4, <2>1, <2>2 DEF Evidence
<1>6. /\ Add(activeKeepMembersCache, members) \in [Peers -> Nat]
      /\ \A q \in Peers : \/ Add(activeKeepMembersCache, members)[q] = activeKeepMembersCache[q]
                          \/ Add(activeKeepMembersCache, members)[q] = 0 /\ q \in members
      /\ Holds(Add(activeKeepMembersCache, members), p)
            <=> activeKeepMembersCache[p] # Never \/ p \in members
  BY <1>2, AddedCache
<1>7. \A q \in Peers : \/ activeKeepMembersCache'[q] \in {activeKeepMembersCache[q], Never}
                       \/ activeKeepMembersCache'[q] = 0 /\ Evidence(q, 0)
  BY <1>4, <1>5, <1>6
<1>8. CacheStep
  BY <1>2, <1>3, <1>4, <1>6, <1>7 DEF CacheStep, FirewallTypeOK
<1>9. CASE (activeKeepMembersCache[p] # Never \/ p \in members) /\ Proceed(v, "admitted")
  <2>1. Evidence(p, activeKeepMemberCachePeriod)
    <3>1. CASE activeKeepMembersCache[p] # Never
      BY <1>2, <3>1, WithinPeriod DEF CacheInv, Fresh
    <3>2. CASE p \in members
      BY <1>2, <1>5, <3>2, WithinPeriod, Periods
    <3> QED
      BY <1>9, <3>1, <3>2
  <2> QED
    BY <1>1, <1>4, <1>8, <1>9, <2>1, ReachVerdict DEF ValidationStates, Verdicts, WalkStates
<1>10. CASE p \notin members /\ NextKeep(v)
  BY <1>1, <1>4, <1>8, <1>10, GoOn
<1> QED
  BY <1>4, <1>6, <1>9, <1>10

LEMMA NoActiveKeepInv ==
    ASSUME FirewallInv, NEW v \in Validations, NoActiveKeep(v), UNCHANGED chainState
    PROVE  FirewallInv'
<1> DEFINE p == Peer(v)
<1>1. /\ ~AtStep(v, "idle") /\ Proceed(v, "notMember") /\ CallWorks
      /\ noActiveKeepMembersCache' = Add(noActiveKeepMembersCache, {p})
      /\ UNCHANGED <<nonAuthorizedOperatorsCache, activeKeepMembersCache, isActive, isInactive>>
  BY DEF NoActiveKeep, AtStep, operatorCaches, keepInfoCache
<1>2. /\ FirewallTypeOK /\ p \in Peers /\ Excuse(p, 0, 0)
      /\ noActiveKeepMembersCache \in [Peers -> Nat]
  BY DEF FirewallInv, FirewallTypeOK, ValidationInv, NoActiveKeep, AtStep, Walking, WalkStates
<1>3. /\ Add(noActiveKeepMembersCache, {p}) \in [Peers -> Nat]
      /\ \A q \in Peers : \/ Add(noActiveKeepMembersCache, {p})[q] = noActiveKeepMembersCache[q]
                          \/ Add(noActiveKeepMembersCache, {p})[q] = 0 /\ q = p
  BY <1>2, AddedCache
<1>4. \A q \in Peers : \/ noActiveKeepMembersCache'[q] \in {noActiveKeepMembersCache[q], Never}
                       \/ noActiveKeepMembersCache'[q] = 0 /\ Excuse(q, 0, 0)
  BY <1>1, <1>2, <1>3
<1>5. CacheStep
  BY <1>1, <1>2, <1>3, <1>4 DEF CacheStep, FirewallTypeOK
<1>6. Excuse(p, 0, activeKeepMemberCachePeriod)
  BY <1>2, WithinPeriod, Periods
<1> QED
  BY <1>1, <1>5, <1>6, ReachVerdict DEF ValidationStates, Verdicts, WalkStates

-----------------------------------------------------------------------------
(* Time, and the theorems.                                                 *)

LEMMA ChainStepInv ==
    ASSUME FirewallInv, ChainStep
    PROVE  FirewallInv'
<1>0. FirewallTypeOK /\ PrefixOpened /\ CacheInv
  BY DEF FirewallInv
<1>1. /\ FactsStay /\ PrefixOpened'
      /\ authorized' \in [Peers -> Nat] /\ opened' \in [Keeps -> Nat] /\ ended' \in [Keeps -> Nat]
  BY <1>0, ChainFacts
<1>2. UNCHANGED <<nonAuthorizedOperatorsCache, activeKeepMembersCache, noActiveKeepMembersCache,
                  isActive, isInactive, validation, failure>>
  BY DEF ChainStep, operatorCaches, memberCaches, keepInfoCache
<1>3. peering' = peering /\ Keeps' = Keeps
  BY <1>1 DEF FactsStay, Keeps
<1>4. FirewallTypeOK'
  BY <1>0, <1>1, <1>2, <1>3 DEF FirewallTypeOK
<1>5. CacheStep
  BY <1>0, <1>2, SameCaches DEF memberCaches
<1>6. CacheInv'
  BY <1>0, <1>1, <1>5, CacheStepInv
<1>7. ASSUME NEW v \in Validations PROVE ValidationInv(v)'
  <2>1. ValidationInv(v) /\ validation'[v] = validation[v]
    BY <1>2 DEF FirewallInv
  <2>2. Walking(v) => \A p \in Peers : /\ Fresh(activeKeepMembersCache'[p])
                                       /\ Fresh(noActiveKeepMembersCache'[p])
    BY <1>2, <2>1 DEF ValidationInv
  <2> QED
    BY <1>0, <1>1, <2>1, <2>2, ValidationStays
<1> QED
  BY <1>1, <1>4, <1>6, <1>7 DEF FirewallInv

\* Answers and reasons grow old together.
LEMMA ElapseInv ==
    ASSUME FirewallInv, Elapse
    PROVE  FirewallInv'
<1> USE Periods
<1>0. FirewallTypeOK /\ PrefixOpened /\ CacheInv
  BY DEF FirewallInv
<1>1. /\ UNCHANGED <<peering, isInactive, validation>> /\ Keeps' = Keeps
      /\ \A v \in Validations : validation[v].pc = "idle"
  BY DEF Elapse, Keeps, AtStep
<1>2. /\ authorized' \in [Peers -> Nat]
      /\ \A p \in Peers : authorized'[p] = Older(authorized[p], authorizationCachePeriod)
  BY <1>0, AgedAges DEF Elapse, FirewallTypeOK
<1>3. /\ opened' \in [Keeps -> Nat]
      /\ \A k \in Keeps : opened'[k] = Older(opened[k], activeKeepMemberCachePeriod)
  BY <1>0, AgedAges DEF Elapse, FirewallTypeOK
<1>4. /\ ended' \in [Keeps -> Nat]
      /\ \A k \in Keeps : ended'[k] = Older(ended[k], 2 * activeKeepMemberCachePeriod)
  <2>1. PICK period \in Nat : period = 2 * activeKeepMemberCachePeriod
    OBVIOUS
  <2>2. ended' = Aged(ended, period) /\ period + 1 < Never /\ ended \in [Keeps -> Nat]
    BY <1>0, <2>1 DEF Elapse, FirewallTypeOK
  <2>3. /\ Aged(ended, period) \in [Keeps -> Nat]
        /\ \A k \in Keeps : Aged(ended, period)[k] = Older(ended[k], period)
    BY <2>2, AgedAges
  <2> QED
    BY <2>1, <2>2, <2>3
<1>5. /\ nonAuthorizedOperatorsCache' \in [Peers -> Nat]
      /\ \A p \in Peers : nonAuthorizedOperatorsCache'[p]
                            = Older(nonAuthorizedOperatorsCache[p], authorizationCachePeriod)
  BY <1>0, AgedAges DEF Elapse, FirewallTypeOK
<1>6. /\ activeKeepMembersCache' \in [Peers -> Nat]
      /\ \A p \in Peers : activeKeepMembersCache'[p]
                            = Older(activeKeepMembersCache[p], activeKeepMemberCachePeriod)
  BY <1>0, AgedAges DEF Elapse, FirewallTypeOK
<1>7. /\ noActiveKeepMembersCache' \in [Peers -> Nat]
      /\ \A p \in Peers : noActiveKeepMembersCache'[p]
                            = Older(noActiveKeepMembersCache[p], activeKeepMemberCachePeriod)
  BY <1>0, AgedAges DEF Elapse, FirewallTypeOK
<1>8. /\ isActive' \in [Keeps -> Nat]
      /\ \A k \in Keeps : isActive'[k] = Older(isActive[k], activeKeepMemberCachePeriod)
  BY <1>0, AgedAges DEF Elapse, FirewallTypeOK
<1>9. failure' = Older(failure, activeKeepMemberCachePeriod) /\ failure \in Nat /\ failure' \in Nat
  BY <1>0, OlderAge DEF Elapse, FirewallTypeOK
<1>10. FirewallTypeOK'
  BY <1>0, <1>1, <1>2, <1>3, <1>4, <1>5, <1>6, <1>7, <1>8, <1>9 DEF FirewallTypeOK
<1>11. \A k \in Keeps : Opened(k)' <=> Opened(k)
  BY <1>0, <1>3, OlderAge DEF Opened, FirewallTypeOK
<1>12. /\ \A k \in Keeps : ended'[k] = Never <=> ended[k] = Never
       /\ \A k \in Keeps : ended[k] <= 2 * activeKeepMemberCachePeriod => ended'[k] = ended[k] + 1
       /\ \A k \in Keeps : ended[k] \in Nat
  <2>1. PICK period \in Nat : period = 2 * activeKeepMemberCachePeriod
    OBVIOUS
  <2>2. period + 1 < Never /\ \A k \in Keeps : ended'[k] = Older(ended[k], period)
    BY <1>4, <2>1
  <2>3. \A k \in Keeps : ended[k] \in Nat
    BY <1>0 DEF FirewallTypeOK
  <2> QED
    BY <2>1, <2>2, <2>3, OlderAge
<1>13. PrefixOpened'
  BY <1>0, <1>1, <1>11 DEF PrefixOpened
<1>14. ASSUME NEW k \in Keeps, NEW age \in Nat, age <= 2 * activeKeepMemberCachePeriod,
              RecentlyActive(k, age)
       PROVE  RecentlyActive(k, age + 1)'
  BY <1>11, <1>12, <1>14 DEF RecentlyActive
<1>15. ASSUME NEW p \in Peers, activeKeepMembersCache'[p] <= activeKeepMemberCachePeriod
       PROVE  Evidence(p, activeKeepMembersCache[p])'
  <2>1. PICK a \in Nat : a = activeKeepMembersCache[p]
    BY <1>0 DEF FirewallTypeOK
  <2>2. a <= activeKeepMemberCachePeriod /\ activeKeepMembersCache'[p] = a + 1
    BY <1>6, <1>15, <2>1, OlderAge
  <2>3. PICK k \in Keeps : p \in peering.groups[k]
                           /\ RecentlyActive(k, activeKeepMemberCachePeriod + a)
    BY <1>0, <2>1, <2>2 DEF CacheInv, Evidence
  <2>4. RecentlyActive(k, activeKeepMemberCachePeriod + a + 1)'
    BY <1>14, <2>2, <2>3
  <2>5. activeKeepMemberCachePeriod + (a + 1) = activeKeepMemberCachePeriod + a + 1
    OBVIOUS
  <2>6. Evidence(p, a + 1)'
    BY <1>1, <2>3, <2>4, <2>5 DEF Evidence
  <2> QED
    BY <2>2, <2>6 DEF Evidence
<1>16. ASSUME NEW p \in Peers, noActiveKeepMembersCache'[p] <= activeKeepMemberCachePeriod
       PROVE  Excuse(p, 0, noActiveKeepMembersCache[p])'
  <2>1. PICK a \in Nat : a = noActiveKeepMembersCache[p]
    BY <1>0 DEF FirewallTypeOK
  <2>2. a <= activeKeepMemberCachePeriod /\ noActiveKeepMembersCache'[p] = a + 1
    BY <1>7, <1>16, <2>1, OlderAge
  <2>3. Excuse(p, 0, a)
    BY <1>0, <2>1, <2>2 DEF CacheInv
  <2>4. CASE failure <= a
    <3>1. failure <= activeKeepMemberCachePeriod
      BY <1>9, <2>2, <2>4
    <3>2. failure' = failure + 1
      BY <1>9, <3>1 DEF Older
    <3> QED
      BY <1>9, <2>2, <2>4, <3>2 DEF Excuse
  <2>5. CASE \A k \in Keeps : k > 0 /\ Active(k) /\ p \in peering.groups[k] => opened[k] <= a
    <3>1. ASSUME NEW k \in Keeps, k > 0, Active(k)', p \in peering.groups[k]
          PROVE  opened'[k] <= a + 1
      <4>1. Active(k)
        BY <1>11, <1>12, <3>1 DEF Active
      <4>2. opened[k] <= a /\ opened[k] \in Nat
        BY <1>0, <2>5, <3>1, <4>1 DEF FirewallTypeOK
      <4>3. opened'[k] = opened[k] + 1
        BY <1>3, <2>2, <4>2 DEF Older
      <4> QED
        BY <4>2, <4>3
    <3> QED
      BY <1>1, <2>2, <3>1 DEF Excuse
  <2> QED
    BY <2>3, <2>4, <2>5 DEF Excuse
<1>17. ASSUME NEW p \in Peers, nonAuthorizedOperatorsCache'[p] <= authorizationCachePeriod
       PROVE  LateAuthorization(p, nonAuthorizedOperatorsCache[p])'
  <2>1. PICK a \in Nat : a = nonAuthorizedOperatorsCache[p]
    BY <1>0 DEF FirewallTypeOK
  <2>2. a <= authorizationCachePeriod /\ nonAuthorizedOperatorsCache'[p] = a + 1
    BY <1>5, <1>17, <2>1, OlderAge
  <2>3. LateAuthorization(p, a) /\ authorized[p] \in Nat
    BY <1>0, <2>1, <2>2 DEF CacheInv, FirewallTypeOK
  <2>4. PICK b \in Nat : b = authorized[p]
    BY <2>3
  <2>5. PICK c : c = authorized'[p]
    OBVIOUS
  <2>6. c = Older(b, authorizationCachePeriod)
    BY <1>2, <2>4, <2>5
  <2>7. c \in Nat /\ (c = Never <=> b = Never) /\ (b <= authorizationCachePeriod => c = b + 1)
    BY <1>0, <2>6, OlderAge, Periods
  <2>8. b = Never \/ b <= a
    BY <2>3, <2>4 DEF LateAuthorization
  <2>9. c = Never \/ c <= a + 1
    BY <2>1, <2>2, <2>7, <2>8, Periods
  <2> QED
    BY <2>2, <2>5, <2>9 DEF LateAuthorization
<1>18. ASSUME NEW k \in Keeps, isActive'[k] <= activeKeepMemberCachePeriod
       PROVE  RecentlyActive(k, isActive[k])'
  <2>1. PICK a \in Nat : a = isActive[k]
    BY <1>0 DEF FirewallTypeOK
  <2>2. a <= activeKeepMemberCachePeriod /\ isActive'[k] = a + 1
    BY <1>8, <1>18, <2>1, OlderAge
  <2>3. RecentlyActive(k, a)
    BY <1>0, <2>1, <2>2 DEF CacheInv
  <2>4. RecentlyActive(k, a + 1)'
    BY <1>14, <2>2, <2>3
  <2> QED
    BY <2>2, <2>4 DEF RecentlyActive
<1>19. \A k \in Keeps : k \in isInactive' => ended'[k] # Never
  BY <1>0, <1>1, <1>12 DEF CacheInv
<1>20. CacheInv'
  BY <1>1, <1>15, <1>16, <1>17, <1>18, <1>19 DEF CacheInv
<1>21. \A v \in Validations : ValidationInv(v)'
  BY <1>1 DEF ValidationInv, AtStep, Walking, WalkStates
<1> QED
  BY <1>10, <1>13, <1>20, <1>21 DEF FirewallInv

LEMMA FirewallInitInv == FirewallInit => FirewallInv
<1> SUFFICES ASSUME FirewallInit PROVE FirewallInv
  OBVIOUS
<1> USE Periods
<1>1. /\ \A p \in Peers : /\ activeKeepMembersCache[p] = Never /\ noActiveKeepMembersCache[p] = Never
                          /\ nonAuthorizedOperatorsCache[p] = Never
      /\ \A k \in Keeps : opened[k] = Never /\ isActive[k] = Never
      /\ \A v \in Validations : validation[v].pc = "idle"
  BY DEF FirewallInit, None, Idle
<1>2. Idle \in ValidationRecords
  BY DEF ValidationRecords, ValidationStates, Idle
<1>3. FirewallTypeOK
  <2>1. validation \in [Validations -> ValidationRecords]
    BY <1>2 DEF FirewallInit
  <2>2. \A S : None(S) \in [S -> Nat]
    BY DEF None
  <2> QED
    BY <2>1, <2>2 DEF FirewallInit, FirewallTypeOK, ValidationRecords
<1>4. PrefixOpened
  BY <1>1 DEF PrefixOpened, Opened
<1>5. CacheInv
  BY <1>1 DEF CacheInv, FirewallInit
<1>6. \A v \in Validations : ValidationInv(v)
  BY <1>1 DEF ValidationInv, AtStep, Walking, WalkStates
<1> QED
  BY <1>3, <1>4, <1>5, <1>6 DEF FirewallInv

LEMMA FirewallStepInv == FirewallInv /\ [FirewallNext]_firewallVars => FirewallInv'
<1> SUFFICES ASSUME FirewallInv, [FirewallNext]_firewallVars PROVE FirewallInv'
  OBVIOUS
<1>1. ASSUME NEW v \in peering.goroutines, stakeOrActiveKeepPolicy(v) PROVE FirewallInv'
  <2>1. v \in Validations
    BY KeepsAre DEF FirewallInv, FirewallTypeOK
  <2> QED
    BY <1>1, <2>1, ValidateInv, AuthorizationInv, MembershipInv, KeepAtIndexInv, KeepActiveInv,
       KeepMembersInv, NoActiveKeepInv, EndValidationInv DEF stakeOrActiveKeepPolicy
<1>2. CASE ChainStep
  BY <1>2, ChainStepInv
<1>3. CASE Elapse
  BY <1>3, ElapseInv
<1>4. CASE UNCHANGED firewallVars
  <2>1. UNCHANGED <<peering, authorized, opened, ended, nonAuthorizedOperatorsCache,
                    activeKeepMembersCache, noActiveKeepMembersCache, isActive, isInactive,
                    validation, failure>> /\ Keeps' = Keeps
    BY <1>4 DEF firewallVars, chainState, operatorCaches, memberCaches, keepInfoCache, Keeps
  <2> QED
    BY <2>1 DEF FirewallInv, FirewallTypeOK, PrefixOpened, CacheInv, ValidationInv, Evidence,
       Excuse, LateAuthorization, RecentlyActive, Fresh, Opened, Active, Walking, AtStep, Peer, Index
<1> QED
  BY <1>1, <1>2, <1>3, <1>4 DEF FirewallNext

\* For any cache periods, peers, keeps and concurrent validations, a peer that the
\* firewall lets in without the minimum stake was a member of a keep that was
\* active within the last two periods: the two caches in a row add up to no more.
THEOREM AdmissionsAreRecent == FirewallSpec => []AdmissionIsRecent
<1>1. FirewallInv => AdmissionIsRecent
  <2> SUFFICES ASSUME FirewallInv, NEW v \in Validations, AtStep(v, "admitted")
               PROVE  \E k \in Keeps :
                        /\ Peer(v) \in peering.groups[k] /\ Opened(k)
                        /\ Active(k) \/ ended[k] <= 2 * activeKeepMemberCachePeriod
    BY DEF AdmissionIsRecent
  <2>1. activeKeepMemberCachePeriod + activeKeepMemberCachePeriod
            = 2 * activeKeepMemberCachePeriod
    BY Periods
  <2> QED
    BY <2>1 DEF FirewallInv, ValidationInv, Evidence, RecentlyActive, Active
<1> QED
  BY <1>1, FirewallInitInv, FirewallStepInv, PTL DEF FirewallSpec

\* And a peer it turns away for want of a keep or of an authorization had none
\* a period ago, or a call to the chain failed within the period.
THEOREM RefusalsAreRecent == FirewallSpec => []RefusalIsRecent
<1>1. FirewallInv => RefusalIsRecent
  <2>1. FirewallInv => Keeps \subseteq Nat \ {0}
    BY KeepsAre DEF FirewallInv, FirewallTypeOK
  <2> QED
    BY <2>1 DEF RefusalIsRecent, FirewallInv, ValidationInv, Excuse, LateAuthorization
<1> QED
  BY <1>1, FirewallInitInv, FirewallStepInv, PTL DEF FirewallSpec

-----------------------------------------------------------------------------
(* The tbtc extension.                                                     *)

LEMMA InitialStates ==
    /\ Initial["pubkey"] = "AwaitingSignerSetup"
    /\ Initial["signature"] = "AwaitingWithdrawalSignature"
    /\ Initial["proof"] = "AwaitingWithdrawalProof"
  BY DEF Initial, Monitors, Monitor, monitorRetrievePubKey, monitorProvideRedemptionSignature,
     monitorProvideRedemptionProof

DepositStates == {"AwaitingSignerSetup", "Funding", "AwaitingWithdrawalSignature",
                  "AwaitingWithdrawalProof", "Redeemed", "Ended"}

LEMMA InitialIsState ==
    ASSUME NEW n \in Monitors
    PROVE  Initial[n] \in DepositStates \ {"Funding", "Redeemed", "Ended"}
  BY InitialStates DEF Monitors, DepositStates

Deposits == [state : DepositStates, requests : Seq(Nat), due : BOOLEAN, signed : BOOLEAN,
             watchers : SUBSET Handlers]
Early == {"free", "checking", "locking"}
Watching == {"setup", "watching", "acting", "confirming"}
HandlerRecords == [pc : Early \cup Watching \cup {"ended"}, name : Monitors,
                   round : Nat, attempt : Nat]
Kinds == {"deposit", "keep"}
StopStates == {"none", "confirming", "sending"}

-----------------------------------------------------------------------------
(* The invariant.                                                          *)

\* The fees are multiples of the first one.
DepositOK(d) ==
    /\ d \in Deposits
    /\ Len(d.requests) <= MaxRounds
    /\ \A i \in 1..Len(d.requests) : d.requests[i] = i * InitialFee
    /\ d.state \in {"AwaitingSignerSetup", "Funding"} => d.requests = <<>>
    /\ d.state \in {"AwaitingWithdrawalSignature", "AwaitingWithdrawalProof"}
            => Len(d.requests) >= 1

ExtensionTypes ==
    /\ scenario \in Scenarios
    /\ DepositOK(deposit) /\ DepositOK(undo)
    /\ cache \in {"unknown", "member", "notMember"}
    /\ starts \subseteq Monitors /\ locks \subseteq Monitors
    /\ handler \in [Handlers -> HandlerRecords]
    /\ \A h \in Handlers :
          handler[h].attempt \in 1..maxActAttempts /\ handler[h].round <= MaxRounds
    /\ stopper \in [Handlers -> [Kinds -> StopStates]]
    /\ tbtcFaults \in 0..scenario.faults

\* A lock has exactly one holder.
MonitorLockInv ==
    /\ \A h \in Handlers : Subscribed(h) => handler[h].name \in locks
    /\ \A g, h \in Handlers :
          Subscribed(g) /\ Subscribed(h) /\ handler[g].name = handler[h].name => g = h
    /\ \A n \in locks : \E h \in Handlers : Subscribed(h) /\ handler[h].name = n

\* The deposit, as it is in d, is past the state that goroutine h monitors as n.
Left(n, h, d) == d.state # Initial[n] \/ h \notin d.watchers

\* A stop that is about to be sent was confirmed, and neither the deposit nor what
\* a fork would make of it is back where the monitoring began.
StopInv ==
    \A h \in Handlers :
        /\ stopper[h]["deposit"] # "none" => handler[h].pc \notin Early
        /\ stopper[h]["deposit"] = "sending" =>
              Left(handler[h].name, h, deposit) /\ Left(handler[h].name, h, undo)

TBTCInv == ExtensionTypes /\ MonitorLockInv /\ StopInv

-----------------------------------------------------------------------------
(* The deposit.                                                            *)

\* What the deposit does takes no stop back.
LeftStays ==
    \A h \in Handlers, n \in Monitors :
        handler[h].pc \notin Early /\ Left(n, h, deposit) /\ Left(n, h, undo)
            => Left(n, h, deposit)' /\ Left(n, h, undo)'

DepositMoves == DepositOK(deposit)' /\ DepositOK(undo)' /\ LeftStays

\* Stop handlers begin only for a monitoring that is subscribed.
StopsMove ==
    /\ stopper' \in [Handlers -> [Kinds -> StopStates]]
    /\ \A h \in Handlers :
          /\ stopper'[h]["deposit"] = "sending" => stopper[h]["deposit"] = "sending"
          /\ stopper'[h]["deposit"] # "none"
                => stopper[h]["deposit"] # "none" \/ Subscribed(h)

LEMMA SameDeposit ==
    ASSUME ExtensionTypes, UNCHANGED <<scenario, deposit, undo>>
    PROVE  DepositMoves
  BY DEF ExtensionTypes, DepositMoves, DepositOK, MaxRounds, LeftStays, Left

LEMMA SameStops ==
    ASSUME ExtensionTypes, UNCHANGED stopper
    PROVE  StopsMove
  BY DEF ExtensionTypes, StopsMove

LEMMA EmitMoves ==
    ASSUME ExtensionTypes, NEW kind \in Kinds, NEW names, Emit(kind, names)
    PROVE  StopsMove
<1>1. \A h \in Handlers :
        /\ stopper'[h] \in [Kinds -> StopStates]
        /\ \/ stopper'[h] = stopper[h]
           \/ Subscribed(h) /\ stopper'[h] = [stopper[h] EXCEPT ![kind] = "confirming"]
  BY DEF ExtensionTypes, Emit, StopStates
<1>2. stopper' \in [Handlers -> [Kinds -> StopStates]]
  BY <1>1 DEF Emit
<1>3. ASSUME NEW h \in Handlers
      PROVE  /\ stopper'[h]["deposit"] = "sending" => stopper[h]["deposit"] = "sending"
             /\ stopper'[h]["deposit"] # "none"
                    => stopper[h]["deposit"] # "none" \/ Subscribed(h)
  <2>1. stopper[h] \in [Kinds -> StopStates]
    BY DEF ExtensionTypes
  <2> QED
    BY <1>1, <2>1 DEF Kinds
<1> QED
  BY <1>2, <1>3 DEF StopsMove

LEMMA ChangeMoves ==
    ASSUME ExtensionTypes, NEW new \in Deposits, NEW event, Change(new, event),
           UNCHANGED scenario,
           DepositOK([new EXCEPT !.watchers = {}])
    PROVE  DepositMoves /\ StopsMove /\ starts' \subseteq Monitors
<1>1. PICK d : d = [new EXCEPT !.watchers = {}]
  OBVIOUS
<1>2. DepositOK(d) /\ deposit' = d /\ undo' = deposit /\ d.watchers = {}
  BY <1>1 DEF Change, Deposits
<1>3. DepositOK(deposit)' /\ DepositOK(undo)'
  BY <1>2 DEF ExtensionTypes, DepositOK, MaxRounds
<1>4. LeftStays
  BY <1>2 DEF LeftStays, Left
<1>5. StopsMove
  BY EmitMoves DEF Change, Kinds
<1>6. starts' \subseteq Monitors
  BY TBTCAssumption DEF Change, ExtensionTypes, Monitors
<1> QED
  BY <1>3, <1>4, <1>5, <1>6 DEF DepositMoves

LEMMA RegisterMoves ==
    ASSUME ExtensionTypes, registerPubkey, UNCHANGED scenario
    PROVE  DepositMoves /\ StopsMove /\ starts' \subseteq Monitors
<1>1. PICK new : new = [deposit EXCEPT !.state = "Funding"]
  OBVIOUS
<1>2. deposit \in Deposits /\ deposit.requests = <<>> /\ Change(new, "RegisteredPubkey")
  BY <1>1 DEF registerPubkey, ExtensionTypes, DepositOK
<1>3. new \in Deposits
  BY <1>1, <1>2 DEF Deposits, DepositStates
<1>4. PICK d : d = [new EXCEPT !.watchers = {}]
  OBVIOUS
<1>5. d \in Deposits /\ d.state = "Funding" /\ d.requests = <<>>
  BY <1>1, <1>2, <1>4 DEF Deposits, DepositStates
<1>6. MaxRounds \in Nat
  BY TBTCAssumption DEF ExtensionTypes, MaxRounds
<1>7. DepositOK(d)
  BY <1>5, <1>6 DEF DepositOK
<1> QED
  BY <1>2, <1>3, <1>4, <1>7, ChangeMoves

LEMMA SignatureMoves ==
    ASSUME ExtensionTypes, provideSignature, UNCHANGED scenario
    PROVE  DepositMoves /\ StopsMove /\ starts' \subseteq Monitors
<1>1. PICK new : new = [deposit EXCEPT !.state = "AwaitingWithdrawalProof", !.due = FALSE]
  OBVIOUS
<1>2. /\ deposit \in Deposits /\ Change(new, "GotRedemptionSignature")
      /\ deposit.state = "AwaitingWithdrawalSignature" /\ DepositOK(deposit)
  BY <1>1 DEF provideSignature, ExtensionTypes, DepositOK
<1>3. new \in Deposits
  BY <1>1, <1>2 DEF Deposits, DepositStates
<1>4. PICK d : d = [new EXCEPT !.watchers = {}]
  OBVIOUS
<1>5. d \in Deposits /\ d.state = "AwaitingWithdrawalProof" /\ d.requests = deposit.requests
  BY <1>1, <1>2, <1>4 DEF Deposits, DepositStates
<1>6. DepositOK(d)
  BY <1>2, <1>5 DEF DepositOK
<1> QED
  BY <1>2, <1>3, <1>4, <1>6, ChangeMoves

LEMMA RedeemMoves ==
    ASSUME ExtensionTypes, redeem, UNCHANGED scenario
    PROVE  DepositMoves /\ StopsMove /\ starts' \subseteq Monitors
<1>1. PICK new : new = [deposit EXCEPT !.state = "Redeemed"]
  OBVIOUS
<1>2. deposit \in Deposits /\ Change(new, "Redeemed") /\ DepositOK(deposit)
  BY <1>1 DEF redeem, ExtensionTypes, DepositOK
<1>3. new \in Deposits
  BY <1>1, <1>2 DEF Deposits, DepositStates
<1>4. PICK d : d = [new EXCEPT !.watchers = {}]
  OBVIOUS
<1>5. d \in Deposits /\ d.state = "Redeemed" /\ d.requests = deposit.requests
  BY <1>1, <1>2, <1>4 DEF Deposits, DepositStates
<1>6. DepositOK(d)
  BY <1>2, <1>5 DEF DepositOK
<1> QED
  BY <1>2, <1>3, <1>4, <1>6, ChangeMoves

\* A request adds the first fee to the last one.
LEMMA RequestMoves ==
    ASSUME ExtensionTypes, NEW fee, requestRedemption(fee), UNCHANGED scenario
    PROVE  DepositMoves /\ StopsMove /\ starts' \subseteq Monitors
<1>0. InitialFee \in Nat /\ MaxRounds \in Nat
  BY TBTCAssumption DEF ExtensionTypes, MaxRounds
<1>1. PICK r : r = deposit.requests
  OBVIOUS
<1>2. /\ deposit \in Deposits /\ r \in Seq(Nat) /\ Len(r) \in Nat /\ Len(r) < MaxRounds
      /\ \A i \in 1..Len(r) : r[i] = i * InitialFee
  BY <1>1 DEF ExtensionTypes, DepositOK, Deposits, requestRedemption, Round
<1>3. fee = (Len(r) + 1) * InitialFee
  <2>1. CASE deposit.state = "Funding" /\ fee = InitialFee
    <3>1. Len(r) = 0
      BY <1>1, <2>1 DEF ExtensionTypes, DepositOK
    <3> QED
      BY <1>0, <2>1, <3>1
  <2>2. CASE deposit.state = "AwaitingWithdrawalProof" /\ fee = Last(deposit.requests) + InitialFee
    <3>1. Len(r) >= 1
      BY <1>1, <2>2 DEF ExtensionTypes, DepositOK
    <3>2. fee = r[Len(r)] + InitialFee
      BY <1>1, <2>2 DEF Last
    <3>3. fee = Len(r) * InitialFee + InitialFee
      BY <1>2, <3>1, <3>2
    <3> QED
      BY <1>0, <1>2, <3>3
  <2> QED
    BY <2>1, <2>2 DEF requestRedemption
<1>4. fee \in Nat
  BY <1>0, <1>2, <1>3
<1>5. PICK s : s = Append(r, fee)
  OBVIOUS
<1>6. s \in Seq(Nat) /\ Len(s) = Len(r) + 1 /\ \A i \in 1..Len(s) : s[i] = i * InitialFee
  <2>1. s \in Seq(Nat) /\ Len(s) = Len(r) + 1
    BY <1>2, <1>4, <1>5
  <2>2. ASSUME NEW i \in 1..Len(s) PROVE s[i] = i * InitialFee
    <3>1. CASE i = Len(r) + 1
      BY <1>2, <1>3, <1>5, <3>1
    <3>2. CASE i \in 1..Len(r)
      BY <1>2, <1>5, <3>2
    <3> QED
      BY <1>2, <2>1, <3>1, <3>2
  <2> QED
    BY <2>1, <2>2
<1>7. PICK new : new = [deposit EXCEPT !.state = "AwaitingWithdrawalSignature",
                              !.requests = s, !.due = FALSE, !.signed = FALSE]
  OBVIOUS
<1>8. Change(new, "RedemptionRequested")
  BY <1>1, <1>5, <1>7 DEF requestRedemption
<1>9. new \in Deposits
  BY <1>2, <1>6, <1>7 DEF Deposits, DepositStates
<1>10. PICK d : d = [new EXCEPT !.watchers = {}]
  OBVIOUS
<1>11. d \in Deposits /\ d.state = "AwaitingWithdrawalSignature" /\ d.requests = s
  BY <1>2, <1>6, <1>7, <1>10 DEF Deposits, DepositStates
<1>12. DepositOK(d)
  BY <1>0, <1>2, <1>6, <1>11 DEF DepositOK
<1> QED
  BY <1>8, <1>9, <1>10, <1>12, ChangeMoves

\* A change of the other fields, which no fork drops.
LEMMA FieldMoves ==
    ASSUME ExtensionTypes, UNCHANGED scenario, NEW d \in Deposits, deposit' = d, undo' = d,
           d.requests = deposit.requests, d.watchers = deposit.watchers,
           d.state = deposit.state \/ d.state = "Ended"
    PROVE  DepositMoves
<1>1. DepositOK(d)
  BY DEF ExtensionTypes, DepositOK
<1>2. DepositOK(deposit)' /\ DepositOK(undo)'
  BY <1>1 DEF DepositOK, MaxRounds
<1>3. \A n \in Monitors : Initial[n] # "Ended"
  BY InitialIsState
<1>4. LeftStays
  BY <1>3 DEF LeftStays, Left
<1> QED
  BY <1>2, <1>4 DEF DepositMoves

LEMMA ForkMoves ==
    ASSUME ExtensionTypes, UNCHANGED scenario,
           \/ deposit' = undo /\ UNCHANGED undo
           \/ undo' = deposit /\ UNCHANGED deposit
    PROVE  DepositMoves
<1>1. DepositOK(deposit)' /\ DepositOK(undo)'
  BY DEF ExtensionTypes, DepositOK, MaxRounds
<1>2. LeftStays
  BY DEF LeftStays, Left
<1> QED
  BY <1>1, <1>2 DEF DepositMoves

LEMMA WatchMoves ==
    ASSUME ExtensionTypes, UNCHANGED scenario, NEW h \in Handlers, handler[h].pc \in Early,
           deposit' = Watch(deposit, h), undo' = Watch(undo, h)
    PROVE  DepositMoves
<1>1. ASSUME NEW d, DepositOK(d)
      PROVE  /\ DepositOK(Watch(d, h)) /\ Watch(d, h).state = d.state
             /\ Watch(d, h).watchers = d.watchers \cup {h}
  <2>1. PICK w : w = Watch(d, h)
    OBVIOUS
  <2>2. /\ w \in Deposits /\ w.state = d.state /\ w.requests = d.requests
        /\ w.watchers = d.watchers \cup {h}
    BY <1>1, <2>1 DEF Watch, DepositOK, Deposits
  <2>3. DepositOK(w)
    BY <1>1, <2>2 DEF DepositOK
  <2> QED
    BY <2>1, <2>2, <2>3
<1>2. DepositOK(Watch(deposit, h)) /\ DepositOK(Watch(undo, h))
  BY <1>1 DEF ExtensionTypes
<1>3. DepositOK(deposit)' /\ DepositOK(undo)'
  BY <1>2 DEF DepositOK, MaxRounds
<1>4. /\ deposit'.state = deposit.state /\ deposit'.watchers = deposit.watchers \cup {h}
      /\ undo'.state = undo.state /\ undo'.watchers = undo.watchers \cup {h}
  BY <1>1 DEF ExtensionTypes
<1>5. LeftStays
  BY <1>4 DEF LeftStays, Left
<1> QED
  BY <1>3, <1>5 DEF DepositMoves

-----------------------------------------------------------------------------
(* Goroutines and locks.                                                   *)

\* Goroutine h is now at r.
HandlerMoves(h, r) ==
    /\ r \in HandlerRecords /\ r.attempt \in 1..maxActAttempts /\ r.round <= MaxRounds
    /\ handler' = [handler EXCEPT ![h] = r]
    /\ handler[h].pc \notin Early => r.pc \notin Early /\ r.name = handler[h].name

LEMMA SubscribedPc ==
    /\ \A h \in Handlers : Subscribed(h) <=> handler[h].pc \in Watching
    /\ \A h \in Handlers : Subscribed(h)' <=> handler'[h].pc \in Watching
  BY DEF Subscribed, Watching

LEMMA LockStays ==
    ASSUME TBTCInv, NEW h \in Handlers, NEW r, HandlerMoves(h, r), UNCHANGED locks,
           r.pc \in Watching <=> Subscribed(h)
    PROVE  MonitorLockInv'
<1>1. /\ handler'[h] = r /\ \A g \in Handlers \ {h} : handler'[g] = handler[g]
  BY DEF HandlerMoves, TBTCInv, ExtensionTypes
<1>2. Subscribed(h) => r.name = handler[h].name
  BY SubscribedPc DEF HandlerMoves, Watching, Early
<1>3. \A g \in Handlers : /\ Subscribed(g)' <=> Subscribed(g)
                          /\ Subscribed(g) => handler'[g].name = handler[g].name
  BY <1>1, <1>2, SubscribedPc
<1> QED
  BY <1>3 DEF TBTCInv, MonitorLockInv

LEMMA LockReleased ==
    ASSUME TBTCInv, NEW h \in Handlers, NEW r, HandlerMoves(h, r), r.pc = "ended",
           locks' = locks \ (IF Subscribed(h) THEN {handler[h].name} ELSE {})
    PROVE  MonitorLockInv'
<1>1. /\ handler'[h] = r /\ \A g \in Handlers \ {h} : handler'[g] = handler[g]
  BY DEF HandlerMoves, TBTCInv, ExtensionTypes
<1>2. /\ ~Subscribed(h)'
      /\ \A g \in Handlers \ {h} : /\ Subscribed(g)' <=> Subscribed(g)
                                   /\ handler'[g].name = handler[g].name
  BY <1>1, SubscribedPc DEF Watching
<1>3. MonitorLockInv
  BY DEF TBTCInv
<1>4. ASSUME NEW g \in Handlers, Subscribed(g)' PROVE handler'[g].name \in locks'
  <2>1. g # h /\ Subscribed(g) /\ handler'[g].name = handler[g].name
    BY <1>2, <1>4
  <2>2. handler[g].name \in locks
    BY <1>3, <2>1 DEF MonitorLockInv
  <2>3. Subscribed(h) => handler[g].name # handler[h].name
    BY <1>3, <2>1 DEF MonitorLockInv
  <2> QED
    BY <2>1, <2>2, <2>3
<1>5. ASSUME NEW n \in locks' PROVE \E g \in Handlers : Subscribed(g)' /\ handler'[g].name = n
  <2>1. PICK g \in Handlers : Subscribed(g) /\ handler[g].name = n
    BY <1>3, <1>5 DEF MonitorLockInv
  <2>2. g # h
    BY <1>5, <2>1
  <2> QED
    BY <1>2, <2>1, <2>2
<1>6. \A f, g \in Handlers :
          Subscribed(f)' /\ Subscribed(g)' /\ handler'[f].name = handler'[g].name => f = g
  BY <1>2, <1>3 DEF MonitorLockInv
<1> QED
  BY <1>4, <1>5, <1>6 DEF MonitorLockInv

LEMMA LockTaken ==
    ASSUME TBTCInv, NEW h \in Handlers, NEW r, HandlerMoves(h, r), r.pc = "setup",
           handler[h].pc \in Early, r.name = handler[h].name, handler[h].name \notin locks,
           locks' = locks \cup {handler[h].name}
    PROVE  MonitorLockInv'
<1>1. /\ handler'[h] = r /\ \A g \in Handlers \ {h} : handler'[g] = handler[g]
  BY DEF HandlerMoves, TBTCInv, ExtensionTypes
<1>2. /\ Subscribed(h)' /\ ~Subscribed(h) /\ handler'[h].name = handler[h].name
      /\ \A g \in Handlers \ {h} : /\ Subscribed(g)' <=> Subscribed(g)
                                   /\ handler'[g].name = handler[g].name
  BY <1>1, SubscribedPc DEF Watching, Early
<1>3. \A g \in Handlers \ {h} : Subscribed(g)' => handler'[g].name \in locks
  BY <1>2 DEF TBTCInv, MonitorLockInv
<1>4. \A g \in Handlers : Subscribed(g)' => handler'[g].name \in locks'
  BY <1>2, <1>3
<1>5. ASSUME NEW n \in locks' PROVE \E g \in Handlers : Subscribed(g)' /\ handler'[g].name = n
  <2>1. CASE n = handler[h].name
    BY <1>2, <2>1
  <2>2. CASE n \in locks
    <3>1. PICK g \in Handlers : Subscribed(g) /\ handler[g].name = n
      BY <2>2 DEF TBTCInv, MonitorLockInv
    <3> QED
      BY <1>2, <3>1
  <2> QED
    BY <1>5, <2>1, <2>2
<1>6. ASSUME NEW f \in Handlers, NEW g \in Handlers, Subscribed(f)', Subscribed(g)',
             handler'[f].name = handler'[g].name
      PROVE  f = g
  <2>1. CASE f # h /\ g # h
    BY <1>2, <1>6, <2>1 DEF TBTCInv, MonitorLockInv
  <2>2. CASE f = h \/ g = h
    BY <1>2, <1>3, <1>6, <2>2
  <2> QED
    BY <2>1, <2>2
<1> QED
  BY <1>4, <1>5, <1>6 DEF MonitorLockInv

-----------------------------------------------------------------------------
(* Putting a step together.                                                *)

StopsStay == \A h \in Handlers : /\ handler[h].pc \notin Early => handler'[h].pc \notin Early
                                 /\ handler[h].pc \notin Early => handler'[h].name = handler[h].name

LEMMA StopStep ==
    ASSUME TBTCInv, DepositMoves, StopsMove, StopsStay
    PROVE  StopInv'
<1> SUFFICES ASSUME NEW h \in Handlers
             PROVE  /\ stopper'[h]["deposit"] # "none" => handler'[h].pc \notin Early
                    /\ stopper'[h]["deposit"] = "sending" =>
                          Left(handler[h].name, h, deposit)' /\ Left(handler[h].name, h, undo)'
  BY DEF StopInv
<1>1. PICK n \in Monitors : n = handler[h].name
  BY DEF TBTCInv, ExtensionTypes, HandlerRecords
<1>2. stopper'[h]["deposit"] # "none" => handler'[h].pc \notin Early /\ handler[h].pc \notin Early
  BY SubscribedPc DEF StopsMove, StopsStay, TBTCInv, StopInv, Watching, Early
<1>3. ASSUME stopper'[h]["deposit"] = "sending"
      PROVE  Left(handler[h].name, h, deposit)' /\ Left(handler[h].name, h, undo)'
  <2>1. handler'[h].name = n /\ handler[h].pc \notin Early
    BY <1>1, <1>2, <1>3 DEF StopsStay
  <2>2. Left(n, h, deposit) /\ Left(n, h, undo)
    BY <1>1, <1>3 DEF StopsMove, TBTCInv, StopInv
  <2>3. Left(n, h, deposit)' /\ Left(n, h, undo)'
    BY <2>1, <2>2 DEF DepositMoves, LeftStays
  <2> QED
    BY <2>1, <2>3 DEF Left
<1> QED
  BY <1>2, <1>3

Bookkeeping ==
    /\ scenario' = scenario
    /\ cache' \in {"unknown", "member", "notMember"}
    /\ starts' \subseteq Monitors
    /\ TBTCFault \/ NoTBTCFault

\* A step of goroutine h.
LEMMA HandlerStep ==
    ASSUME TBTCInv, NEW h \in Handlers, NEW r, HandlerMoves(h, r), MonitorLockInv',
           locks' \subseteq Monitors, DepositMoves, StopsMove, Bookkeeping
    PROVE  TBTCInv'
<1>1. /\ handler'[h] = r /\ \A g \in Handlers \ {h} : handler'[g] = handler[g]
      /\ handler' \in [Handlers -> HandlerRecords]
  BY DEF HandlerMoves, TBTCInv, ExtensionTypes
<1>2. StopsStay
  BY <1>1 DEF StopsStay, HandlerMoves
<1>3. tbtcFaults' \in 0..scenario'.faults
  BY TBTCAssumption DEF Bookkeeping, TBTCFault, NoTBTCFault, TBTCInv, ExtensionTypes
<1>4. \A g \in Handlers : handler'[g].attempt \in 1..maxActAttempts /\ handler'[g].round <= MaxRounds'
  BY <1>1 DEF HandlerMoves, TBTCInv, ExtensionTypes, Bookkeeping, MaxRounds
<1>5. ExtensionTypes'
  BY <1>1, <1>3, <1>4 DEF ExtensionTypes, TBTCInv, DepositMoves, StopsMove, Bookkeeping
<1> QED
  BY <1>2, <1>5, StopStep DEF TBTCInv

\* A step of the deposit, or of a cache.
LEMMA OutsideStep ==
    ASSUME TBTCInv, UNCHANGED <<handler, locks>>, DepositMoves, StopsMove, Bookkeeping
    PROVE  TBTCInv'
<1>1. StopsStay
  BY DEF StopsStay
<1>2. tbtcFaults' \in 0..scenario'.faults
  BY TBTCAssumption DEF Bookkeeping, TBTCFault, NoTBTCFault, TBTCInv, ExtensionTypes
<1>3. ExtensionTypes'
  BY <1>2 DEF ExtensionTypes, TBTCInv, DepositMoves, StopsMove, Bookkeeping, MaxRounds
<1>4. MonitorLockInv'
  BY DEF TBTCInv, MonitorLockInv, Subscribed
<1> QED
  BY <1>1, <1>3, <1>4, StopStep DEF TBTCInv

-----------------------------------------------------------------------------
(* The steps.                                                              *)

\* Goroutine h has moved and the locks are still exact.
Moved(h) == /\ \E r : HandlerMoves(h, r)
            /\ MonitorLockInv' /\ locks' \subseteq Monitors

LEMMA MovedStep ==
    ASSUME TBTCInv, NEW h \in Handlers, Moved(h), DepositMoves, StopsMove, Bookkeeping
    PROVE  TBTCInv'
  BY HandlerStep DEF Moved

LEMMA GotoMoves ==
    ASSUME TBTCInv, NEW h \in Handlers, NEW pc \in Early \cup Watching \cup {"ended"}, Goto(h, pc),
           handler[h].pc \notin Early => pc \notin Early
    PROVE  \E r : HandlerMoves(h, r) /\ r.pc = pc /\ r.name = handler[h].name
<1>1. PICK r : r = [handler[h] EXCEPT !.pc = pc]
  OBVIOUS
<1>2. /\ handler[h] \in HandlerRecords /\ handler \in [Handlers -> HandlerRecords]
      /\ handler[h].attempt \in 1..maxActAttempts /\ handler[h].round <= MaxRounds
  BY DEF TBTCInv, ExtensionTypes
<1>3. /\ r \in HandlerRecords /\ r.pc = pc /\ r.name = handler[h].name
      /\ r.attempt = handler[h].attempt /\ r.round = handler[h].round
  BY <1>1, <1>2 DEF HandlerRecords
<1>4. handler' = [handler EXCEPT ![h] = r]
  BY <1>1 DEF Goto
<1> QED
  BY <1>2, <1>3, <1>4 DEF HandlerMoves

LEMMA EndMoves ==
    ASSUME TBTCInv, NEW h \in Handlers, End(h)
    PROVE  Moved(h)
<1>1. PICK r : HandlerMoves(h, r) /\ r.pc = "ended"
  BY GotoMoves DEF End, Early
<1>2. MonitorLockInv'
  BY <1>1, LockReleased DEF End
<1>3. locks' \subseteq Monitors
  BY DEF End, TBTCInv, ExtensionTypes
<1> QED
  BY <1>1, <1>2, <1>3 DEF Moved

\* Before the lock is taken and while it is held a goroutine moves freely.
LEMMA GoesOn ==
    ASSUME TBTCInv, NEW h \in Handlers, NEW pc, Goto(h, pc), UNCHANGED locks,
           \/ handler[h].pc \in Watching /\ pc \in Watching
           \/ handler[h].pc \in Early /\ pc \in Early \cup {"ended"}
    PROVE  Moved(h)
<1>1. PICK r : HandlerMoves(h, r) /\ r.pc = pc
  BY GotoMoves DEF Early, Watching
<1>2. MonitorLockInv'
  BY <1>1, LockStays, SubscribedPc DEF Early, Watching
<1> QED
  BY <1>1, <1>2 DEF Moved, TBTCInv, ExtensionTypes

LEMMA AttemptFailsMoves ==
    ASSUME TBTCInv, NEW h \in Handlers, AttemptFails(h), handler[h].pc \in Watching
    PROVE  Moved(h)
<1>1. CASE Exhausted(h)
  BY <1>1, EndMoves DEF AttemptFails
<1>2. CASE ~Exhausted(h)
  <2>1. /\ handler[h] \in HandlerRecords /\ handler \in [Handlers -> HandlerRecords]
        /\ handler[h].attempt \in 1..maxActAttempts /\ handler[h].round <= MaxRounds
        /\ maxActAttempts \in Nat
    BY TBTCAssumption DEF TBTCInv, ExtensionTypes
  <2>2. PICK a \in Nat : a = handler[h].attempt + 1
    BY <2>1
  <2>3. a \in 1..maxActAttempts
    BY <1>2, <2>1, <2>2 DEF Exhausted
  <2>4. PICK r : r = [handler[h] EXCEPT !.pc = "watching", !.attempt = a]
    OBVIOUS
  <2>5. /\ r \in HandlerRecords /\ r.pc = "watching" /\ r.name = handler[h].name
        /\ r.attempt = a /\ r.round = handler[h].round
    BY <2>1, <2>4 DEF HandlerRecords, Watching
  <2>6. handler' = [handler EXCEPT ![h] = r] /\ UNCHANGED locks
    BY <1>2, <2>1, <2>2, <2>4 DEF AttemptFails
  <2>7. HandlerMoves(h, r)
    BY <2>1, <2>3, <2>5, <2>6 DEF HandlerMoves, Early
  <2>8. MonitorLockInv'
    BY <2>5, <2>6, <2>7, LockStays, SubscribedPc DEF Watching
  <2> QED
    BY <2>6, <2>7, <2>8 DEF Moved, TBTCInv, ExtensionTypes
<1> QED
  BY <1>1, <1>2

LEMMA StartEventInv ==
    ASSUME TBTCInv, NEW h \in Handlers, OnStartEvent(h)
    PROVE  TBTCInv'
<1>1. PICK n \in starts :
          /\ handler' = [handler EXCEPT ![h].pc = "checking", ![h].name = n]
          /\ starts' \subseteq starts /\ (TBTCFault \/ NoTBTCFault)
  BY DEF OnStartEvent
<1>2. /\ handler[h] \in HandlerRecords /\ handler \in [Handlers -> HandlerRecords]
      /\ handler[h].attempt \in 1..maxActAttempts /\ handler[h].round <= MaxRounds
      /\ n \in Monitors /\ starts \subseteq Monitors /\ locks \subseteq Monitors
      /\ cache \in {"unknown", "member", "notMember"} /\ ExtensionTypes
  BY DEF TBTCInv, ExtensionTypes
<1>3. /\ handler[h].pc = "free" /\ UNCHANGED <<scenario, deposit, undo, cache, stopper, locks>>
  BY DEF OnStartEvent, chainVars
<1>4. PICK r : r = [handler[h] EXCEPT !.pc = "checking", !.name = n]
  OBVIOUS
<1>5. /\ r \in HandlerRecords /\ r.pc = "checking"
      /\ r.attempt = handler[h].attempt /\ r.round = handler[h].round
      /\ handler' = [handler EXCEPT ![h] = r]
  BY <1>1, <1>2, <1>4 DEF HandlerRecords, Early
<1>6. HandlerMoves(h, r)
  BY <1>2, <1>3, <1>5 DEF HandlerMoves, Early
<1>7. MonitorLockInv'
  BY <1>3, <1>5, <1>6, LockStays, SubscribedPc DEF Watching
<1>8. DepositMoves /\ StopsMove
  BY <1>2, <1>3, SameDeposit, SameStops
<1>9. Bookkeeping
  BY <1>1, <1>2, <1>3 DEF Bookkeeping
<1> QED
  BY <1>2, <1>3, <1>6, <1>7, <1>8, <1>9, HandlerStep

LEMMA ShouldMonitorInv ==
    ASSUME TBTCInv, NEW h \in Handlers, shouldMonitorDeposit(h)
    PROVE  TBTCInv'
<1>1. /\ handler[h].pc = "checking" /\ UNCHANGED <<scenario, deposit, undo, stopper, starts>>
      /\ ExtensionTypes
  BY DEF shouldMonitorDeposit, chainVars, TBTCInv
<1>2. End(h) \/ (Goto(h, "locking") /\ UNCHANGED locks)
  BY DEF shouldMonitorDeposit
<1>3. Moved(h)
  BY <1>1, <1>2, EndMoves, GoesOn DEF Early
<1>4. Bookkeeping
  BY <1>1 DEF Bookkeeping, shouldMonitorDeposit, ExtensionTypes
<1>5. DepositMoves /\ StopsMove
  BY <1>1, SameDeposit, SameStops
<1> QED
  BY <1>3, <1>4, <1>5, MovedStep

LEMMA AcquireInv ==
    ASSUME TBTCInv, NEW h \in Handlers, Acquire(h)
    PROVE  TBTCInv'
<1>1. /\ handler[h].pc = "locking" /\ acquireMonitoringLock(h)
      /\ UNCHANGED <<scenario, cache, stopper, starts>> /\ NoTBTCFault /\ ExtensionTypes
  BY DEF Acquire, TBTCInv
<1>2. Bookkeeping /\ StopsMove
  BY <1>1, SameStops DEF Bookkeeping, ExtensionTypes
<1>3. CASE handler[h].name \in locks
  <2>1. Goto(h, "ended") /\ UNCHANGED <<locks, deposit, undo>>
    BY <1>1, <1>3 DEF acquireMonitoringLock
  <2>2. Moved(h)
    BY <1>1, <2>1, GoesOn DEF Early
  <2>3. DepositMoves
    BY <1>1, <2>1, SameDeposit
  <2> QED
    BY <1>2, <2>2, <2>3, MovedStep
<1>4. CASE handler[h].name \notin locks
  <2>1. /\ locks' = locks \cup {handler[h].name} /\ Goto(h, "setup")
        /\ deposit' = Watch(deposit, h) /\ undo' = Watch(undo, h)
    BY <1>1, <1>4 DEF acquireMonitoringLock
  <2>2. PICK r : HandlerMoves(h, r) /\ r.pc = "setup" /\ r.name = handler[h].name
    BY <1>1, <2>1, GotoMoves DEF Watching, Early
  <2>3. MonitorLockInv'
    BY <1>1, <1>4, <2>1, <2>2, LockTaken DEF Early
  <2>4. locks' \subseteq Monitors
    BY <1>1, <2>1 DEF ExtensionTypes, HandlerRecords
  <2>5. DepositMoves
    BY <1>1, <2>1, WatchMoves DEF Early
  <2> QED
    BY <1>2, <2>2, <2>3, <2>4, <2>5, HandlerStep
<1> QED
  BY <1>3, <1>4

LEMMA SetupInv ==
    ASSUME TBTCInv, NEW h \in Handlers, Setup(h)
    PROVE  TBTCInv'
<1>1. /\ handler[h].pc = "setup" /\ UNCHANGED <<scenario, deposit, undo, cache, stopper, starts>>
      /\ ExtensionTypes /\ (TBTCFault \/ NoTBTCFault)
  BY DEF Setup, chainVars, TBTCInv
<1>2. Bookkeeping /\ DepositMoves /\ StopsMove
  BY <1>1, SameDeposit, SameStops DEF Bookkeeping, ExtensionTypes
<1>3. CASE End(h)
  BY <1>2, <1>3, EndMoves, MovedStep
<1>4. CASE /\ handler' = [handler EXCEPT ![h].pc = "watching", ![h].round = Round]
           /\ UNCHANGED locks
  <2>1. /\ handler[h] \in HandlerRecords /\ handler \in [Handlers -> HandlerRecords]
        /\ handler[h].attempt \in 1..maxActAttempts
    BY <1>1 DEF ExtensionTypes
  <2>2. PICK n \in Nat : n = Round /\ n <= MaxRounds
    BY <1>1 DEF ExtensionTypes, DepositOK, Deposits, Round
  <2>3. PICK r : r = [handler[h] EXCEPT !.pc = "watching", !.round = n]
    OBVIOUS
  <2>4. /\ r \in HandlerRecords /\ r.pc = "watching" /\ r.name = handler[h].name
        /\ r.attempt = handler[h].attempt /\ r.round = n
        /\ handler' = [handler EXCEPT ![h] = r]
    BY <1>4, <2>1, <2>2, <2>3 DEF HandlerRecords, Watching
  <2>5. HandlerMoves(h, r)
    BY <2>1, <2>2, <2>4 DEF HandlerMoves, Early
  <2>6. MonitorLockInv'
    BY <1>1, <1>4, <2>4, <2>5, LockStays, SubscribedPc DEF Watching
  <2> QED
    BY <1>1, <1>2, <1>4, <2>5, <2>6, HandlerStep DEF ExtensionTypes
<1> QED
  BY <1>3, <1>4 DEF Setup

LEMMA TimerInv ==
    ASSUME TBTCInv, NEW h \in Handlers, TimerFires(h)
    PROVE  TBTCInv'
<1>1. /\ handler[h].pc = "watching" /\ Goto(h, "acting") /\ NoTBTCFault /\ ExtensionTypes
      /\ UNCHANGED <<scenario, deposit, undo, cache, stopper, locks, starts>>
  BY DEF TimerFires, chainVars, TBTCInv
<1>2. Bookkeeping /\ DepositMoves /\ StopsMove
  BY <1>1, SameDeposit, SameStops DEF Bookkeeping, ExtensionTypes
<1>3. Moved(h)
  BY <1>1, GoesOn DEF Watching
<1> QED
  BY <1>2, <1>3, MovedStep

LEMMA ActInv ==
    ASSUME TBTCInv, NEW h \in Handlers, Act(h)
    PROVE  TBTCInv'
<1>1. handler[h].pc = "acting" /\ UNCHANGED cache /\ ExtensionTypes /\ UNCHANGED scenario
  BY DEF Act, TBTCInv, chainVars
<1>2. CASE /\ actFn(handler[h].name) /\ Goto(h, "confirming") /\ NoTBTCFault
           /\ UNCHANGED locks
  <2>1. registerPubkey \/ provideSignature \/ \E fee : requestRedemption(fee)
    BY <1>2 DEF actFn, retrieveSignerPubkey, provideRedemptionSignature, increaseRedemptionFee
  <2>2. DepositMoves /\ StopsMove /\ starts' \subseteq Monitors
    BY <1>1, <2>1, RegisterMoves, SignatureMoves, RequestMoves
  <2>3. Bookkeeping
    BY <1>1, <1>2, <2>2 DEF Bookkeeping, ExtensionTypes
  <2>4. Moved(h)
    BY <1>1, <1>2, GoesOn DEF Watching
  <2> QED
    BY <2>2, <2>3, <2>4, MovedStep
<1>3. CASE /\ AttemptFails(h) /\ (TBTCFault \/ NoTBTCFault)
           /\ UNCHANGED <<chainVars, stopper, starts>>
  <2>1. DepositMoves /\ StopsMove
    BY <1>1, <1>3, SameDeposit, SameStops DEF chainVars
  <2>2. Bookkeeping
    BY <1>1, <1>3 DEF Bookkeeping, ExtensionTypes
  <2>3. Moved(h)
    BY <1>1, <1>3, AttemptFailsMoves DEF Watching
  <2> QED
    BY <2>1, <2>2, <2>3, MovedStep
<1> QED
  BY <1>2, <1>3 DEF Act

LEMMA ConfirmActInv ==
    ASSUME TBTCInv, NEW h \in Handlers, ConfirmAct(h)
    PROVE  TBTCInv'
<1>1. /\ handler[h].pc = "confirming" /\ ExtensionTypes /\ (TBTCFault \/ NoTBTCFault)
      /\ UNCHANGED <<scenario, deposit, cache, stopper, starts>> /\ undo' = deposit
      /\ End(h) \/ AttemptFails(h)
  BY DEF ConfirmAct, BlocksPass, TBTCInv
<1>2. Bookkeeping /\ DepositMoves /\ StopsMove
  BY <1>1, ForkMoves, SameStops DEF Bookkeeping, ExtensionTypes
<1>3. Moved(h)
  BY <1>1, EndMoves, AttemptFailsMoves DEF Watching
<1> QED
  BY <1>2, <1>3, MovedStep

LEMMA StopStepInv ==
    ASSUME TBTCInv, NEW h \in Handlers, NEW kind \in Kinds, Stop(h, kind)
    PROVE  TBTCInv'
<1>1. /\ End(h) /\ NoTBTCFault /\ ExtensionTypes
      /\ stopper' = [stopper EXCEPT ![h][kind] = "none"]
      /\ UNCHANGED <<scenario, deposit, undo, cache, starts>>
  BY DEF Stop, chainVars, TBTCInv
<1>2. stopper \in [Handlers -> [Kinds -> StopStates]]
  BY <1>1 DEF ExtensionTypes
<1>3. StopsMove
  BY <1>1, <1>2 DEF StopsMove, Kinds, StopStates
<1>4. Bookkeeping /\ DepositMoves
  BY <1>1, SameDeposit DEF Bookkeeping, ExtensionTypes
<1> QED
  BY <1>1, <1>3, <1>4, EndMoves, MovedStep

\* A stop is sent when the deposit is in another state and no fork can take it back.
LEMMA ConfirmStopInv ==
    ASSUME TBTCInv, NEW h \in Handlers, NEW kind \in Kinds, ConfirmStop(h, kind)
    PROVE  TBTCInv'
<1>1. /\ stopper[h][kind] = "confirming" /\ (TBTCFault \/ NoTBTCFault) /\ ExtensionTypes
      /\ UNCHANGED <<scenario, deposit, cache, handler, locks, starts>> /\ undo' = deposit
  BY DEF ConfirmStop, BlocksPass, TBTCInv
<1>2. stopper \in [Handlers -> [Kinds -> StopStates]]
  BY <1>1 DEF ExtensionTypes
<1>3. Bookkeeping /\ DepositMoves
  BY <1>1, ForkMoves DEF Bookkeeping, ExtensionTypes
<1>4. CASE stopper' = [stopper EXCEPT ![h][kind] = "none"]
  <2>1. StopsMove
    BY <1>2, <1>4 DEF StopsMove, Kinds, StopStates
  <2> QED
    BY <1>1, <1>3, <2>1, OutsideStep
<1>5. CASE kind = "keep" /\ stopper' = [stopper EXCEPT ![h][kind] = "sending"]
  <2>1. StopsMove
    BY <1>2, <1>5 DEF StopsMove, Kinds, StopStates
  <2> QED
    BY <1>1, <1>3, <2>1, OutsideStep
<1>6. CASE /\ kind = "deposit" /\ stopper' = [stopper EXCEPT ![h][kind] = "sending"]
           /\ waitDepositStateChangeConfirmation(h)
  <2>1. /\ stopper' \in [Handlers -> [Kinds -> StopStates]]
        /\ \A g \in Handlers \ {h} : stopper'[g] = stopper[g]
    BY <1>2, <1>6 DEF Kinds, StopStates
  <2>2. ExtensionTypes'
    <3>1. tbtcFaults' \in 0..scenario'.faults
      BY <1>1, TBTCAssumption DEF TBTCFault, NoTBTCFault, ExtensionTypes
    <3> QED
      BY <1>1, <1>3, <2>1, <3>1 DEF ExtensionTypes, DepositMoves, MaxRounds
  <2>3. MonitorLockInv'
    BY <1>1 DEF TBTCInv, MonitorLockInv, Subscribed
  <2>4. /\ Left(handler[h].name, h, deposit)' /\ Left(handler[h].name, h, undo)'
        /\ handler'[h].pc \notin Early
    BY <1>1, <1>6 DEF waitDepositStateChangeConfirmation, Left, TBTCInv, StopInv
  <2>5. ASSUME NEW g \in Handlers, g # h
        PROVE  /\ stopper'[g]["deposit"] # "none" => handler'[g].pc \notin Early
               /\ stopper'[g]["deposit"] = "sending" =>
                    Left(handler[g].name, g, deposit)' /\ Left(handler[g].name, g, undo)'
    BY <1>1, <2>1, <2>5 DEF Left, TBTCInv, StopInv
  <2>6. StopInv'
    BY <2>4, <2>5 DEF StopInv
  <2> QED
    BY <2>2, <2>3, <2>6 DEF TBTCInv
<1> QED
  BY <1>4, <1>5, <1>6 DEF ConfirmStop, Kinds

LEMMA OthersInv ==
    ASSUME TBTCInv, OthersAct
    PROVE  TBTCInv'
<1>1. /\ UNCHANGED <<scenario, cache, handler, locks>> /\ NoTBTCFault /\ ExtensionTypes
      /\ registerPubkey \/ provideSignature \/ redeem \/ \E fee : requestRedemption(fee)
  BY DEF OthersAct, TBTCInv
<1>2. DepositMoves /\ StopsMove /\ starts' \subseteq Monitors
  BY <1>1, RegisterMoves, SignatureMoves, RedeemMoves, RequestMoves
<1>3. Bookkeeping
  BY <1>1, <1>2 DEF Bookkeeping, ExtensionTypes
<1> QED
  BY <1>1, <1>2, <1>3, OutsideStep

LEMMA TimeInv ==
    ASSUME TBTCInv, TimePasses \/ KeepSigns
    PROVE  TBTCInv'
<1>1. /\ UNCHANGED <<scenario, cache, handler, locks, starts, stopper>> /\ NoTBTCFault
      /\ ExtensionTypes /\ deposit \in Deposits /\ undo' = deposit'
  BY DEF TimePasses, KeepSigns, monitorVars, TBTCInv, ExtensionTypes, DepositOK
<1>2. PICK d : d = deposit'
  OBVIOUS
<1>3. \/ d = [deposit EXCEPT !.due = TRUE]
      \/ d = [deposit EXCEPT !.signed = TRUE]
  BY <1>2 DEF TimePasses, KeepSigns
<1>4. /\ d \in Deposits /\ d.requests = deposit.requests /\ d.watchers = deposit.watchers
      /\ d.state = deposit.state
  BY <1>1, <1>3 DEF Deposits
<1>5. DepositMoves
  BY <1>1, <1>2, <1>4, FieldMoves
<1>6. StopsMove /\ Bookkeeping
  BY <1>1, SameStops DEF Bookkeeping, ExtensionTypes
<1> QED
  BY <1>1, <1>5, <1>6, OutsideStep

LEMMA KeepEndsInv ==
    ASSUME TBTCInv, KeepEnds
    PROVE  TBTCInv'
<1>1. /\ UNCHANGED <<scenario, cache, handler, locks, starts>> /\ NoTBTCFault
      /\ ExtensionTypes /\ deposit \in Deposits /\ undo' = deposit' /\ Emit("keep", Monitors)
  BY DEF KeepEnds, TBTCInv, ExtensionTypes, DepositOK
<1>2. PICK d : d = [deposit EXCEPT !.state = "Ended"]
  OBVIOUS
<1>3. /\ d \in Deposits /\ d.requests = deposit.requests /\ d.watchers = deposit.watchers
      /\ d.state = "Ended" /\ d = deposit'
  BY <1>1, <1>2 DEF Deposits, DepositStates, KeepEnds
<1>4. DepositMoves
  BY <1>1, <1>3, FieldMoves
<1>5. StopsMove /\ Bookkeeping
  BY <1>1, EmitMoves DEF Bookkeeping, ExtensionTypes, Kinds
<1> QED
  BY <1>1, <1>4, <1>5, OutsideStep

LEMMA ForkSweepInv ==
    ASSUME TBTCInv, Fork \/ Sweep
    PROVE  TBTCInv'
<1>1. /\ UNCHANGED <<scenario, handler, locks, starts, stopper>> /\ TBTCFault /\ ExtensionTypes
      /\ cache' \in {"unknown", cache}
  BY DEF Fork, Sweep, monitorVars, chainVars, TBTCInv
<1>2. DepositMoves
  BY <1>1, SameDeposit, ForkMoves DEF Fork, Sweep, chainVars
<1>3. StopsMove /\ Bookkeeping
  BY <1>1, SameStops DEF Bookkeeping, ExtensionTypes
<1> QED
  BY <1>1, <1>2, <1>3, OutsideStep

LEMMA TBTCInitInv == TBTCInit => TBTCInv
<1> SUFFICES ASSUME TBTCInit PROVE TBTCInv
  OBVIOUS
<1>1. /\ scenario \in Scenarios /\ scenario.state \in {"AwaitingSignerSetup", "Funding"}
      /\ scenario.monitors \subseteq Monitors /\ MaxRounds \in Nat /\ scenario.faults \in Nat
  BY TBTCAssumption DEF TBTCInit, Monitors, MaxRounds
<1>2. deposit \in Deposits /\ deposit.requests = <<>> /\ deposit.state = scenario.state
  BY <1>1 DEF TBTCInit, Deposits, DepositStates
<1>3. DepositOK(deposit) /\ DepositOK(undo)
  BY <1>1, <1>2 DEF DepositOK, TBTCInit
<1>4. /\ Free \in HandlerRecords /\ Free.pc = "free" /\ Free.attempt = 1 /\ Free.round = 0
  BY DEF Free, HandlerRecords, Early, Monitors
<1>5. /\ handler \in [Handlers -> HandlerRecords]
      /\ \A h \in Handlers : /\ handler[h].pc = "free"
                             /\ handler[h].attempt = 1 /\ handler[h].round = 0
  BY <1>4 DEF TBTCInit
<1>6. /\ stopper \in [Handlers -> [Kinds -> StopStates]]
      /\ \A h \in Handlers : stopper[h]["deposit"] = "none"
  BY DEF TBTCInit, NoStop, Kinds, StopStates
<1>7. 1 \in 1..maxActAttempts
  BY TBTCAssumption
<1>8. ExtensionTypes
  BY <1>1, <1>3, <1>5, <1>6, <1>7 DEF ExtensionTypes, TBTCInit
<1>9. MonitorLockInv
  BY <1>5 DEF MonitorLockInv, Subscribed, TBTCInit
<1>10. StopInv
  BY <1>6 DEF StopInv
<1> QED
  BY <1>8, <1>9, <1>10 DEF TBTCInv

LEMMA TBTCStepInv == TBTCInv /\ [TBTCNext]_tbtcVars => TBTCInv'
<1> SUFFICES ASSUME TBTCInv, [TBTCNext]_tbtcVars PROVE TBTCInv'
  OBVIOUS
<1>1. ASSUME NEW h \in Handlers, monitorAndAct(h) PROVE TBTCInv'
  BY <1>1, StartEventInv, ShouldMonitorInv, AcquireInv, SetupInv, TimerInv, ActInv, ConfirmActInv,
     ConfirmStopInv, StopStepInv DEF monitorAndAct, Kinds
<1>2. CASE OthersAct \/ TimePasses \/ KeepSigns \/ KeepEnds \/ Fork \/ Sweep
  BY <1>2, OthersInv, TimeInv, KeepEndsInv, ForkSweepInv
<1>3. CASE UNCHANGED tbtcVars
  BY <1>3 DEF tbtcVars, chainVars, monitorVars, TBTCInv, ExtensionTypes, DepositOK, MaxRounds,
     MonitorLockInv, StopInv, Left, Subscribed
<1> QED
  BY <1>1, <1>2, <1>3 DEF TBTCNext

-----------------------------------------------------------------------------
(* The theorems.                                                           *)

\* The extension and the deposit keep their types: among them, no action is
\* attempted more often than it may be, and the fees of the requests are the
\* multiples of the first one.
THEOREM TBTCTypeCorrect == TBTCSpec => []TBTCTypeOK
<1>1. TBTCInv => TBTCTypeOK
  <2> SUFFICES ASSUME TBTCInv PROVE TBTCTypeOK
    OBVIOUS
  <2>1. DepositStates \subseteq {Initial[n] : n \in Monitors} \cup {"Funding", "Redeemed", "Ended"}
    BY InitialStates DEF DepositStates, Monitors
  <2>2. deposit.state \in DepositStates
    BY DEF TBTCInv, ExtensionTypes, DepositOK, Deposits
  <2>3. \A h \in Handlers : handler[h].round \in 0..MaxRounds
    BY TBTCAssumption DEF TBTCInv, ExtensionTypes, HandlerRecords, MaxRounds
  <2> QED
    BY <2>1, <2>2, <2>3 DEF TBTCTypeOK, TBTCInv, ExtensionTypes, DepositOK, Round
<1> QED
  BY <1>1, TBTCInitInv, TBTCStepInv, PTL DEF TBTCSpec

\* A deposit never has two monitorings of one kind, and the lock of a monitoring
\* that returned, on whichever path, is free.
THEOREM LocksAreExact == TBTCSpec => []LockIsExact
<1>1. TBTCInv => LockIsExact
  <2> SUFFICES ASSUME TBTCInv, NEW n \in Monitors
               PROVE  Cardinality({h \in Handlers : Subscribed(h) /\ handler[h].name = n})
                        = IF n \in locks THEN 1 ELSE 0
    BY DEF LockIsExact
  <2> DEFINE S == {h \in Handlers : Subscribed(h) /\ handler[h].name = n}
  <2>1. CASE n \in locks
    <3>1. PICK h \in Handlers : Subscribed(h) /\ handler[h].name = n
      BY <2>1 DEF TBTCInv, MonitorLockInv
    <3>2. S = {h}
      BY <3>1 DEF TBTCInv, MonitorLockInv
    <3>3. Cardinality(S) = 1
      BY <3>2, FS_Singleton
    <3> QED
      BY <2>1, <3>3
  <2>2. CASE n \notin locks
    <3>1. S = {}
      BY <2>2 DEF TBTCInv, MonitorLockInv
    <3>2. Cardinality(S) = 0
      BY <3>1, FS_EmptySet
    <3> QED
      BY <2>2, <3>2
  <2> QED
    BY <2>1, <2>2
<1> QED
  BY <1>1, TBTCInitInv, TBTCStepInv, PTL DEF TBTCSpec

\* A stop event ends a monitoring only for a state that the deposit has left, with
\* whatever a fork dropped meanwhile.
THEOREM StopsAreConfirmed == TBTCSpec => StopIsConfirmed
<1>1. TBTCInv /\ [TBTCNext]_tbtcVars =>
        [\A h \in Handlers : Stop(h, "deposit") =>
             \/ deposit.state # Initial[handler[h].name]
             \/ h \notin deposit.watchers]_tbtcVars
  BY DEF TBTCInv, StopInv, Left, Stop
<1> QED
  BY <1>1, TBTCInitInv, TBTCStepInv, PTL DEF TBTCSpec, StopIsConfirmed

\* The step that increaseRedemptionFee reads off the past requests is the one the
\* deposit asks for, however often the fee was increased.
THEOREM FeeStepIsRight ==
    TBTCSpec => [](deposit.state = "AwaitingWithdrawalProof" => feeBumpStep = InitialFee)
<1>1. TBTCInv => (deposit.state = "AwaitingWithdrawalProof" => feeBumpStep = InitialFee)
  <2> SUFFICES ASSUME TBTCInv, deposit.state = "AwaitingWithdrawalProof"
               PROVE  feeBumpStep = InitialFee
    OBVIOUS
  <2>1. PICK r : r = deposit.requests
    OBVIOUS
  <2>2. /\ r \in Seq(Nat) /\ Len(r) \in Nat /\ Len(r) >= 1 /\ InitialFee \in Nat
        /\ \A i \in 1..Len(r) : r[i] = i * InitialFee
    BY <2>1, TBTCAssumption DEF TBTCInv, ExtensionTypes, DepositOK, Deposits
  <2>3. CASE Len(r) = 1
    <3>1. r[1] = 1 * InitialFee
      BY <2>2, <2>3
    <3> QED
      BY <2>1, <2>2, <2>3, <3>1 DEF feeBumpStep
  <2>4. CASE Len(r) # 1
    <3>1. PICK m \in Nat : m = Len(r) - 1 /\ m >= 1
      <4> DEFINE n == Len(r)
      <4>1. n \in Nat /\ n >= 1 /\ n # 1
        BY <2>2, <2>4
      <4> HIDE DEF n
      <4>2. n - 1 \in Nat /\ n - 1 >= 1
        BY <4>1
      <4> QED
        BY <4>2 DEF n
    <3>2. r[m + 1] = (m + 1) * InitialFee /\ r[m] = m * InitialFee
      BY <2>2, <3>1
    <3>3. (m + 1) * InitialFee - m * InitialFee = InitialFee
      <4>1. PICK k \in Nat : k = m * InitialFee
        BY <2>2, <3>1
      <4>2. (m + 1) * InitialFee = k + InitialFee
        BY <2>2, <3>1, <4>1
      <4> QED
        BY <2>2, <4>1, <4>2
    <3>4. feeBumpStep = r[m + 1] - r[m]
      BY <2>1, <2>2, <2>4, <3>1 DEF feeBumpStep
    <3> QED
      BY <3>2, <3>3, <3>4
  <2> QED
    BY <2>3, <2>4
<1> QED
  BY <1>1, TBTCInitInv, TBTCStepInv, PTL DEF TBTCSpec
=============================================================================
