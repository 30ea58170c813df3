------------------------ MODULE LiquidationRecovery ------------------------
(***************************************************************************)
(* Recovery of the bitcoin of liquidated deposits: what a client does for  *)
(* each terminated keep, in the order of handleLiquidationRecovery.        *)
(*                                                                         *)
(* The receiving address is derived from the operator's extended key at    *)
(* the first index that was not used yet (a plain address would be used as *)
(* it is). The storage keeps the last index as the name of a file: it      *)
(* removes the files of lower indexes, writes the new one and holds a      *)
(* mutex over all of it. An error of any step starts the recovery of the   *)
(* keep again, with a new address. The exchange of addresses and           *)
(* the signing are protocols among the members (ThresholdProtocols); here  *)
(* they succeed or fail. Electrs is a service.                             *)
(***************************************************************************)
EXTENDS Integers, FiniteSets

CONSTANTS
    TerminatedKeeps,
    NoKeep,             \* the mutex is free
    RecoveryCases,      \* [value of the output, whether the deposit was funded,
                        \* configured maxFee (0 is none), fees per vbyte electrs
                        \* may suggest, indexes the operator has used elsewhere]
    estimatedTransactionSizeVByte,
    vsize,              \* virtual size of the transaction
    recipients,         \* members of a keep
    defaultVbyteFee,
    IntBits,            \* width of int32
    MaxRecoveryFaults   \* bound on failing calls and crashes

ASSUME RecoveryAssumption ==
    /\ NoKeep \notin TerminatedKeeps
    /\ \A c \in RecoveryCases :
        /\ c.value \in 0..(2^IntBits - 1) /\ c.funded \in BOOLEAN
        /\ c.estimates \cup {c.maxFee} \subseteq 0..(2^(IntBits - 1) - 1)
        /\ c.spent \subseteq Nat /\ IsFiniteSet(c.spent)
    /\ {estimatedTransactionSizeVByte, vsize, recipients, defaultVbyteFee, IntBits} \subseteq Nat \ {0}
    /\ MaxRecoveryFaults \in Nat

VARIABLES
    recovery,       \* keep -> [pc, index, unused, fee: its own, then the agreed one]
    output,         \* the case: deposits of the keeps and the configuration
    storageMutex,
    indexFiles,     \* files of the derivation index storage
    spent,          \* indexes whose address has transactions
    given,          \* indexes whose address was announced to other members
    reused,         \* indexes given more than once
    interrupted,    \* a save ended between the removal and the write
    recoveryFaults

recoveryVars == <<recovery, output, storageMutex, indexFiles, spent, given, reused,
                  interrupted, recoveryFaults>>

RecoveryFault == recoveryFaults < MaxRecoveryFaults /\ recoveryFaults' = recoveryFaults + 1
NoRecoveryFault == recoveryFaults' = recoveryFaults

RecoveryStart == [pc |-> "announce", index |-> 0, unused |-> FALSE, fee |-> 0]

RecoveryInit ==
    /\ recovery = [k \in TerminatedKeeps |-> RecoveryStart]
    /\ output \in RecoveryCases
    /\ storageMutex = NoKeep
    /\ indexFiles = {} /\ spent = output.spent
    /\ given = {} /\ reused = {} /\ interrupted = FALSE
    /\ recoveryFaults = 0

At(k, pc) == recovery[k].pc = pc
Unfinished == {k \in TerminatedKeeps : recovery[k].pc \notin {"done", "aborted", "archived"}}
Step(k, pc) == recovery' = [recovery EXCEPT ![k].pc = pc]

\* A failing call: the error leaves handleLiquidationRecovery, which is retried.
Retry(k) == recovery' = [recovery EXCEPT ![k] = RecoveryStart] /\ RecoveryFault

----------------------------------------------------------------------------
(* Fee and transaction. *)

Int32(n) == IF n % 2^IntBits < 2^(IntBits - 1) THEN n % 2^IntBits ELSE (n % 2^IntBits) - 2^IntBits

\* Division of the language: it rounds towards zero.
Quotient(a, b) == IF a >= 0 THEN a \div b ELSE -((-a) \div b)

resolveVbyteFee(suggested) ==
    LET estimated == Int32(suggested * estimatedTransactionSizeVByte)
        high == estimated > Quotient(Int32(output.value), 20)
    IN  CASE suggested > 0 /\ high /\ output.maxFee \in 1..suggested -> output.maxFee
          [] suggested > 0 /\ ~(high /\ output.maxFee \in 1..suggested) -> suggested
          [] suggested = 0 /\ output.maxFee > 0 -> output.maxFee
          [] OTHER -> defaultVbyteFee

\* Value of each output. The fee is taken off a 64-bit value.
perRecipientValue(fee) ==
    Quotient(output.value - fee * vsize, recipients)

----------------------------------------------------------------------------
(* The derivation index storage. *)

\* Mutant of Lock: the mutex is not taken.
LockNot(k) ==
    /\ At(k, "lock") /\ Step(k, "read")
    /\ storageMutex' = k
    /\ NoRecoveryFault /\ UNCHANGED <<indexFiles, spent, given, reused, interrupted>>

Lock(k) ==
    /\ At(k, "lock") /\ storageMutex = NoKeep
    /\ storageMutex' = k /\ Step(k, "read")
    /\ NoRecoveryFault /\ UNCHANGED <<indexFiles, spent, given, reused, interrupted>>

\* Mutant of Unlock: an error leaves the mutex locked.
UnlockOnSuccess == storageMutex' = IF recoveryFaults' = recoveryFaults THEN NoKeep ELSE storageMutex

Unlock == storageMutex' = NoKeep

\* Index after the highest one on disk.
read(k) ==
    /\ At(k, "read")
    /\ \/ \E i \in {j + 1 : j \in indexFiles \cup {-1}} :
          /\ \A j \in indexFiles : j < i
          /\ recovery' = [recovery EXCEPT ![k].index = i, ![k].pc = "check"]
          /\ NoRecoveryFault /\ UNCHANGED storageMutex
       \/ Retry(k) /\ Unlock
    /\ UNCHANGED <<indexFiles, spent, given, reused, interrupted>>

\* An error of electrs counts as an unused address.
IsAddressUnused(k) ==
    /\ At(k, "check")
    /\ \E unused \in BOOLEAN :
        /\ recovery' = [recovery EXCEPT ![k].unused = unused, ![k].pc = "clean"]
        /\ \/ unused = (recovery[k].index \notin spent) /\ NoRecoveryFault
           \/ unused /\ RecoveryFault
    /\ UNCHANGED <<storageMutex, indexFiles, spent, given, reused, interrupted>>

\* save up to the write. A file that cannot be removed is left behind; without its
\* directory save fails before it has removed anything.
cleanUp(k) ==
    /\ At(k, "clean")
    /\ LET old == {i \in indexFiles : i < recovery[k].index}
       IN  \/ /\ Step(k, "write") /\ indexFiles' = indexFiles \ old
              /\ NoRecoveryFault /\ UNCHANGED storageMutex
           \/ /\ \E rest \in SUBSET old : indexFiles' = (indexFiles \ old) \cup rest
              /\ Step(k, "write") /\ RecoveryFault /\ UNCHANGED storageMutex
           \/ Retry(k) /\ Unlock /\ UNCHANGED indexFiles
    /\ UNCHANGED <<spent, given, reused, interrupted>>

\* The end of save, and of the round of GetNextAddress.
writeIndex(k) ==
    LET index == recovery[k].index
    IN  /\ At(k, "write")
        /\ \/ /\ indexFiles' = indexFiles \cup {index}
              /\ IF recovery[k].unused
                 THEN /\ given' = given \cup {index}
                      /\ reused' = reused \cup (given \cap {index})
                      /\ recovery' = [recovery EXCEPT ![k].unused = FALSE, ![k].pc = "fund"]
                      /\ NoRecoveryFault /\ Unlock
                 ELSE /\ recovery' = [recovery EXCEPT ![k].index = index + 1, ![k].pc = "check"]
                      /\ NoRecoveryFault /\ UNCHANGED <<storageMutex, given, reused>>
              /\ UNCHANGED interrupted
           \/ /\ Retry(k) /\ Unlock
              /\ interrupted' = TRUE /\ UNCHANGED <<indexFiles, given, reused>>
        /\ UNCHANGED spent

GetNextAddress(k) == Lock(k) \/ read(k) \/ IsAddressUnused(k) \/ cleanUp(k) \/ writeIndex(k)

----------------------------------------------------------------------------
(* The recovery of a keep. *)

AnnouncePresence(k) ==
    /\ At(k, "announce")
    /\ (Step(k, "lock") /\ NoRecoveryFault) \/ Retry(k)
    /\ UNCHANGED <<storageMutex, indexFiles, spent, given, reused, interrupted>>

\* A deposit that was not funded has nothing to recover: no retry.
FundingInfo(k) ==
    /\ At(k, "fund")
    /\ \/ output.funded /\ Step(k, "fee") /\ NoRecoveryFault
       \/ ~output.funded /\ Step(k, "aborted") /\ NoRecoveryFault
       \/ Retry(k)
    /\ UNCHANGED <<storageMutex, indexFiles, spent, given, reused, interrupted>>

\* Without an answer of electrs the estimate is 0.
VbyteFeeFor25Blocks(k) ==
    /\ At(k, "fee")
    /\ \E suggested \in output.estimates \cup {0} :
        /\ \/ suggested \in output.estimates /\ NoRecoveryFault
           \/ suggested = 0 /\ RecoveryFault
        /\ recovery' = [recovery EXCEPT ![k].fee = resolveVbyteFee(suggested), ![k].pc = "exchange"]
    /\ UNCHANGED <<storageMutex, indexFiles, spent, given, reused, interrupted>>

\* The transaction pays the highest fee any member wants.
BroadcastRecoveryAddress(k) ==
    /\ At(k, "exchange")
    /\ \/ \E others \in output.estimates \cup {defaultVbyteFee} :
          /\ recovery' = [recovery EXCEPT
                ![k].pc = "build",
                ![k].fee = IF others > recovery[k].fee THEN others ELSE recovery[k].fee]
          /\ NoRecoveryFault
       \/ Retry(k)
    /\ UNCHANGED <<storageMutex, indexFiles, spent, given, reused, interrupted>>

BuildBitcoinTransaction(k) ==
    /\ At(k, "build")
    /\ (Step(k, "broadcast") /\ NoRecoveryFault) \/ Retry(k)
    /\ UNCHANGED <<storageMutex, indexFiles, spent, given, reused, interrupted>>

\* The network takes no transaction that pays nothing. A failed broadcast is
\* left to the operator and to the other members.
Broadcast(k) ==
    /\ At(k, "broadcast") /\ Step(k, "done")
    /\ \/ /\ perRecipientValue(recovery[k].fee) > 0
          /\ spent' = spent \cup {recovery[k].index} /\ NoRecoveryFault
       \/ /\ perRecipientValue(recovery[k].fee) <= 0
          /\ UNCHANGED spent /\ NoRecoveryFault
       \/ UNCHANGED spent /\ RecoveryFault
    /\ UNCHANGED <<storageMutex, indexFiles, given, reused, interrupted>>

\* Every member has the signed transaction.
OthersBroadcast(k) ==
    /\ recovery[k].pc \in {"broadcast", "done"} /\ perRecipientValue(recovery[k].fee) > 0
    /\ spent' = spent \cup {recovery[k].index}
    /\ NoRecoveryFault
    /\ UNCHANGED <<recovery, storageMutex, indexFiles, given, reused, interrupted>>

handleLiquidationRecovery(k) ==
    /\ \/ AnnouncePresence(k) \/ GetNextAddress(k) \/ FundingInfo(k) \/ VbyteFeeFor25Blocks(k)
       \/ BroadcastRecoveryAddress(k) \/ BuildBitcoinTransaction(k) \/ Broadcast(k)
    /\ UNCHANGED output

\* The client stops. When it is back it archives the terminated keeps without a
\* recovery; one whose check fails is handled again when its event comes.
RecoveryCrash ==
    /\ RecoveryFault
    /\ \E again \in SUBSET Unfinished :
        recovery' = [k \in TerminatedKeeps |->
                        CASE k \in again -> RecoveryStart
                          [] k \in Unfinished \ again -> [RecoveryStart EXCEPT !.pc = "archived"]
                          [] OTHER -> recovery[k]]
    /\ storageMutex' = NoKeep
    /\ interrupted' = (interrupted \/ \E k \in TerminatedKeeps : At(k, "write"))
    /\ UNCHANGED <<output, indexFiles, spent, given, reused>>

RecoveryNext ==
    \/ \E k \in TerminatedKeeps : handleLiquidationRecovery(k)
    \/ \E k \in TerminatedKeeps : OthersBroadcast(k) /\ UNCHANGED output
    \/ RecoveryCrash

RecoverySpec == RecoveryInit /\ [][RecoveryNext]_recoveryVars

\* A goroutine that can go on does.
RecoveryFairSpec ==
    RecoverySpec /\ \A k \in TerminatedKeeps : WF_recoveryVars(handleLiquidationRecovery(k))

----------------------------------------------------------------------------
(* Correctness. *)

\* No receiving address is announced twice, although keeps are recovered side
\* by side, retried and started over after a crash, unless a save ended after it
\* had removed the old index and before it had written the new one
\* (DerivationIndexStorage and its mutex).
AddressIsFresh == reused = {} \/ interrupted

\* Once a recovery is under way, the recovery of every keep ends: the mutex of
\* the storage is free again whatever fails under it, and the search for an index
\* stops. (A restart of the client ends it too, by archiving the keep.)
RecoveryCompletes ==
    (\E k \in TerminatedKeeps : ~At(k, "announce"))
        ~> (Unfinished = {})
=============================================================================
