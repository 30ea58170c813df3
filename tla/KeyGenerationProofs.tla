------------------------ MODULE KeyGenerationProofs ------------------------
(***************************************************************************)
(* Safety of key generation for any number of handlers, keys, crashes,     *)
(* reorganisations and pending transactions.                               *)
(***************************************************************************)
EXTENDS KeyGeneration, TLAPS

\* What a goroutine, a monitor and a pending transaction hold was saved, and
\* sent, as far as the goroutine got.
SavedInv ==
    /\ \A p \in Procs :
         /\ pc[p] \in {"generated", "snapshotted", "submitted"} => key[p] \in Keys
         /\ pc[p] \in {"snapshotted", "submitted"} => key[p] \in snapshots
         /\ pc[p] = "submitted" => key[p] \in sent
    /\ \A k \in Keys : monitor[k] # "off" => k \in sent
    /\ \A i \in 1..Len(pending) : pending[i] \in sent
    /\ sent \subseteq snapshots

\* What is on the chain and in the registry was sent.
SentInv ==
    /\ submittedKey \in sent \cup {NoKey}
    /\ publicKey \in sent \cup {NoKey}
    /\ mySigner \in sent \cup {NoKey}
    /\ savedSigner \in sent \cup {NoKey}
    /\ HasSigner => savedSigner = mySigner

\* A handler that generates a key is tracked, it is the only one, and without
\* one nothing is tracked.
TrackInv ==
    /\ pc[Checker] \notin {"untracked", "unregistered"}
    /\ \A h \in Handlers :
         /\ pc[h] \notin {"starting", "keyless"}
         /\ pc[h] \in Generating => keyGenKeeps
    /\ keyGenKeeps => \E h \in Handlers : pc[h] \in Generating
    /\ \A g, h \in Handlers : pc[g] \in Generating /\ pc[h] \in Generating => g = h

IInv == TypeOK /\ SavedInv /\ SentInv /\ TrackInv

-----------------------------------------------------------------------------

\* The initial states satisfy the inductive invariant.
LEMMA InitInv == Init => IInv
  <1> SUFFICES ASSUME Init PROVE IInv
    OBVIOUS
  <1>1. TypeOK
    <2>1. /\ 0 \in 0..MaxRestarts
          /\ 0 \in 0..MaxReorgs
          /\ 0 \in 0..MaxPubkeyChecks
      BY GenerationAssumption
    <2>2. pending \in Seq(Keys)
      BY DEF Init
    <2>3. RegistryTypeOK
      BY DEF Init, RegistryInit, RegistryTypeOK
    <2>4. QED
      BY <2>1, <2>2, <2>3 DEF Init, TypeOK
  <1>2. SavedInv /\ SentInv
    BY RegistryAssumption DEF Init, RegistryInit, SavedInv, SentInv, HasSigner
  <1>3. TrackInv
    BY GenerationAssumption DEF Init, TrackInv, Procs, Generating
  <1>4. QED
    BY <1>1, <1>2, <1>3 DEF IInv

\* Goroutine p moves between two states that do not hold a new key; all the rest
\* but its timeout and the deduplicator is left alone.
LEMMA MoveInv ==
    ASSUME IInv, NEW p \in Procs,
           NEW from, NEW to \in {"idle", "untracked", "unregistered", "keyless",
                                 "generating", "attempting"},
           Goto(p, from, to),
           expired' \in [Procs -> BOOLEAN],
           keyGenKeeps' \in BOOLEAN,
           UNCHANGED <<registryVars, up, restarts, key, monitorVars, chainVars>>,
           TrackInv'
    PROVE  IInv'
  <1>1. TypeOK'
    BY DEF IInv, TypeOK, RegistryTypeOK, Goto, Generating, registryVars, diskVars,
           monitorVars, chainVars
  <1>2. SavedInv'
    BY DEF IInv, TypeOK, SavedInv, Goto, registryVars, diskVars, monitorVars, chainVars
  <1>3. SentInv'
    BY DEF IInv, SentInv, HasSigner, registryVars, diskVars, chainVars
  <1>4. QED
    BY <1>1, <1>2, <1>3 DEF IInv

\* generateKeyForKeep returns without registering a signer.
LEMMA FinishInv ==
    ASSUME IInv, NEW p \in Procs, NEW from \in Generating, Finish(p, from),
           UNCHANGED <<registryVars, monitorVars, chainVars>>
    PROVE  IInv'
  <1>1. TypeOK'
    BY DEF IInv, TypeOK, RegistryTypeOK, Finish, Goto, registryVars, diskVars,
           monitorVars, chainVars
  <1>2. SavedInv'
    BY DEF IInv, TypeOK, SavedInv, Finish, Goto, registryVars, diskVars, monitorVars,
           chainVars
  <1>3. SentInv'
    BY DEF IInv, SentInv, HasSigner, registryVars, diskVars, chainVars
  <1>4. TrackInv'
    BY DEF IInv, TypeOK, TrackInv, Finish, Goto, Procs, Generating
  <1>5. QED
    BY <1>1, <1>2, <1>3, <1>4 DEF IInv

\* The chain, or a monitor that sends nothing, moves.
LEMMA FrameInv ==
    ASSUME IInv, UNCHANGED <<registryVars, clientVars, sent>>,
           TypeOK',
           \A k \in Keys : monitor'[k] # "off" => monitor[k] # "off",
           \A i \in 1..Len(pending') : pending'[i] \in sent,
           submittedKey' \in sent \cup {NoKey},
           publicKey' \in sent \cup {NoKey}
    PROVE  IInv'
  <1>1. SavedInv'
    BY DEF IInv, SavedInv, registryVars, diskVars, clientVars
  <1>2. SentInv'
    BY DEF IInv, SentInv, HasSigner, registryVars, diskVars, clientVars
  <1>3. TrackInv'
    BY DEF IInv, TrackInv, clientVars
  <1>4. QED
    BY <1>1, <1>2, <1>3 DEF IInv

\* A monitor sends its key again, or stops.
LEMMA ResubmitInv ==
    ASSUME IInv, NEW k \in Keys, monitor[k] # "off", Resubmit(k),
           UNCHANGED <<registryVars, clientVars>>,
           checks' \in [Keys -> 0..MaxPubkeyChecks]
    PROVE  IInv'
  <1>1. CASE chainUp
    <2>1. /\ pending' = Append(pending, k)
          /\ sent' = sent \cup {k}
          /\ monitor' = [monitor EXCEPT ![k] = "waiting"]
          /\ UNCHANGED <<active, submittedKey, publicKey, reorgs, chainUp>>
      BY <1>1 DEF Resubmit, Send
    <2>2. k \in sent
      BY DEF IInv, SavedInv
    <2>3. sent' = sent
      BY <2>1, <2>2
    <2>4. TypeOK'
      <3>1. pending' \in Seq(Keys)
        BY <2>1 DEF IInv, TypeOK
      <3>2. QED
        BY <2>1, <2>3, <3>1 DEF IInv, TypeOK, RegistryTypeOK, registryVars, diskVars, clientVars
    <2>5. \A i \in 1..Len(pending') : pending'[i] \in sent
      BY <2>1, <2>2 DEF IInv, TypeOK, SavedInv
    <2>6. \A j \in Keys : monitor'[j] # "off" => monitor[j] # "off"
      BY <2>1 DEF IInv, TypeOK
    <2>7. QED
      BY <2>1, <2>3, <2>4, <2>5, <2>6, FrameInv DEF IInv, SentInv
  <1>2. CASE ~chainUp
    <2>1. monitor' = [monitor EXCEPT ![k] = "off"] /\ UNCHANGED chainVars
      BY <1>2 DEF Resubmit, StopMonitor
    <2>2. TypeOK'
      BY <2>1 DEF IInv, TypeOK, RegistryTypeOK, registryVars, diskVars, clientVars, chainVars
    <2>3. QED
      BY <2>1, <2>2, FrameInv DEF IInv, TypeOK, SavedInv, SentInv, chainVars
  <1>3. QED
    BY <1>1, <1>2

-----------------------------------------------------------------------------

\* Steps that only decide where a goroutine goes on.
LEMMA DecideInv ==
    ASSUME IInv, NEW p \in Procs,
           \/ NotTracked(p) \/ CheckRegistry(p) \/ Track(p) \/ CheckPublicKey(p)
           \/ CheckKeyMaterial(p) \/ StartAttempt(p) \/ AttemptFails(p)
    PROVE  IInv'
  <1> USE DEF IInv, TypeOK
  <1>1. CASE NotTracked(p)
    <2>1. TrackInv'
      BY <1>1, GenerationAssumption DEF NotTracked, TrackInv, Goto, Procs, Generating
    <2>2. QED
      BY <1>1, <2>1, MoveInv DEF NotTracked
  <1>2. CASE CheckRegistry(p)
    <2>1. PICK to \in {"idle", "unregistered"} : Goto(p, "untracked", to)
      BY <1>2 DEF CheckRegistry
    <2>2. TrackInv'
      BY <1>2, <2>1 DEF CheckRegistry, TrackInv, Goto, Procs, Generating
    <2>3. QED
      BY <1>2, <2>1, <2>2, MoveInv DEF CheckRegistry
  <1>3. CASE Track(p)
    <2>1. PICK to \in {"idle", "generating"} : /\ Goto(p, "unregistered", to)
                                              /\ to = IF keyGenKeeps THEN "idle"
                                                             ELSE "generating"
      BY <1>3 DEF Track
    <2>2. TrackInv'
      <3>1. p \in Handlers /\ pc[p] = "unregistered" /\ keyGenKeeps'
        BY <1>3, <2>1 DEF Track, TrackInv, Goto, Procs
      <3>2. CASE keyGenKeeps
        BY <2>1, <3>1, <3>2 DEF TrackInv, Goto, Procs, Generating
      <3>3. CASE ~keyGenKeeps
        BY <2>1, <3>1, <3>3, GenerationAssumption DEF TrackInv, Goto, Procs, Generating
      <3>4. QED
        BY <3>2, <3>3
    <2>3. QED
      BY <1>3, <2>1, <2>2, MoveInv DEF Track
  <1>4. CASE CheckPublicKey(p)
    <2>1. PICK to \in {"idle", "keyless"} : Goto(p, "starting", to)
      BY <1>4 DEF CheckPublicKey
    <2>2. TrackInv'
      BY <1>4, <2>1 DEF CheckPublicKey, TrackInv, Goto, Procs, Generating
    <2>3. QED
      BY <1>4, <2>1, <2>2, MoveInv DEF CheckPublicKey
  <1>5. CASE CheckKeyMaterial(p)
    <2>1. PICK to \in {"idle", "generating"} : Goto(p, "keyless", to)
      BY <1>5 DEF CheckKeyMaterial
    <2>2. TrackInv'
      BY <1>5, <2>1 DEF CheckKeyMaterial, TrackInv, Goto, Procs, Generating
    <2>3. QED
      BY <1>5, <2>1, <2>2, MoveInv DEF CheckKeyMaterial
  <1>6. CASE StartAttempt(p)
    <2>1. TrackInv'
      BY <1>6 DEF StartAttempt, TrackInv, Goto, Procs, Generating
    <2>2. QED
      BY <1>6, <2>1, MoveInv DEF StartAttempt
  <1>7. CASE AttemptFails(p)
    <2>1. TrackInv'
      BY <1>7 DEF AttemptFails, TrackInv, Goto, Procs, Generating
    <2>2. QED
      BY <1>7, <2>1, MoveInv DEF AttemptFails
  <1>8. QED
    BY <1>1, <1>2, <1>3, <1>4, <1>5, <1>6, <1>7

\* A signer is generated, saved in a snapshot, and its key is sent.
LEMMA PublishInv ==
    ASSUME IInv, NEW p \in Procs,
           \/ \E k \in Keys : AttemptSucceeds(p, k)
           \/ \E saved \in BOOLEAN : Snapshot(p, saved)
           \/ SubmitPublicKey(p)
    PROVE  IInv'
  <1>1. ASSUME NEW k \in Keys, AttemptSucceeds(p, k)
        PROVE  IInv'
    <2>1. TypeOK'
      BY <1>1 DEF IInv, TypeOK, RegistryTypeOK, AttemptSucceeds, Goto, Generating,
         registryVars, diskVars, monitorVars, chainVars
    <2>2. SavedInv'
      BY <1>1 DEF IInv, TypeOK, SavedInv, AttemptSucceeds, Goto, registryVars, diskVars,
         monitorVars, chainVars
    <2>3. SentInv'
      BY <1>1 DEF IInv, SentInv, HasSigner, AttemptSucceeds, registryVars, diskVars, chainVars
    <2>4. TrackInv'
      BY <1>1 DEF IInv, TypeOK, TrackInv, AttemptSucceeds, Goto, Procs, Generating
    <2>5. QED
      BY <2>1, <2>2, <2>3, <2>4 DEF IInv
  <1>2. ASSUME NEW saved \in BOOLEAN, Snapshot(p, saved)
        PROVE  IInv'
    <2>1. CASE ~saved
      BY <1>2, <2>1, FinishInv DEF Snapshot, Generating
    <2>2. CASE saved
      <3>1. /\ snapshots' = snapshots \cup {key[p]}
            /\ Goto(p, "generated", "snapshotted")
            /\ UNCHANGED <<mySigner, savedSigner, archived, up, restarts, key, expired,
                           keyGenKeeps, monitorVars, chainVars>>
        BY <1>2, <2>2 DEF Snapshot, SnapshotSigner, snapshot
      <3>2. key[p] \in Keys
        BY <3>1 DEF IInv, SavedInv, Goto
      <3>3. TypeOK'
        BY <3>1, <3>2 DEF IInv, TypeOK, RegistryTypeOK, Goto, Generating, monitorVars, chainVars
      <3>4. SavedInv'
        BY <3>1, <3>2 DEF IInv, TypeOK, SavedInv, Goto, monitorVars, chainVars
      <3>5. SentInv'
        BY <3>1 DEF IInv, SentInv, HasSigner, chainVars
      <3>6. TrackInv'
        BY <3>1 DEF IInv, TypeOK, TrackInv, Goto, Procs, Generating
      <3>7. QED
        BY <3>3, <3>4, <3>5, <3>6 DEF IInv
    <2>3. QED
      BY <2>1, <2>2
  <1>3. ASSUME SubmitPublicKey(p)
        PROVE  IInv'
    <2>1. CASE ~chainUp
      <3>1. Finish(p, "snapshotted") /\ UNCHANGED <<registryVars, monitorVars, chainVars>>
        BY <1>3, <2>1 DEF SubmitPublicKey, monitorVars
      <3>2. QED
        BY <3>1, FinishInv DEF Generating
    <2>2. CASE chainUp
      <3>1. /\ pending' = Append(pending, key[p])
            /\ sent' = sent \cup {key[p]}
            /\ Goto(p, "snapshotted", "submitted")
            /\ monitor' = [monitor EXCEPT ![key[p]] = "waiting"]
            /\ UNCHANGED <<active, submittedKey, publicKey, reorgs, chainUp, registryVars,
                           checks, up, restarts, key, expired, keyGenKeeps>>
        BY <1>3, <2>2 DEF SubmitPublicKey, Send
      <3>2. key[p] \in Keys /\ key[p] \in snapshots
        BY <3>1 DEF IInv, SavedInv, Goto
      <3>3. TypeOK'
        <4>1. pending' \in Seq(Keys)
          BY <3>1, <3>2 DEF IInv, TypeOK
        <4>2. QED
          BY <3>1, <3>2, <4>1 DEF IInv, TypeOK, RegistryTypeOK, Goto, Generating,
             registryVars, diskVars
      <3>4. SavedInv'
        <4>1. \A i \in 1..Len(pending') : pending'[i] \in sent'
          BY <3>1, <3>2 DEF IInv, TypeOK, SavedInv
        <4>2. QED
          BY <3>1, <3>2, <4>1 DEF IInv, TypeOK, SavedInv, Goto, registryVars, diskVars
      <3>5. SentInv'
        BY <3>1 DEF IInv, SentInv, HasSigner, registryVars, diskVars
      <3>6. TrackInv'
        BY <3>1 DEF IInv, TypeOK, TrackInv, Goto, Procs, Generating
      <3>7. QED
        BY <3>3, <3>4, <3>5, <3>6 DEF IInv
    <2>3. QED
      BY <2>1, <2>2
  <1>4. QED
    BY <1>1, <1>2, <1>3

\* A signer whose key was sent is registered, or is refused.
LEMMA RegisterInv ==
    ASSUME IInv, NEW p \in Procs, NEW saved \in BOOLEAN, Register(p, saved)
    PROVE  IInv'
  <1>1. CASE HasSigner
    <2>1. Finish(p, "submitted") /\ UNCHANGED <<registryVars, monitorVars, chainVars>>
      BY <1>1 DEF Register
    <2>2. QED
      BY <2>1, FinishInv DEF Generating
  <1>2. CASE ~HasSigner
    <2>1. /\ mySigner' = IF saved THEN key[p] ELSE mySigner
          /\ savedSigner' = IF saved THEN key[p] ELSE savedSigner
          /\ UNCHANGED <<snapshots, archived, monitorVars, chainVars>>
          /\ Finish(p, "submitted")
      BY <1>2 DEF Register, RegisterSigner, save
    <2>2. key[p] \in Keys /\ key[p] \in sent
      BY <2>1 DEF IInv, SavedInv, Finish, Goto
    <2>3. TypeOK'
      BY <2>1, <2>2 DEF IInv, TypeOK, RegistryTypeOK, Finish, Goto, monitorVars, chainVars
    <2>4. SavedInv'
      BY <2>1 DEF IInv, TypeOK, SavedInv, Finish, Goto, monitorVars, chainVars
    <2>5. SentInv'
      BY <1>2, <2>1, <2>2 DEF IInv, SentInv, HasSigner, chainVars
    <2>6. TrackInv'
      BY <2>1 DEF IInv, TypeOK, TrackInv, Finish, Goto, Procs, Generating
    <2>7. QED
      BY <2>3, <2>4, <2>5, <2>6 DEF IInv
  <1>3. QED
    BY <1>1, <1>2

\* The monitors of the submissions.
LEMMA MonitorInv ==
    ASSUME IInv, NEW k \in Keys,
           MonitorTick(k) \/ MonitorConfirm(k) \/ MonitorConflict(k)
    PROVE  IInv'
  <1> DEFINE Stays == /\ UNCHANGED <<registryVars, clientVars, chainVars>>
                      /\ checks' \in [Keys -> 0..MaxPubkeyChecks]
                      /\ monitor' \in [Keys -> {"off", "waiting", "confirming"}]
                      /\ \A j \in Keys : monitor'[j] # "off" => monitor[j] # "off"
  <1>0. ASSUME Stays PROVE IInv'
    <2>1. TypeOK'
      BY <1>0 DEF IInv, TypeOK, RegistryTypeOK, registryVars, diskVars, clientVars, chainVars
    <2>2. QED
      BY <1>0, <2>1, FrameInv DEF IInv, SavedInv, SentInv, chainVars
  <1>1. CASE MonitorTick(k)
    <2>1. CASE MonitorExhausted(k)
      <3>1. Stays
        BY <1>1, <2>1 DEF MonitorTick, StopMonitor, IInv, TypeOK
      <3>2. QED
        BY <1>0, <3>1
    <2>2. CASE ~MonitorExhausted(k)
      <3>1. checks' = [checks EXCEPT ![k] = @ + 1]
        BY <1>1, <2>2 DEF MonitorTick
      <3>2. checks[k] \in 0..MaxPubkeyChecks /\ checks[k] + 1 \in 0..MaxPubkeyChecks
        BY <2>2, GenerationAssumption DEF MonitorExhausted, IInv, TypeOK
      <3>3. checks' \in [Keys -> 0..MaxPubkeyChecks]
        BY <3>1, <3>2 DEF IInv, TypeOK
      <3>4. CASE chainUp /\ publicKey = NoKey
        BY <1>1, <2>2, <3>3, <3>4, ResubmitInv DEF MonitorTick
      <3>5. CASE ~(chainUp /\ publicKey = NoKey)
        <4>1. Stays
          BY <1>1, <2>2, <3>3, <3>5 DEF MonitorTick, IInv, TypeOK
        <4>2. QED
          BY <1>0, <4>1
      <3>6. QED
        BY <3>4, <3>5
    <2>3. QED
      BY <2>1, <2>2
  <1>2. CASE MonitorConfirm(k)
    <2>1. checks' \in [Keys -> 0..MaxPubkeyChecks]
      BY <1>2 DEF MonitorConfirm, IInv, TypeOK
    <2>2. CASE chainUp /\ publicKey = NoKey
      BY <1>2, <2>1, <2>2, ResubmitInv DEF MonitorConfirm
    <2>3. CASE ~(chainUp /\ publicKey = NoKey)
      <3>1. Stays
        BY <1>2, <2>1, <2>3 DEF MonitorConfirm, StopMonitor, IInv, TypeOK
      <3>2. QED
        BY <1>0, <3>1
    <2>4. QED
      BY <2>2, <2>3
  <1>3. CASE MonitorConflict(k)
    <2>1. Stays
      BY <1>3 DEF MonitorConflict, StopMonitor, IInv, TypeOK
    <2>2. QED
      BY <1>0, <2>1
  <1>4. QED
    BY <1>1, <1>2, <1>3

\* The chain moves.
LEMMA ChainInv ==
    ASSUME IInv,
           Mine \/ OthersSubmit \/ Reorg \/ EndKeep \/ ChainFails \/ ChainRecovers
    PROVE  IInv'
  <1> USE DEF IInv, TypeOK, SavedInv, SentInv
  <1>1. CASE Mine
    <2>1. Head(pending) \in sent /\ Head(pending) \in Keys
      BY <1>1 DEF Mine
    <2>2. /\ pending' \in Seq(Keys)
          /\ \A i \in 1..Len(pending') : pending'[i] \in sent
      BY <1>1 DEF Mine
    <2>3. TypeOK'
      BY <1>1, <2>1, <2>2 DEF Mine, RegistryTypeOK, registryVars, diskVars, clientVars,
         monitorVars
    <2>4. QED
      BY <1>1, <2>1, <2>2, <2>3, FrameInv DEF Mine, monitorVars
  <1>2. CASE OthersSubmit
    <2>1. TypeOK'
      BY <1>2 DEF OthersSubmit, RegistryTypeOK, registryVars, diskVars, clientVars, monitorVars
    <2>2. QED
      BY <1>2, <2>1, FrameInv DEF OthersSubmit, monitorVars
  <1>3. CASE Reorg
    <2>1. reorgs' \in 0..MaxReorgs
      BY <1>3, GenerationAssumption DEF Reorg
    <2>2. TypeOK'
      BY <1>3, <2>1 DEF Reorg, RegistryTypeOK, registryVars, diskVars, clientVars, monitorVars
    <2>3. QED
      BY <1>3, <2>2, FrameInv DEF Reorg, monitorVars
  <1>4. CASE EndKeep
    <2>1. TypeOK'
      BY <1>4 DEF EndKeep, RegistryTypeOK, registryVars, diskVars, clientVars, monitorVars
    <2>2. QED
      BY <1>4, <2>1, FrameInv DEF EndKeep, monitorVars
  <1>5. CASE ChainFails \/ ChainRecovers
    <2>1. TypeOK'
      BY <1>5 DEF ChainFails, ChainRecovers, RegistryTypeOK, registryVars, diskVars,
         clientVars, monitorVars
    <2>2. QED
      BY <1>5, <2>1, FrameInv DEF ChainFails, ChainRecovers, monitorVars
  <1>6. QED
    BY <1>1, <1>2, <1>3, <1>4, <1>5

\* The client crashes and starts again.
LEMMA CrashInv ==
    ASSUME IInv, Crash \/ \E readable \in BOOLEAN : Restart(readable)
    PROVE  IInv'
  <1> USE DEF IInv, TypeOK
  <1>1. CASE Crash
    <2>1. restarts' \in 0..MaxRestarts
      BY <1>1, GenerationAssumption DEF Crash
    <2>2. 0 \in 0..MaxPubkeyChecks
      BY GenerationAssumption
    <2>3. TypeOK'
      BY <1>1, <2>1, <2>2 DEF Crash, LoseMemory, RegistryTypeOK, diskVars, chainVars
    <2>4. SavedInv' /\ SentInv'
      BY <1>1 DEF Crash, LoseMemory, SavedInv, SentInv, HasSigner, diskVars, chainVars
    <2>5. TrackInv'
      BY <1>1 DEF Crash, TrackInv, Procs, Generating
    <2>6. QED
      BY <2>3, <2>4, <2>5
  <1>2. ASSUME NEW readable \in BOOLEAN, Restart(readable) PROVE IInv'
    <2>1. TypeOK'
      BY <1>2 DEF Restart, LoadExistingKeeps, readAll, RegistryTypeOK, diskVars, monitorVars, chainVars
    <2>2. SavedInv'
      BY <1>2 DEF Restart, LoadExistingKeeps, readAll, SavedInv, diskVars, monitorVars, chainVars
    <2>3. SentInv'
      BY <1>2 DEF Restart, LoadExistingKeeps, readAll, SentInv, HasSigner, diskVars, chainVars
    <2>4. TrackInv'
      BY <1>2, GenerationAssumption DEF Restart, TrackInv, Procs, Generating
    <2>5. QED
      BY <2>1, <2>2, <2>3, <2>4
  <1>3. QED
    BY <1>1, <1>2

-----------------------------------------------------------------------------

\* Every step preserves the inductive invariant.
LEMMA NextInv == IInv /\ [Next]_vars => IInv'
  <1> SUFFICES ASSUME IInv, [Next]_vars PROVE IInv'
    OBVIOUS
  <1>1. ASSUME NEW p \in Procs, NotTracked(p) PROVE IInv'
    BY <1>1, DecideInv
  <1>2. ASSUME NEW p \in Procs, Step(p) PROVE IInv'
    <2>1. CASE GiveUp(p)
      BY <2>1, FinishInv DEF GiveUp, Generating
    <2>2. QED
      BY <1>2, <2>1, DecideInv, PublishInv, RegisterInv DEF Step
  <1>3. ASSUME NEW p \in Procs, Expire(p) PROVE IInv'
    <2>1. TypeOK'
      BY <1>3 DEF IInv, TypeOK, RegistryTypeOK, Expire, registryVars, diskVars, monitorVars,
         chainVars
    <2>2. SavedInv' /\ SentInv' /\ TrackInv'
      BY <1>3 DEF IInv, SavedInv, SentInv, TrackInv, HasSigner, Expire, registryVars,
         diskVars, monitorVars, chainVars
    <2>3. QED
      BY <2>1, <2>2 DEF IInv
  <1>4. CASE UNCHANGED vars
    <2>1. TypeOK'
      BY <1>4 DEF IInv, TypeOK, RegistryTypeOK, vars, registryVars, diskVars, clientVars,
         monitorVars, chainVars
    <2>2. SavedInv' /\ SentInv' /\ TrackInv'
      BY <1>4 DEF IInv, SavedInv, SentInv, TrackInv, HasSigner, vars, registryVars, diskVars,
         clientVars, monitorVars, chainVars
    <2>3. QED
      BY <2>1, <2>2 DEF IInv
  <1>5. QED
    BY <1>1, <1>2, <1>3, <1>4, MonitorInv, ChainInv, CrashInv DEF Next

\* The inductive invariant holds in every reachable state.
LEMMA Invariance == Spec => []IInv
  <1>1. QED
    BY InitInv, NextInv, PTL DEF Spec

\* Every reachable state of the key generation is well typed; in particular the
\* monitor of a submission makes at most maxPubkeyChecksCount checks.
THEOREM GenerationTypeCorrect == Spec => []TypeOK
  <1>1. IInv => TypeOK
    BY DEF IInv
  <1>2. QED
    BY <1>1, Invariance, PTL

\* A key this client ever sent to the chain has its share in a snapshot on disk,
\* after any number of crashes: SnapshotSigner comes before SubmitKeepPublicKey.
THEOREM ShareSafety == Spec => []KeyShareIsSafe
  <1>1. IInv => KeyShareIsSafe
    BY DEF IInv, SavedInv, SentInv, KeyShareIsSafe
  <1>2. QED
    BY <1>1, Invariance, PTL

\* A signer in the registry or in the current files has had its public key
\* submitted, which is what checkAwaitingKeyGenerationForKeep relies on.
THEOREM RegisteredSubmitted == Spec => []RegisteredMeansSubmitted
  <1>1. IInv => RegisteredMeansSubmitted
    BY DEF IInv, SentInv, RegisteredMeansSubmitted
  <1>2. QED
    BY <1>1, Invariance, PTL

\* RegisterSigner saves before it registers, so memory never holds a signer that
\* a crash would lose.
THEOREM RegistryDurability == Spec => []RegistryIsDurable
  <1>1. IInv => RegistryIsDurable
    BY DEF IInv, SentInv, RegistryIsDurable
  <1>2. QED
    BY <1>1, Invariance, PTL

\* Any number of duplicated keep-created events start at most one key generation
\* at a time, although NotifyKeyGenStarted checks and acts in separate steps.
THEOREM HandlerExclusion == Spec => []OneHandlerGenerates
  <1>1. IInv => OneHandlerGenerates
    BY DEF IInv, TrackInv, OneHandlerGenerates
  <1>2. QED
    BY <1>1, Invariance, PTL
=============================================================================
