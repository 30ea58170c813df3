--------------------------- MODULE KeyGeneration ---------------------------
(***************************************************************************)
(* Key generation for one keep in one client: the handlers of the          *)
(* keep-created event and the deduplicator (pkg/client), the check for     *)
(* keeps that await a key at start-up, GenerateSignerForKeep and the       *)
(* monitor of the public key submission (pkg/node), over the registry.     *)
(*                                                                         *)
(* The client may crash between any two steps and start again.  The event  *)
(* is delivered any number of times, because subscriptions fetch past      *)
(* events again at every tick.  A submitted key is a transaction: it is    *)
(* mined later, in the order of the nonces, and a reorganisation of the    *)
(* chain can undo it.                                                      *)
(***************************************************************************)
EXTENDS KeepRegistry

CONSTANTS
    Handlers,         \* goroutines that handle a keep-created event
    Checker,          \* the goroutine of checkAwaitingKeyGeneration
    MaxPubkeyChecks,  \* maxPubkeyChecksCount of the submission monitor
    MaxPending,       \* bound on transactions waiting to be mined
    MaxRestarts,      \* bound on crashes
    MaxReorgs         \* bound on reorganisations of the chain

ASSUME GenerationAssumption ==
    /\ Checker \notin Handlers
    /\ {MaxPubkeyChecks, MaxPending, MaxRestarts, MaxReorgs} \subseteq Nat

Procs == Handlers \cup {Checker}

VARIABLES
    up,            \* the client runs
    restarts,
    pc,            \* where each goroutine is
    key,           \* signer a goroutine generated
    expired,       \* its key generation timeout has passed
    keyGenKeeps,   \* the deduplicator tracks a key generation of the keep
    monitor,       \* key -> state of the goroutine that monitors its submission
    checks,        \* key -> pubkeyChecksCounter
    active,        \* chain: the keep is active
    submittedKey,  \* chain: key this member submitted
    publicKey,     \* chain: key of the keep, which all members submitted
    pending,       \* transactions of this member that are not mined yet
    sent,          \* history: keys this member ever put in a transaction
    reorgs,
    chainUp        \* calls to the chain node succeed

clientVars == <<up, restarts, pc, key, expired, keyGenKeeps>>
monitorVars == <<monitor, checks>>
chainVars == <<active, submittedKey, publicKey, pending, sent, reorgs, chainUp>>
vars == <<registryVars, clientVars, monitorVars, chainVars>>

\* A goroutine in one of these states is in generateKeyForKeep.
Generating == {"generating", "attempting", "generated", "snapshotted", "submitted"}

TypeOK ==
    /\ RegistryTypeOK
    /\ up \in BOOLEAN /\ active \in BOOLEAN /\ chainUp \in BOOLEAN
    /\ restarts \in 0..MaxRestarts
    /\ pc \in [Procs -> {"idle", "untracked", "unregistered", "starting", "keyless"}
                          \cup Generating]
    /\ key \in [Procs -> Keys \cup {NoKey}]
    /\ expired \in [Procs -> BOOLEAN]
    /\ keyGenKeeps \in BOOLEAN
    /\ monitor \in [Keys -> {"off", "waiting", "confirming"}]
    /\ checks \in [Keys -> 0..MaxPubkeyChecks]
    /\ submittedKey \in Keys \cup {NoKey}
    /\ publicKey \in Keys \cup {NoKey}
    /\ pending \in Seq(Keys)
    /\ sent \subseteq Keys
    /\ reorgs \in 0..MaxReorgs

Init ==
    /\ RegistryInit
    /\ up = TRUE
    /\ restarts = 0
    /\ pc = [p \in Procs |-> IF p = Checker THEN "starting" ELSE "idle"]
    /\ key = [p \in Procs |-> NoKey]
    /\ expired = [p \in Procs |-> FALSE]
    /\ keyGenKeeps = FALSE
    /\ monitor = [k \in Keys |-> "off"]
    /\ checks = [k \in Keys |-> 0]
    /\ active = TRUE
    /\ submittedKey = NoKey
    /\ publicKey = NoKey
    /\ pending = << >>
    /\ sent = {}
    /\ reorgs = 0
    /\ chainUp = TRUE

-----------------------------------------------------------------------------
(* How goroutines move.                                                    *)

Goto(p, from, to) ==
    /\ up
    /\ pc[p] = from
    /\ pc' = [pc EXCEPT ![p] = to]

\* generateKeyForKeep returns.  The handler of an event then runs the deferred
\* NotifyKeyGenCompleted.
Finish(p, from) ==
    /\ Goto(p, from, "idle")
    /\ key' = [key EXCEPT ![p] = NoKey]
    /\ expired' = [expired EXCEPT ![p] = FALSE]
    /\ keyGenKeeps' = IF p \in Handlers THEN FALSE ELSE keyGenKeeps
    /\ UNCHANGED <<up, restarts>>

-----------------------------------------------------------------------------
(* The handler of the keep-created event: NotifyKeyGenStarted in its three *)
(* separate steps.                                                         *)

\* keyGenKeeps.has
NotTracked(p) ==
    /\ p \in Handlers
    /\ ~keyGenKeeps
    /\ Goto(p, "idle", "untracked")
    /\ UNCHANGED <<registryVars, up, restarts, key, expired, keyGenKeeps,
                   monitorVars, chainVars>>

\* keepRegistry.HasSigner
CheckRegistry(p) ==
    /\ Goto(p, "untracked", IF HasSigner THEN "idle" ELSE "unregistered")
    /\ UNCHANGED <<registryVars, up, restarts, key, expired, keyGenKeeps,
                   monitorVars, chainVars>>

\* Mutant of Track: the result of add is not used.
TrackAnyway(p) ==
    /\ Goto(p, "unregistered", "generating")
    /\ keyGenKeeps' = TRUE
    /\ UNCHANGED <<registryVars, up, restarts, key, expired, monitorVars, chainVars>>

\* keyGenKeeps.add
Track(p) ==
    /\ Goto(p, "unregistered", IF keyGenKeeps THEN "idle" ELSE "generating")
    /\ keyGenKeeps' = TRUE
    /\ UNCHANGED <<registryVars, up, restarts, key, expired, monitorVars, chainVars>>

-----------------------------------------------------------------------------
(* checkAwaitingKeyGenerationForKeep at start-up.                          *)

CheckPublicKey(p) ==
    /\ Goto(p, "starting", IF chainUp /\ publicKey = NoKey THEN "keyless" ELSE "idle")
    /\ UNCHANGED <<registryVars, up, restarts, key, expired, keyGenKeeps,
                   monitorVars, chainVars>>

CheckKeyMaterial(p) ==
    /\ Goto(p, "keyless", IF chainUp /\ ~HasSigner THEN "generating" ELSE "idle")
    /\ UNCHANGED <<registryVars, up, restarts, key, expired, keyGenKeeps,
                   monitorVars, chainVars>>

-----------------------------------------------------------------------------
(* GenerateSignerForKeep.                                                  *)

\* A new attempt.  While IsActive fails the loop goes on without looking at the
\* context, which leaves the state as it is.
StartAttempt(p) ==
    /\ chainUp
    /\ active
    /\ ~expired[p]
    /\ Goto(p, "generating", "attempting")
    /\ UNCHANGED <<registryVars, up, restarts, key, expired, keyGenKeeps,
                   monitorVars, chainVars>>

\* The keep is no longer active, or the timeout has passed.
GiveUp(p) ==
    /\ chainUp
    /\ ~active \/ expired[p]
    /\ Finish(p, "generating")
    /\ UNCHANGED <<registryVars, monitorVars, chainVars>>

\* The announcement or the key generation protocol fails.
AttemptFails(p) ==
    /\ Goto(p, "attempting", "generating")
    /\ UNCHANGED <<registryVars, up, restarts, key, expired, keyGenKeeps,
                   monitorVars, chainVars>>

\* GenerateThresholdSigner returns a signer for a fresh key.
AttemptSucceeds(p, k) ==
    /\ k \notin snapshots
    /\ \A q \in Procs : key[q] # k
    /\ ~expired[p]
    /\ Goto(p, "attempting", "generated")
    /\ key' = [key EXCEPT ![p] = k]
    /\ UNCHANGED <<registryVars, up, restarts, expired, keyGenKeeps,
                   monitorVars, chainVars>>

Expire(p) ==
    /\ up
    /\ pc[p] \in Generating
    /\ ~expired[p]
    /\ expired' = [expired EXCEPT ![p] = TRUE]
    /\ UNCHANGED <<registryVars, up, restarts, pc, key, keyGenKeeps,
                   monitorVars, chainVars>>

\* Mutant of Snapshot: a failed snapshot is only logged.
SnapshotIgnored(p, saved) ==
    /\ IF saved THEN SnapshotSigner(key[p]) ELSE UNCHANGED registryVars
    /\ Goto(p, "generated", "snapshotted")
    /\ UNCHANGED <<up, restarts, key, expired, keyGenKeeps, monitorVars, chainVars>>

Snapshot(p, saved) ==
    /\ IF saved
       THEN /\ SnapshotSigner(key[p])
            /\ Goto(p, "generated", "snapshotted")
            /\ UNCHANGED <<up, restarts, key, expired, keyGenKeeps>>
       ELSE /\ Finish(p, "generated")
            /\ UNCHANGED registryVars
    /\ UNCHANGED <<monitorVars, chainVars>>

\* SubmitKeepPublicKey returns once the transaction is sent.
Send(k) ==
    /\ Len(pending) < MaxPending
    /\ pending' = Append(pending, k)
    /\ sent' = sent \cup {k}
    /\ UNCHANGED <<active, submittedKey, publicKey, reorgs, chainUp>>

SubmitPublicKey(p) ==
    /\ IF chainUp
       THEN /\ Send(key[p])
            /\ Goto(p, "snapshotted", "submitted")
            /\ monitor' = [monitor EXCEPT ![key[p]] = "waiting"]
            /\ UNCHANGED <<up, restarts, key, expired, keyGenKeeps>>
       ELSE /\ Finish(p, "snapshotted")
            /\ UNCHANGED <<monitor, chainVars>>
    /\ UNCHANGED <<registryVars, checks>>

\* Mutant of Register: the signer is registered before its key is submitted.
RegisterEarly(p, saved) ==
    /\ IF HasSigner THEN UNCHANGED registryVars ELSE RegisterSigner(key[p], saved)
    /\ Finish(p, "snapshotted")
    /\ UNCHANGED <<monitorVars, chainVars>>

\* RegisterSigner, and the end of generateKeyForKeep.
Register(p, saved) ==
    /\ IF HasSigner THEN UNCHANGED registryVars ELSE RegisterSigner(key[p], saved)
    /\ Finish(p, "submitted")
    /\ UNCHANGED <<monitorVars, chainVars>>

-----------------------------------------------------------------------------
(* monitorKeepPublicKeySubmission.                                         *)

StopMonitor(k) == monitor' = [monitor EXCEPT ![k] = "off"]

\* Send the key again; the monitor stops when that fails.
Resubmit(k) ==
    IF chainUp
    THEN Send(k) /\ monitor' = [monitor EXCEPT ![k] = "waiting"]
    ELSE StopMonitor(k) /\ UNCHANGED chainVars

MonitorExhausted(k) == checks[k] + 1 > MaxPubkeyChecks

MonitorTick(k) ==
    /\ up
    /\ monitor[k] = "waiting"
    /\ IF MonitorExhausted(k)
       THEN /\ StopMonitor(k)
            /\ UNCHANGED <<checks, chainVars>>
       ELSE /\ checks' = [checks EXCEPT ![k] = @ + 1]
            /\ IF ~chainUp
               THEN UNCHANGED <<monitor, chainVars>>
               ELSE IF publicKey # NoKey
               THEN /\ monitor' = [monitor EXCEPT ![k] = "confirming"]
                    /\ UNCHANGED chainVars
               ELSE Resubmit(k)
    /\ UNCHANGED <<registryVars, clientVars>>

\* The key is read again once the confirmation blocks are mined.
MonitorConfirm(k) ==
    /\ up
    /\ monitor[k] = "confirming"
    /\ IF ~chainUp
       THEN /\ monitor' = [monitor EXCEPT ![k] = "waiting"]
            /\ UNCHANGED chainVars
       ELSE IF publicKey # NoKey
       THEN /\ StopMonitor(k)
            /\ UNCHANGED chainVars
       ELSE Resubmit(k)
    /\ UNCHANGED <<checks, registryVars, clientVars>>

\* A conflicting key was submitted, if only in a minority fork.
MonitorConflict(k) ==
    /\ up
    /\ monitor[k] = "waiting"
    /\ StopMonitor(k)
    /\ UNCHANGED <<checks, registryVars, clientVars, chainVars>>

-----------------------------------------------------------------------------
(* The chain, and crashes of the client.                                   *)

\* The contract reverts a second submission of the same member.
Mine ==
    /\ pending # << >>
    /\ submittedKey' = IF submittedKey = NoKey THEN Head(pending) ELSE submittedKey
    /\ pending' = Tail(pending)
    /\ UNCHANGED <<active, publicKey, sent, reorgs, chainUp, registryVars,
                   clientVars, monitorVars>>

OthersSubmit ==
    /\ submittedKey # NoKey
    /\ publicKey = NoKey
    /\ publicKey' = submittedKey
    /\ UNCHANGED <<active, submittedKey, pending, sent, reorgs, chainUp,
                   registryVars, clientVars, monitorVars>>

\* The transaction is lost with the fork it was mined in.
Reorg ==
    /\ submittedKey # NoKey
    /\ reorgs < MaxReorgs
    /\ reorgs' = reorgs + 1
    /\ submittedKey' = NoKey
    /\ publicKey' = NoKey
    /\ UNCHANGED <<active, pending, sent, chainUp, registryVars, clientVars, monitorVars>>

EndKeep ==
    /\ active
    /\ active' = FALSE
    /\ UNCHANGED <<submittedKey, publicKey, pending, sent, reorgs, chainUp,
                   registryVars, clientVars, monitorVars>>

ChainFails ==
    /\ chainUp
    /\ chainUp' = FALSE
    /\ UNCHANGED <<active, submittedKey, publicKey, pending, sent, reorgs,
                   registryVars, clientVars, monitorVars>>

ChainRecovers ==
    /\ ~chainUp
    /\ chainUp' = TRUE
    /\ UNCHANGED <<active, submittedKey, publicKey, pending, sent, reorgs,
                   registryVars, clientVars, monitorVars>>

Crash ==
    /\ up
    /\ restarts < MaxRestarts
    /\ up' = FALSE
    /\ restarts' = restarts + 1
    /\ pc' = [p \in Procs |-> "idle"]
    /\ key' = [p \in Procs |-> NoKey]
    /\ expired' = [p \in Procs |-> FALSE]
    /\ keyGenKeeps' = FALSE
    /\ monitor' = [k \in Keys |-> "off"]
    /\ checks' = [k \in Keys |-> 0]
    /\ LoseMemory
    /\ UNCHANGED chainVars

\* Initialize: the signers are loaded, then the start-up check runs.
Restart(readable) ==
    /\ ~up
    /\ up' = TRUE
    /\ LoadExistingKeeps(readable)
    /\ pc' = [pc EXCEPT ![Checker] = "starting"]
    /\ UNCHANGED <<restarts, key, expired, keyGenKeeps, monitorVars, chainVars>>

-----------------------------------------------------------------------------

\* A step of goroutine p.
Step(p) ==
    \/ CheckRegistry(p)
    \/ Track(p)
    \/ CheckPublicKey(p)
    \/ CheckKeyMaterial(p)
    \/ StartAttempt(p)
    \/ GiveUp(p)
    \/ AttemptFails(p)
    \/ \E k \in Keys : AttemptSucceeds(p, k)
    \/ \E saved \in BOOLEAN : Snapshot(p, saved)
    \/ SubmitPublicKey(p)
    \/ \E saved \in BOOLEAN : Register(p, saved)

Next ==
    \/ \E p \in Procs : NotTracked(p) \/ Step(p) \/ Expire(p)
    \/ \E k \in Keys : MonitorTick(k) \/ MonitorConfirm(k) \/ MonitorConflict(k)
    \/ Mine \/ OthersSubmit \/ Reorg \/ EndKeep \/ ChainFails \/ ChainRecovers
    \/ Crash
    \/ \E readable \in BOOLEAN : Restart(readable)

Spec == Init /\ [][Next]_vars

-----------------------------------------------------------------------------
(* Properties.                                                             *)

\* A key is in a snapshot on disk before it can reach the chain, so a crash at
\* any point, or a failed registration, never leaves the keep with a key whose
\* share this member has lost.
KeyShareIsSafe ==
    sent \cup ({submittedKey, publicKey} \ {NoKey}) \subseteq snapshots

\* Key material in the registry or in the current files means that its public
\* key was submitted: what the start-up check concludes when it finds a signer
\* and no key on the chain, after a crash too.
RegisteredMeansSubmitted ==
    {mySigner, savedSigner} \subseteq sent \cup {NoKey}

\* What is in memory is on disk: a crash loses no registered signer.
RegistryIsDurable == HasSigner => savedSigner = mySigner

\* However often the event is delivered, and although NotifyKeyGenStarted checks
\* and then acts, one handler at a time generates a key for the keep; and the
\* deduplicator tracks the keep exactly that long, however the generation ends,
\* so no later event is swallowed.
OneHandlerGenerates ==
    /\ \A p, q \in Handlers : pc[p] \in Generating /\ pc[q] \in Generating => p = q
    /\ keyGenKeeps <=> \E h \in Handlers : pc[h] \in Generating

\* What the comments of the deduplicator say: the key generation of a keep is
\* not executed twice at a time.
GenerationIsNotDuplicated ==
    \A p, q \in Procs : pc[p] \in Generating /\ pc[q] \in Generating => p = q
=============================================================================
