--------------------------- MODULE TBTCExtension ---------------------------
(***************************************************************************)
(* The tBTC extension of the client: three monitors watch one deposit, and *)
(* each does what the deposit waits for when nobody else has done it by a  *)
(* deadline.                                                               *)
(*                                                                         *)
(* Every start event runs handleStartEvent in a goroutine of its own. It   *)
(* decides whether to monitor, takes the lock of the deposit and monitor,  *)
(* subscribes to the stop events and to the end of the keep, and waits for *)
(* the first of a stop event, the end of the keep and the timer. A stop    *)
(* event counts when the state has still changed some blocks later.        *)
(*                                                                         *)
(* The deposit is a contract of another repository; it is modelled as the  *)
(* extension uses it. A redemption goes through rounds: a request, the     *)
(* signature, and either the proof or a higher fee, which is a request.    *)
(***************************************************************************)
EXTENDS Integers, Sequences, FiniteSets, SequencesExt

CONSTANTS
    Handlers,       \* goroutines of start events, 1..n
    Scenarios,      \* state of the deposit when the client starts, the monitors
                    \* that are watched, and bounds on the redemption requests
                    \* and on failing calls, forks and repeated events
    maxActAttempts,
    InitialFee      \* fee of the first redemption request

ASSUME TBTCAssumption ==
    /\ {maxActAttempts, InitialFee} \subseteq Nat \ {0}
    /\ \A s \in Scenarios : /\ s.state \in {"AwaitingSignerSetup", "Funding"}
                            /\ s.monitors \subseteq {"pubkey", "signature", "proof"}
                            /\ {s.rounds, s.faults} \subseteq Nat

VARIABLES
    scenario,
    deposit,    \* [state, requests (fees), due, signed; watchers: history, the
                \* monitorings that have begun no later than the present stay in
                \* the state]
    undo,       \* the deposit before its last change, while a fork can drop it
    keepOpen,
    signer,     \* the operator is a signer of the deposit
    cache,      \* what the deposit caches know of that
    starts,     \* monitors whose start event is on its way
    handler,    \* each goroutine: [pc, name, round when it set its timer, attempt]
    stopper,    \* stop handlers of each monitoring
    locks,      \* monitoringLocks
    trouble,    \* "start": a start event led to no monitoring because a call
                \* failed; "fork": a fork dropped a change of the deposit
    tbtcFaults

chainVars == <<scenario, deposit, undo, keepOpen, signer>>
monitorVars == <<cache, handler, stopper, locks>>
tbtcVars == <<chainVars, monitorVars, starts, trouble, tbtcFaults>>

\* Each monitor: the state it is about, and the events that start and stop it.
monitorRetrievePubKey ==
    [initial |-> "AwaitingSignerSetup", start |-> "Created", stops |-> {"RegisteredPubkey"}]
monitorProvideRedemptionSignature ==
    [initial |-> "AwaitingWithdrawalSignature", start |-> "RedemptionRequested",
     stops |-> {"GotRedemptionSignature", "Redeemed"}]
monitorProvideRedemptionProof ==
    [initial |-> "AwaitingWithdrawalProof", start |-> "GotRedemptionSignature",
     stops |-> {"RedemptionRequested", "Redeemed"}]
Monitor == [pubkey |-> monitorRetrievePubKey, signature |-> monitorProvideRedemptionSignature,
            proof |-> monitorProvideRedemptionProof]

Monitors == {"pubkey", "signature", "proof"}
Initial == [n \in Monitors |-> Monitor[n].initial]
Round == Len(deposit.requests)
MaxRounds == scenario.rounds

TBTCFault == tbtcFaults < scenario.faults /\ tbtcFaults' = tbtcFaults + 1
NoTBTCFault == tbtcFaults' = tbtcFaults

Free == [pc |-> "free", name |-> "pubkey", round |-> 0, attempt |-> 1]
NoStop == [kind \in {"deposit", "keep"} |-> "none"]

\* The monitoring has subscribed to the stop events and has not returned.
Subscribed(h) == handler[h].pc \in {"setup", "watching", "acting", "confirming"}

TBTCInit ==
    /\ scenario \in Scenarios
    /\ deposit = [state |-> scenario.state, requests |-> <<>>, due |-> FALSE, signed |-> FALSE,
                  watchers |-> {}]
    /\ undo = deposit
    /\ keepOpen = TRUE
    /\ signer \in BOOLEAN
    /\ cache = "unknown"
    /\ starts = {n \in scenario.monitors : Initial[n] = deposit.state}
    /\ handler = [h \in Handlers |-> Free]
    /\ stopper = [h \in Handlers |-> NoStop]
    /\ locks = {}
    /\ trouble = {}
    /\ tbtcFaults = 0

----------------------------------------------------------------------------
(* The deposit. *)

\* Stop handlers run for the monitorings that are subscribed.
Emit(kind, names) ==
    stopper' = [h \in Handlers |->
        IF Subscribed(h) /\ handler[h].name \in names /\ stopper[h][kind] = "none"
        THEN [stopper[h] EXCEPT ![kind] = "confirming"] ELSE stopper[h]]

\* A change of the deposit, and the event that starts and stops monitors.
Change(new, event) ==
    /\ deposit' = [new EXCEPT !.watchers = {}]
    /\ undo' = deposit
    /\ starts' = starts \cup {n \in scenario.monitors : Monitor[n].start = event}
    /\ Emit("deposit", {n \in Monitors : event \in Monitor[n].stops})

registerPubkey ==
    /\ deposit.state = "AwaitingSignerSetup"
    /\ Change([deposit EXCEPT !.state = "Funding"], "RegisteredPubkey")

\* A request, or a higher fee after the signature was there for some time.
requestRedemption(fee) ==
    /\ Round < MaxRounds
    /\ \/ deposit.state = "Funding" /\ fee = InitialFee
       \/ deposit.state = "AwaitingWithdrawalProof" /\ deposit.due
          /\ fee = Last(deposit.requests) + InitialFee
    /\ Change([deposit EXCEPT !.state = "AwaitingWithdrawalSignature",
                              !.requests = Append(@, fee), !.due = FALSE, !.signed = FALSE],
              "RedemptionRequested")

provideSignature ==
    /\ deposit.state = "AwaitingWithdrawalSignature" /\ deposit.signed
    /\ Change([deposit EXCEPT !.state = "AwaitingWithdrawalProof", !.due = FALSE], "GotRedemptionSignature")

redeem ==
    /\ deposit.state \in {"AwaitingWithdrawalSignature", "AwaitingWithdrawalProof"} /\ deposit.signed
    /\ Change([deposit EXCEPT !.state = "Redeemed"], "Redeemed")

\* Other signers and the redeemer.
OthersAct ==
    /\ keepOpen
    /\ \/ registerPubkey \/ provideSignature \/ redeem
       \/ \E fee \in 1..(InitialFee * MaxRounds) : requestRedemption(fee)
    /\ NoTBTCFault /\ UNCHANGED <<scenario, keepOpen, signer, cache, handler, locks, trouble>>

\* The deadline of the state comes near, and the keep signs the digest.
TimePasses ==
    /\ deposit.state \in {Initial[n] : n \in Monitors} /\ ~deposit.due
    /\ deposit' = [deposit EXCEPT !.due = TRUE] /\ undo' = deposit'
    /\ NoTBTCFault /\ UNCHANGED <<scenario, keepOpen, signer, starts, monitorVars, trouble>>

KeepSigns ==
    /\ deposit.state = "AwaitingWithdrawalSignature" /\ ~deposit.signed
    /\ deposit' = [deposit EXCEPT !.signed = TRUE] /\ undo' = deposit'
    /\ NoTBTCFault /\ UNCHANGED <<scenario, keepOpen, signer, starts, monitorVars, trouble>>

KeepEnds ==
    /\ keepOpen
    /\ keepOpen' = FALSE
    /\ deposit' = [deposit EXCEPT !.state = "Ended"] /\ undo' = deposit'
    /\ Emit("keep", Monitors)
    /\ NoTBTCFault /\ UNCHANGED <<scenario, signer, starts, cache, handler, locks, trouble>>

\* A fork, one at most, drops the last change. Its events have been delivered all the same.
Fork ==
    /\ undo # deposit /\ "fork" \notin trouble
    /\ deposit' = undo /\ UNCHANGED undo
    /\ trouble' = trouble \cup {"fork"}
    /\ TBTCFault /\ UNCHANGED <<scenario, keepOpen, signer, starts, monitorVars>>

\* Confirmations take blocks: what they confirm is not dropped any more.
BlocksPass == undo' = deposit /\ UNCHANGED <<scenario, deposit, keepOpen, signer>>

----------------------------------------------------------------------------
(* handleStartEvent. *)

Goto(h, pc) == handler' = [handler EXCEPT ![h].pc = pc]

\* Return from the function: the deferred calls unsubscribe and release the lock.
End(h) ==
    /\ Goto(h, "ended")
    /\ locks' = locks \ (IF Subscribed(h) THEN {handler[h].name} ELSE {})

OnStartEvent(h) ==
    /\ handler[h].pc = "free" /\ \A g \in 1..(h - 1) : handler[g].pc # "free"
    /\ \E n \in starts :
          /\ handler' = [handler EXCEPT ![h].pc = "checking", ![h].name = n]
          /\ \/ starts' = starts \ {n} /\ NoTBTCFault
             \/ UNCHANGED starts /\ TBTCFault     \* the event will come again
    /\ UNCHANGED <<chainVars, cache, stopper, locks, trouble>>

shouldMonitorDeposit(h) ==
    /\ handler[h].pc = "checking"
    /\ \/ /\ cache = "notMember" \/ deposit.state # Initial[handler[h].name]
          /\ End(h) /\ NoTBTCFault /\ UNCHANGED <<cache, trouble>>
       \/ /\ cache # "notMember"              \* a call fails, nothing is cached
          /\ End(h) /\ TBTCFault /\ trouble' = trouble \cup {"start"} /\ UNCHANGED cache
       \/ /\ cache # "notMember" /\ deposit.state = Initial[handler[h].name]
          /\ IF cache = "member" \/ signer
             THEN Goto(h, "locking") /\ UNCHANGED locks /\ cache' = "member"
             ELSE End(h) /\ cache' = "notMember"
          /\ NoTBTCFault /\ UNCHANGED trouble
    /\ UNCHANGED <<chainVars, stopper, starts>>

\* The caches forget after a day.
Sweep ==
    /\ cache # "unknown" /\ cache' = "unknown"
    /\ TBTCFault /\ UNCHANGED <<chainVars, handler, stopper, locks, starts, trouble>>

\* Mutant of acquireMonitoringLock: the lock is not looked at.
acquireMonitoringLockAlways(h) ==
    locks' = locks \cup {handler[h].name} /\ Goto(h, "setup") /\ UNCHANGED <<deposit, undo>>

Watch(d, h) == [d EXCEPT !.watchers = @ \cup {h}]

acquireMonitoringLock(h) ==
    IF handler[h].name \in locks
    THEN Goto(h, "ended") /\ UNCHANGED <<locks, deposit, undo>>
    ELSE /\ locks' = locks \cup {handler[h].name}
         /\ Goto(h, "setup")
         /\ deposit' = Watch(deposit, h) /\ undo' = Watch(undo, h)

Acquire(h) ==
    /\ handler[h].pc = "locking"
    /\ acquireMonitoringLock(h)
    /\ NoTBTCFault /\ UNCHANGED <<scenario, keepOpen, signer, cache, stopper, starts, trouble>>

\* watchKeepClosed and timeoutFn: the timer is set for the round as it is now.
Setup(h) ==
    /\ handler[h].pc = "setup"
    /\ \/ /\ handler' = [handler EXCEPT ![h].pc = "watching", ![h].round = Round]
          /\ NoTBTCFault /\ UNCHANGED <<locks, trouble>>
       \/ End(h) /\ TBTCFault /\ trouble' = trouble \cup {"start"}
    /\ UNCHANGED <<chainVars, cache, stopper, starts>>

\* Mutant of waitDepositStateChangeConfirmation: the event is believed.
waitDepositStateChangeConfirmationNot(h) == TRUE

waitDepositStateChangeConfirmation(h) == deposit.state # Initial[handler[h].name]

waitKeepNotActiveConfirmation == ~keepOpen

\* A stop handler has waited for the confirmations, or could not count them.
ConfirmStop(h, kind) ==
    /\ stopper[h][kind] = "confirming"
    /\ LET confirmed == IF kind = "keep" THEN waitKeepNotActiveConfirmation
                                         ELSE waitDepositStateChangeConfirmation(h)
       IN \/ /\ stopper' = [stopper EXCEPT ![h][kind] = IF confirmed THEN "sending" ELSE "none"]
             /\ NoTBTCFault
          \/ /\ confirmed /\ stopper' = [stopper EXCEPT ![h][kind] = "none"]
             /\ TBTCFault
    /\ BlocksPass
    /\ UNCHANGED <<cache, handler, locks, starts, trouble>>

\* The channels have no buffer: a stop handler is received from while the
\* monitoring waits, and blocks for ever once it has ended.
Stop(h, kind) ==
    /\ handler[h].pc = "watching" /\ stopper[h][kind] = "sending"
    /\ stopper' = [stopper EXCEPT ![h][kind] = "none"]
    /\ End(h)
    /\ NoTBTCFault /\ UNCHANGED <<chainVars, cache, starts, trouble>>

\* A timer set in this round fires when the deadline is near; one that is left
\* from an earlier round, and the backoff of a failed attempt, at any time.
TimerFires(h) ==
    /\ handler[h].pc = "watching"
    /\ deposit.due \/ handler[h].round # Round \/ handler[h].attempt > 1
       \/ deposit.state # Initial[handler[h].name]
    /\ Goto(h, "acting")
    /\ NoTBTCFault /\ UNCHANGED <<chainVars, cache, stopper, locks, starts, trouble>>

\* Mutant of AttemptFails: attempts are not counted.
AttemptFailsUncounted(h) == Goto(h, "watching") /\ UNCHANGED locks

\* Mutant of Exhausted: one attempt less.
ExhaustedEarly(h) == handler[h].attempt >= maxActAttempts - 1

Exhausted(h) == handler[h].attempt = maxActAttempts

AttemptFails(h) ==
    IF Exhausted(h) THEN End(h)
    ELSE /\ handler' = [handler EXCEPT ![h].pc = "watching", ![h].attempt = @ + 1]
         /\ UNCHANGED locks

\* The step of the fee is that between the last two requests, or the first fee.
feeBumpStep ==
    LET r == deposit.requests
    IN IF Len(r) = 1 THEN r[1] ELSE r[Len(r)] - r[Len(r) - 1]

retrieveSignerPubkey == registerPubkey
provideRedemptionSignature == provideSignature
increaseRedemptionFee ==
    /\ deposit.requests # <<>>
    /\ requestRedemption(Last(deposit.requests) + feeBumpStep)

actFn(name) ==
    \/ name = "pubkey" /\ retrieveSignerPubkey
    \/ name = "signature" /\ provideRedemptionSignature
    \/ name = "proof" /\ increaseRedemptionFee

\* The deposit accepts the transaction of this monitor.
Accepts(name) ==
    /\ deposit.state = Initial[name]
    /\ name = "signature" => deposit.signed
    /\ name = "proof" => deposit.due /\ Round < MaxRounds /\ feeBumpStep = InitialFee

Act(h) ==
    /\ handler[h].pc = "acting"
    /\ \/ /\ actFn(handler[h].name)
          /\ Goto(h, "confirming") /\ NoTBTCFault /\ UNCHANGED <<scenario, keepOpen, signer, locks>>
       \/ /\ ~Accepts(handler[h].name)
          /\ AttemptFails(h) /\ NoTBTCFault /\ UNCHANGED <<chainVars, stopper, starts>>
       \/ /\ Accepts(handler[h].name)        \* a call or the transaction fails
          /\ AttemptFails(h) /\ TBTCFault /\ UNCHANGED <<chainVars, stopper, starts>>
    /\ UNCHANGED <<cache, trouble>>

ConfirmAct(h) ==
    /\ handler[h].pc = "confirming"
    /\ \/ IF waitDepositStateChangeConfirmation(h) THEN End(h) /\ NoTBTCFault
                                                 ELSE AttemptFails(h) /\ NoTBTCFault
       \/ AttemptFails(h) /\ TBTCFault           \* the blocks could not be counted
    /\ BlocksPass
    /\ UNCHANGED <<cache, stopper, starts, trouble>>

monitorAndAct(h) ==
    \/ OnStartEvent(h) \/ shouldMonitorDeposit(h) \/ Acquire(h) \/ Setup(h)
    \/ TimerFires(h) \/ Act(h) \/ ConfirmAct(h)
    \/ \E kind \in {"deposit", "keep"} : ConfirmStop(h, kind) \/ Stop(h, kind)

TBTCNext ==
    \/ \E h \in Handlers : monitorAndAct(h)
    \/ OthersAct \/ TimePasses \/ KeepSigns \/ KeepEnds \/ Fork \/ Sweep

TBTCSpec == TBTCInit /\ [][TBTCNext]_tbtcVars

\* Goroutines run, events arrive, deadlines pass and the keep signs; nobody
\* else has to act.
TBTCFairSpec ==
    /\ TBTCSpec
    /\ \A h \in Handlers :
          /\ WF_tbtcVars(OnStartEvent(h))
          /\ WF_tbtcVars(shouldMonitorDeposit(h) \/ Acquire(h) \/ Setup(h))
          /\ WF_tbtcVars(TimerFires(h) \/ Act(h) \/ ConfirmAct(h))
          /\ WF_tbtcVars(\E kind \in {"deposit", "keep"} : ConfirmStop(h, kind))
    /\ WF_tbtcVars(TimePasses) /\ WF_tbtcVars(KeepSigns)

----------------------------------------------------------------------------
(* Properties. *)

\* Types of the state of the extension and of the deposit it watches.
TBTCTypeOK ==
    /\ deposit.state \in {Initial[n] : n \in Monitors} \cup {"Funding", "Redeemed", "Ended"}
    /\ \A i \in 1..Round : deposit.requests[i] = i * InitialFee
    /\ cache \in {"unknown", "member", "notMember"}
    /\ starts \subseteq Monitors /\ locks \subseteq Monitors
    /\ \A h \in Handlers :
          /\ handler[h].attempt \in 1..maxActAttempts
          /\ handler[h].round \in 0..MaxRounds
    /\ tbtcFaults \in 0..scenario.faults

\* A deposit has at most one monitoring of each kind, and the lock of one that
\* has returned on any path is free for the next start event
\* (acquireMonitoringLock, deferred releaseMonitoringLock).
LockIsExact ==
    \A n \in Monitors :
        Cardinality({h \in Handlers : Subscribed(h) /\ handler[h].name = n})
            = IF n \in locks THEN 1 ELSE 0

\* A monitoring that a stop event ended was for a state the deposit has left for
\* good, though it may have come back to it since: a change that a fork took back
\* stops nothing (waitDepositStateChangeConfirmation).
StopIsConfirmed ==
    [][\A h \in Handlers : Stop(h, "deposit") =>
         \/ deposit.state # Initial[handler[h].name]
         \/ h \notin deposit.watchers]_tbtcVars

\* No monitoring lasts for ever: an action that keeps failing is given up
\* (actionAttempt in monitorAndAct).
MonitoringEnds == []<>(\A h \in Handlers : ~Subscribed(h))

\* A monitoring gets the deposit out of the state in which it waits for the
\* public key, even when some attempts fail, unless a fork undoes what others did
\* (the retries of monitorAndAct).
PubkeyIsRetrieved ==
    (\E h \in Handlers : handler[h].pc = "watching" /\ handler[h].name = "pubkey")
        ~> ("fork" \in trouble \/ deposit.state # "AwaitingSignerSetup")
=============================================================================
