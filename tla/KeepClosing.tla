---------------------------- MODULE KeepClosing ----------------------------
(***************************************************************************)
(* How a client lets go of a keep that ended: monitorKeepClosedEvents,     *)
(* monitorKeepTerminatedEvent and the check of every stored keep at        *)
(* start-up (pkg/client), over the registry, for one keep whose signer is  *)
(* registered.                                                             *)
(*                                                                         *)
(* The keep ends on the chain, and a reorganisation may undo that, and the *)
(* keep may end again, also the other way.  Events come from any fork,     *)
(* late and any number of times.  A block has an age in blocks, which is   *)
(* counted up to Confirmations; an end of that age is final.               *)
(***************************************************************************)
EXTENDS KeepRegistry

CONSTANTS
    Handlers,           \* goroutines that handle an event
    Confirmations,      \* blockConfirmations
    BitcoinConfigured,  \* the bitcoin configuration of the client is valid
    MaxRestarts,        \* bound on crashes
    MaxReorgs           \* bound on reorganisations that undo the end

ASSUME ClosingAssumption ==
    /\ Confirmations \in Nat
    /\ BitcoinConfigured \in BOOLEAN
    /\ {MaxRestarts, MaxReorgs} \subseteq Nat

Kinds == {"Closed", "Terminated"}
Ages == 0..Confirmations
Events == [kind : Kinds, age : Ages]
NoEvent == [kind |-> "None", age |-> 0]

VARIABLES
    ended,       \* chain: how the keep ended, "No" while it is active
    endAge,      \* chain: age of the block it ended in
    events,      \* events emitted, in forks too
    reorgs,
    chainErrors, \* calls to the chain node may fail
    up,          \* the client runs
    restarts,
    boot,        \* start-up goroutine of the keep
    bootAge,     \* age of the block confirmIsInactive started from
    pc,          \* handler -> where it is
    event,       \* handler -> its event
    tracked,     \* kinds the deduplicator tracks (closingKeeps, terminatingKeeps)
    monitoring,  \* kinds whose monitor waits for the end of the keep
    signing,     \* the subscription to signature requests is on
    recoveries   \* liquidation recovery transactions broadcast since the start

chainVars == <<ended, endAge, events, reorgs, chainErrors>>
bootVars == <<up, restarts, boot, bootAge>>
handlerVars == <<pc, event, tracked, monitoring, signing, recoveries>>
vars == <<registryVars, chainVars, bootVars, handlerVars>>

active == ended = "No"

TypeOK ==
    /\ RegistryTypeOK
    /\ ended \in Kinds \cup {"No"}
    /\ endAge \in Ages
    /\ events \subseteq Events
    /\ reorgs \in 0..MaxReorgs
    /\ chainErrors \in BOOLEAN
    /\ up \in BOOLEAN
    /\ restarts \in 0..MaxRestarts
    /\ boot \in {"off", "check", "confirm", "subscribe"}
    /\ bootAge \in Ages
    /\ pc \in [Handlers -> {"idle", "fresh", "untracked", "registered", "tracked",
                            "recovering", "unregistering", "sending"}]
    /\ event \in [Handlers -> Events \cup {NoEvent}]
    /\ tracked \subseteq Kinds
    /\ monitoring \subseteq Kinds
    /\ signing \in BOOLEAN
    /\ recoveries \in Nat

\* As generateKeyForKeep leaves the client: the signer is registered and the
\* events of the keep are subscribed to.
Init ==
    /\ mySigner \in Keys
    /\ savedSigner = mySigner
    /\ snapshots = {mySigner}
    /\ archived = {}
    /\ ended = "No"
    /\ endAge = 0
    /\ events = {}
    /\ reorgs = 0
    /\ chainErrors \in BOOLEAN
    /\ up = TRUE
    /\ restarts = 0
    /\ boot = "off"
    /\ bootAge = 0
    /\ pc = [h \in Handlers |-> "idle"]
    /\ event = [h \in Handlers |-> NoEvent]
    /\ tracked = {}
    /\ monitoring = Kinds
    /\ signing = TRUE
    /\ recoveries = 0

-----------------------------------------------------------------------------
(* The chain.                                                              *)

End(kind) ==
    /\ active
    /\ ended' = kind
    /\ endAge' = 0
    /\ events' = events \cup {[kind |-> kind, age |-> 0]}
    /\ UNCHANGED <<reorgs, chainErrors, registryVars, bootVars, handlerVars>>

Older(age) == IF age < Confirmations THEN age + 1 ELSE age

NewBlock ==
    /\ endAge' = Older(endAge)
    /\ events' = {[e EXCEPT !.age = Older(@)] : e \in events}
    /\ event' = [h \in Handlers |-> IF event[h] = NoEvent THEN NoEvent
                                    ELSE [event[h] EXCEPT !.age = Older(@)]]
    /\ bootAge' = Older(bootAge)
    /\ UNCHANGED <<ended, reorgs, chainErrors, registryVars, up, restarts, boot, pc,
                   tracked, monitoring, signing, recoveries>>

\* The block the keep ended in is dropped; its event may have been delivered.
Reorg ==
    /\ ~active
    /\ endAge < Confirmations
    /\ reorgs < MaxReorgs
    /\ reorgs' = reorgs + 1
    /\ ended' = "No"
    /\ UNCHANGED <<endAge, events, chainErrors, registryVars, bootVars, handlerVars>>

-----------------------------------------------------------------------------
(* An event handler.  Both kinds of events are deduplicated the same way.  *)

Goto(h, from, to) ==
    /\ up
    /\ pc[h] = from
    /\ pc' = [pc EXCEPT ![h] = to]

\* The handler goroutine ends.
Done(h, from) ==
    /\ Goto(h, from, "idle")
    /\ event' = [event EXCEPT ![h] = NoEvent]

\* The handler ends after the deferred NotifyClosingCompleted or
\* NotifyTerminatingCompleted.
Release(h, from) ==
    /\ Done(h, from)
    /\ tracked' = tracked \ {event[h].kind}

\* One attempt of the terminated handler fails: it is released, and made again
\* unless the recovery timeout has passed.
Retry(h, from) ==
    /\ tracked' = tracked \ {event[h].kind}
    /\ \/ Goto(h, from, "fresh") /\ UNCHANGED event
       \/ Done(h, from)

\* A subscription delivers an event.  The terminated handler first validates the
\* bitcoin configuration.
Deliver(h, e) ==
    /\ e \in events
    /\ e.kind \in monitoring
    /\ e.kind = "Terminated" => BitcoinConfigured
    /\ Goto(h, "idle", "fresh")
    /\ event' = [event EXCEPT ![h] = e]
    /\ UNCHANGED <<registryVars, chainVars, bootVars, tracked, monitoring, signing,
                   recoveries>>

\* has, HasSigner and add of NotifyClosingStarted or NotifyTerminatingStarted.
CheckTrack(h) ==
    /\ IF event[h].kind \in tracked
       THEN Done(h, "fresh")
       ELSE Goto(h, "fresh", "untracked") /\ UNCHANGED event
    /\ UNCHANGED <<registryVars, chainVars, bootVars, tracked, monitoring, signing,
                   recoveries>>

CheckRegistry(h) ==
    /\ IF HasSigner
       THEN Goto(h, "untracked", "registered") /\ UNCHANGED event
       ELSE Done(h, "untracked")
    /\ UNCHANGED <<registryVars, chainVars, bootVars, tracked, monitoring, signing,
                   recoveries>>

Track(h) ==
    /\ IF event[h].kind \in tracked
       THEN Done(h, "registered")
       ELSE Goto(h, "registered", "tracked") /\ UNCHANGED event
    /\ tracked' = tracked \cup {event[h].kind}
    /\ UNCHANGED <<registryVars, chainVars, bootVars, monitoring, signing, recoveries>>

\* Mutant of Confirmed: the client does not wait for confirmations.
Unconfirmed(age) == age \in Ages

\* WaitForBlockConfirmations returns when the block has them.
Confirmed(age) == age = Confirmations

\* What the closed handler does with the state of the keep it read.
ConfirmClosed(h) ==
    /\ event[h].kind = "Closed"
    /\ IF active
       THEN Release(h, "tracked")
       ELSE Goto(h, "tracked", "unregistering") /\ UNCHANGED <<event, tracked>>

ConfirmTerminated(h) ==
    /\ event[h].kind = "Terminated"
    /\ IF active
       THEN Release(h, "tracked")
       ELSE Goto(h, "tracked", "recovering") /\ UNCHANGED <<event, tracked>>

\* IsActive fails: the closed handler gives up, the terminated one tries again.
ConfirmFails(h) ==
    /\ chainErrors
    /\ \/ event[h].kind = "Closed" /\ Release(h, "tracked")
       \/ event[h].kind = "Terminated" /\ Retry(h, "tracked")

Confirm(h) ==
    /\ Confirmed(event[h].age)
    /\ ConfirmClosed(h) \/ ConfirmTerminated(h) \/ ConfirmFails(h)
    /\ UNCHANGED <<registryVars, chainVars, bootVars, monitoring, signing, recoveries>>

\* Mutant of RecoverySucceeds: the signer is not looked up again.
RecoverySucceedsUnchecked(h) ==
    /\ Goto(h, "recovering", "unregistering")
    /\ recoveries' = recoveries + 1
    /\ UNCHANGED <<event, tracked>>

\* handleLiquidationRecovery: the members build, sign and broadcast the
\* transaction.  It needs the signer.
RecoverySucceeds(h) ==
    /\ HasSigner
    /\ Goto(h, "recovering", "unregistering")
    /\ recoveries' = recoveries + 1
    /\ UNCHANGED <<event, tracked>>

\* A failed step is retried, unless the deposit was never funded.
RecoveryFails(h) ==
    /\ Retry(h, "recovering")
    /\ UNCHANGED recoveries

RecoveryNotFunded(h) ==
    /\ Release(h, "recovering")
    /\ UNCHANGED recoveries

Recover(h) ==
    /\ RecoverySucceeds(h) \/ RecoveryFails(h) \/ RecoveryNotFunded(h)
    /\ UNCHANGED <<registryVars, chainVars, bootVars, monitoring, signing>>

Unregister(h, moved) ==
    /\ Goto(h, "unregistering", "sending")
    /\ UnregisterKeep(moved)
    /\ UNCHANGED <<chainVars, bootVars, event, tracked, monitoring, signing, recoveries>>

\* keepClosed <- event, keepTerminated <- event: the channel has no buffer.  The
\* monitor receives once and unsubscribes; a handler that comes later blocks.
Notify(h) ==
    /\ event[h].kind \in monitoring
    /\ Release(h, "sending")
    /\ monitoring' = monitoring \ {event[h].kind}
    /\ signing' = FALSE
    /\ UNCHANGED <<registryVars, chainVars, bootVars, recoveries>>

-----------------------------------------------------------------------------
(* Crash and start-up.                                                     *)

Crash ==
    /\ up
    /\ restarts < MaxRestarts
    /\ up' = FALSE
    /\ restarts' = restarts + 1
    /\ boot' = "off"
    /\ pc' = [h \in Handlers |-> "idle"]
    /\ event' = [h \in Handlers |-> NoEvent]
    /\ tracked' = {}
    /\ monitoring' = {}
    /\ signing' = FALSE
    /\ recoveries' = 0
    /\ LoseMemory
    /\ UNCHANGED <<bootAge, chainVars>>

\* A goroutine is started for the keep when its signer was loaded.
Restart(readable) ==
    /\ ~up
    /\ up' = TRUE
    /\ LoadExistingKeeps(readable)
    /\ boot' = IF mySigner' # NoKey THEN "check" ELSE "off"
    /\ UNCHANGED <<restarts, bootAge, chainVars, handlerVars>>

\* IsActive; an error ends the goroutine without a subscription.
BootCheck ==
    /\ boot = "check"
    /\ \/ boot' = IF active THEN "subscribe" ELSE "confirm"
       \/ chainErrors /\ boot' = "off"
    /\ bootAge' = 0
    /\ UNCHANGED <<registryVars, up, restarts, chainVars, handlerVars>>

\* Mutant of BootConfirm: the keep is not unregistered.
BootConfirmKeeps(moved) ==
    /\ boot = "confirm"
    /\ Confirmed(bootAge)
    /\ \/ ~active /\ boot' = "off"
       \/ (active \/ chainErrors) /\ boot' = "subscribe"
    /\ UNCHANGED <<registryVars, up, restarts, bootAge, chainVars, handlerVars>>

\* confirmIsInactive; an error counts as a keep that is still active.
BootConfirm(moved) ==
    /\ boot = "confirm"
    /\ Confirmed(bootAge)
    /\ \/ /\ ~active
          /\ boot' = "off"
          /\ UnregisterKeep(moved)
       \/ /\ active \/ chainErrors
          /\ boot' = "subscribe"
          /\ UNCHANGED registryVars
    /\ UNCHANGED <<up, restarts, bootAge, chainVars, handlerVars>>

BootSubscribe ==
    /\ boot = "subscribe"
    /\ boot' = "off"
    /\ monitoring' = IF HasSigner THEN Kinds ELSE monitoring
    /\ signing' = (HasSigner \/ signing)
    /\ UNCHANGED <<registryVars, up, restarts, bootAge, chainVars, pc, event,
                   tracked, recoveries>>

-----------------------------------------------------------------------------

Step(h) ==
    \/ CheckTrack(h)
    \/ CheckRegistry(h)
    \/ Track(h)
    \/ Confirm(h)
    \/ Recover(h)
    \/ \E moved \in BOOLEAN : Unregister(h, moved)
    \/ Notify(h)

BootStep == BootCheck \/ (\E moved \in BOOLEAN : BootConfirm(moved)) \/ BootSubscribe

Next ==
    \/ \E kind \in Kinds : End(kind)
    \/ NewBlock
    \/ Reorg
    \/ \E h \in Handlers, e \in events : Deliver(h, e)
    \/ \E h \in Handlers : Step(h)
    \/ BootStep
    \/ Crash
    \/ \E readable \in BOOLEAN : Restart(readable)

Spec == Init /\ [][Next]_vars

\* Blocks are mined, goroutines run, a stopped client is started again, and a
\* subscription fetches past events at every tick.  Nothing is assumed of a behaviour
\* in which calls may fail.
FairSpec ==
    /\ Spec
    /\ WF_vars(~chainErrors /\ NewBlock)
    /\ WF_vars(~chainErrors /\ BootStep)
    /\ WF_vars(~chainErrors /\ Restart(TRUE))
    /\ \A h \in Handlers : WF_vars(~chainErrors /\ Step(h))
    /\ \A kind \in Kinds :
         WF_vars(\E h \in Handlers : \E e \in events :
                    ~chainErrors /\ e.kind = kind /\ Deliver(h, e))

-----------------------------------------------------------------------------
(* Properties.                                                             *)

\* The client gives up the signer of a keep only when the keep has ended for
\* good: waiting for confirmations protects it from the events of one dropped
\* fork, on the event paths and at start-up.
ArchivedHasEnded == archived # {} => ~active

\* Within one run of the client, the recovery transaction is made at most once,
\* although a late duplicate of the event can get past the deduplicator after
\* the first handler has finished.
RecoveredOnce == recoveries <= 1

\* Once a keep is closed for good, the client unregisters its signer, however
\* many times it crashes on the way.  (After a dropped fork, retries of a recovery
\* that cannot succeed may hold all of the model's handlers, and a failing call
\* may end the handler or the start-up check for good.)
ClosedIsUnregistered ==
    (~chainErrors /\ reorgs = 0 /\ ended = "Closed" /\ endAge = Confirmations)
        ~> (up /\ ~HasSigner)
=============================================================================
