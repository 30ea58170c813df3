------------------------- MODULE KeepClosingProofs -------------------------
(***************************************************************************)
(* Proofs about KeepClosing for any number of handlers, crashes, dropped   *)
(* forks and confirmations: types, that a recovery transaction is made     *)
(* once, and that one dropped fork never costs the client a live signer.   *)
(***************************************************************************)
EXTENDS KeepClosing, TLAPS

States == {"idle", "fresh", "untracked", "registered", "tracked", "recovering",
           "unregistering", "sending"}

\* A handler in one of these states has the deduplicator's entry of its kind.
Busy == {"tracked", "recovering", "unregistering", "sending"}

-----------------------------------------------------------------------------
(* The inductive invariant.                                                *)

HasEvent == \A h \in Handlers : pc[h] # "idle" => event[h] # NoEvent

\* The deduplicator: one busy handler per kind of event, and the kind is tracked.
OneBusy ==
    /\ \A h \in Handlers : pc[h] \in Busy => event[h].kind \in tracked
    /\ \A g, h \in Handlers :
         pc[g] \in Busy /\ pc[h] \in Busy /\ event[g].kind = event[h].kind => g = h
    /\ \A h \in Handlers : pc[h] = "recovering" => event[h].kind = "Terminated"

\* After the recovery, the signer is gone or its handler is about to remove it.
RecoveryUsesSigner ==
    /\ recoveries \in {0, 1}
    /\ recoveries = 1 /\ HasSigner =>
         \E h \in Handlers : pc[h] = "unregistering" /\ event[h].kind = "Terminated"

DownIsIdle == ~up => recoveries = 0 /\ boot = "off" /\ \A h \in Handlers : pc[h] = "idle"

IInv == TypeOK /\ HasEvent /\ OneBusy /\ RecoveryUsesSigner /\ DownIsIdle

\* While at most one fork is dropped, an end in this state is never undone.
Final == ~active /\ (endAge = Confirmations \/ reorgs # 0)

\* Before a fork is dropped, nothing counts more blocks than the chain has on top
\* of the end of the keep.
BeforeFork ==
    /\ \A e \in events : ~active /\ e.age <= endAge
    /\ \A h \in Handlers : event[h] # NoEvent => ~active /\ event[h].age <= endAge
    /\ boot = "confirm" => ~active /\ bootAge <= endAge

Founded ==
    /\ \A h \in Handlers : pc[h] \in Busy \ {"tracked"} => Final
    /\ archived # {} => Final

ForkInv ==
    /\ reorgs = 0 => BeforeFork
    /\ reorgs <= 1 => Founded

LEMMA BoundsAreNat ==
    MaxRestarts \in Nat /\ MaxReorgs \in Nat /\ Confirmations \in Nat
  BY ClosingAssumption

LEMMA AgeZero == 0 \in Ages
  BY ClosingAssumption DEF Ages

LEMMA EventHasKind ==
    /\ NoEvent \notin Events
    /\ \A e \in Events : e.kind \in Kinds /\ e.age \in Ages
    /\ NoEvent.kind \notin Kinds
  BY DEF Events, NoEvent, Kinds

LEMMA OlderAge ==
    /\ \A a \in Ages : Older(a) \in Ages
    /\ \A a, b \in Ages : a <= b => Older(a) <= Older(b)
    /\ Older(Confirmations) = Confirmations
  BY ClosingAssumption DEF Older, Ages

-----------------------------------------------------------------------------
(* What one step of a handler does to the deduplicator and the recovery.   *)

\* Handler h is now in state `to` with event `ev`.
Moved(h, to, ev) ==
    /\ pc' = [pc EXCEPT ![h] = to]
    /\ event' = [event EXCEPT ![h] = ev]

LEMMA MovedIs ==
    ASSUME TypeOK, NEW h \in Handlers, NEW to \in States, NEW ev \in Events \cup {NoEvent},
           Moved(h, to, ev)
    PROVE  /\ \A g \in Handlers : pc'[g] = IF g = h THEN to ELSE pc[g]
           /\ \A g \in Handlers : event'[g] = IF g = h THEN ev ELSE event[g]
           /\ pc' \in [Handlers -> States]
           /\ event' \in [Handlers -> Events \cup {NoEvent}]
  BY DEF TypeOK, Moved, States

\* Not busy before and after.
LEMMA MoveIdle ==
    ASSUME TypeOK, OneBusy, NEW h \in Handlers, NEW to \in States \ Busy,
           NEW ev \in Events \cup {NoEvent}, Moved(h, to, ev),
           tracked' = tracked
    PROVE  OneBusy'
<1>1. \A g \in Handlers : pc'[g] \in Busy => g # h /\ pc'[g] = pc[g] /\ event'[g] = event[g]
  BY MovedIs
<1>2. "recovering" \in Busy
  BY DEF Busy
<1> QED
  BY <1>1, <1>2 DEF OneBusy

\* The first handler of its kind becomes busy.
LEMMA MoveIn ==
    ASSUME TypeOK, OneBusy, NEW h \in Handlers, Moved(h, "tracked", event[h]),
           event[h].kind \notin tracked,
           tracked' = tracked \cup {event[h].kind}
    PROVE  OneBusy'
<1>0. event[h] \in Events \cup {NoEvent} /\ "tracked" \in States
  BY DEF TypeOK, States
<1>1. \A g \in Handlers : event'[g] = event[g] /\ (g # h => pc'[g] = pc[g])
  BY <1>0, MovedIs
<1>2. pc'[h] = "tracked"
  BY <1>0, MovedIs
<1>3. \A g \in Handlers : g # h /\ pc[g] \in Busy => event[g].kind # event[h].kind
  BY DEF OneBusy
<1> QED
  BY <1>1, <1>2, <1>3 DEF OneBusy

\* A busy handler goes on.
LEMMA MoveOn ==
    ASSUME TypeOK, OneBusy, NEW h \in Handlers, NEW to \in Busy, Moved(h, to, event[h]),
           pc[h] \in Busy, tracked' = tracked,
           to = "recovering" => event[h].kind = "Terminated"
    PROVE  OneBusy'
<1>0. event[h] \in Events \cup {NoEvent} /\ to \in States
  BY DEF TypeOK, States, Busy
<1>1. \A g \in Handlers : event'[g] = event[g] /\ (g # h => pc'[g] = pc[g])
  BY <1>0, MovedIs
<1>2. pc'[h] = to
  BY <1>0, MovedIs
<1>3. \A g \in Handlers : pc'[g] \in Busy <=> pc[g] \in Busy
  BY <1>1, <1>2
<1> QED
  BY <1>1, <1>2, <1>3 DEF OneBusy

\* A busy handler is released.
LEMMA MoveOut ==
    ASSUME TypeOK, OneBusy, NEW h \in Handlers, NEW to \in States \ Busy,
           NEW ev \in Events \cup {NoEvent}, Moved(h, to, ev),
           pc[h] \in Busy,
           tracked' = tracked \ {event[h].kind}
    PROVE  OneBusy'
<1>1. \A g \in Handlers : pc'[g] \in Busy => g # h /\ pc'[g] = pc[g] /\ event'[g] = event[g]
  BY MovedIs
<1>2. \A g \in Handlers : g # h /\ pc[g] \in Busy => event[g].kind # event[h].kind
  BY DEF OneBusy
<1>3. "recovering" \in Busy
  BY DEF Busy
<1> QED
  BY <1>1, <1>2, <1>3 DEF OneBusy

\* What most steps of a handler leave alone.
Framed == UNCHANGED <<registryVars, chainVars, bootVars, recoveries>>

\* A handler that is not about to unregister the signer may move anywhere.
LEMMA MoveRest ==
    ASSUME IInv, NEW h \in Handlers, NEW to \in States, NEW ev \in Events \cup {NoEvent},
           Moved(h, to, ev), pc[h] # "unregistering", up,
           to # "idle" => ev # NoEvent,
           Framed, tracked' \subseteq Kinds, monitoring' \subseteq Kinds, signing' \in BOOLEAN,
           OneBusy'
    PROVE  IInv'
<1>1. \A g \in Handlers : /\ pc'[g] = IF g = h THEN to ELSE pc[g]
                          /\ event'[g] = IF g = h THEN ev ELSE event[g]
  BY MovedIs DEF IInv
<1>2. TypeOK'
  BY MovedIs DEF IInv, TypeOK, RegistryTypeOK, States, Framed, registryVars, diskVars,
                 chainVars, bootVars
<1>3. HasEvent'
  BY <1>1 DEF IInv, HasEvent
<1>4. UNCHANGED <<mySigner, recoveries, up, boot>>
  BY DEF Framed, registryVars, bootVars
<1>5. RecoveryUsesSigner'
  <2>1. HasSigner' = HasSigner
    BY <1>4 DEF HasSigner
  <2> QED
    BY <1>1, <1>4, <2>1 DEF IInv, RecoveryUsesSigner
<1>6. DownIsIdle'
  BY <1>4 DEF DownIsIdle
<1> QED
  BY <1>2, <1>3, <1>5, <1>6 DEF IInv

LEMMA GotoMoves ==
    ASSUME TypeOK, NEW h \in Handlers, NEW from, NEW to \in States, Goto(h, from, to)
    PROVE  /\ up /\ pc[h] = from
           /\ event' = event => Moved(h, to, event[h]) /\ event[h] \in Events \cup {NoEvent}
  BY DEF TypeOK, Goto, Moved

LEMMA DoneMoves ==
    ASSUME TypeOK, NEW h \in Handlers, NEW from, Done(h, from)
    PROVE  up /\ pc[h] = from /\ Moved(h, "idle", NoEvent)
  BY DEF TypeOK, Done, Goto, Moved

LEMMA StatesOfHandler ==
    /\ {"idle", "fresh", "untracked", "registered"} \subseteq States \ Busy
    /\ Busy \subseteq States
  BY DEF States, Busy

\* A handler's event is an event as long as the handler runs.
LEMMA KindOfHandler ==
    ASSUME IInv, NEW h \in Handlers, pc[h] # "idle"
    PROVE  event[h] \in Events /\ event[h] # NoEvent /\ event[h].kind \in Kinds
  BY EventHasKind DEF IInv, TypeOK, HasEvent

-----------------------------------------------------------------------------
(* The steps of a handler preserve the invariant.                          *)

LEMMA DeliverStep ==
    ASSUME IInv, NEW h \in Handlers, NEW e \in events, Deliver(h, e)
    PROVE  IInv'
<1>1. e \in Events /\ e # NoEvent
  BY EventHasKind DEF IInv, TypeOK
<1>2. up /\ pc[h] = "idle" /\ Moved(h, "fresh", e)
  BY DEF Deliver, Goto, Moved
<1>3. Framed /\ UNCHANGED <<tracked, monitoring, signing>>
  BY DEF Deliver, Framed
<1>4. OneBusy'
  BY <1>1, <1>2, <1>3, MoveIdle, StatesOfHandler DEF IInv
<1>5. tracked' \subseteq Kinds /\ monitoring' \subseteq Kinds /\ signing' \in BOOLEAN
  BY <1>3 DEF IInv, TypeOK
<1> QED
  BY <1>1, <1>2, <1>3, <1>4, <1>5, MoveRest, StatesOfHandler

LEMMA CheckStep ==
    ASSUME IInv, NEW h \in Handlers, CheckTrack(h) \/ CheckRegistry(h)
    PROVE  IInv'
<1>1. TypeOK
  BY DEF IInv
<1>2. Framed /\ UNCHANGED <<tracked, monitoring, signing>>
  BY DEF CheckTrack, CheckRegistry, Framed
<1>3. /\ up /\ pc[h] \in {"fresh", "untracked"}
      /\ \/ Moved(h, "idle", NoEvent)
         \/ Moved(h, "untracked", event[h])
         \/ Moved(h, "registered", event[h])
  BY <1>1, GotoMoves, DoneMoves, StatesOfHandler DEF CheckTrack, CheckRegistry
<1>4. event[h] \in Events /\ event[h] # NoEvent
  BY <1>3, KindOfHandler
<1>5. PICK to \in States \ Busy, ev \in Events \cup {NoEvent} :
        Moved(h, to, ev) /\ (to # "idle" => ev # NoEvent)
  BY <1>3, <1>4, StatesOfHandler
<1>6. OneBusy'
  BY <1>1, <1>2, <1>5, MoveIdle DEF IInv
<1>7. tracked' \subseteq Kinds /\ monitoring' \subseteq Kinds /\ signing' \in BOOLEAN
  BY <1>2 DEF IInv, TypeOK
<1> QED
  BY <1>2, <1>3, <1>5, <1>6, <1>7, MoveRest

LEMMA TrackStep ==
    ASSUME IInv, NEW h \in Handlers, Track(h)
    PROVE  IInv'
<1>1. TypeOK /\ OneBusy
  BY DEF IInv
<1>2. Framed /\ UNCHANGED <<monitoring, signing>>
  BY DEF Track, Framed
<1>3. up /\ pc[h] = "registered"
  BY <1>1, GotoMoves, DoneMoves, StatesOfHandler DEF Track, Busy
<1>4. event[h] \in Events /\ event[h] # NoEvent /\ event[h].kind \in Kinds
  BY <1>3, KindOfHandler
<1>5. tracked' \subseteq Kinds /\ monitoring' \subseteq Kinds /\ signing' \in BOOLEAN
  BY <1>2, <1>4 DEF IInv, TypeOK, Track
<1>6. CASE event[h].kind \in tracked
  <2>1. Moved(h, "idle", NoEvent) /\ tracked' = tracked
    BY <1>1, <1>6, DoneMoves DEF Track
  <2>2. OneBusy'
    BY <1>1, <2>1, MoveIdle, StatesOfHandler
  <2> QED
    BY <1>2, <1>3, <1>5, <2>1, <2>2, MoveRest, StatesOfHandler
<1>7. CASE event[h].kind \notin tracked
  <2>1. Moved(h, "tracked", event[h]) /\ tracked' = tracked \cup {event[h].kind}
    BY <1>1, <1>7, GotoMoves, StatesOfHandler DEF Track, Busy
  <2>2. OneBusy'
    BY <1>1, <1>7, <2>1, MoveIn
  <2> QED
    BY <1>2, <1>3, <1>4, <1>5, <2>1, <2>2, MoveRest, StatesOfHandler DEF Busy
<1> QED
  BY <1>6, <1>7

\* A busy handler is released and ends or starts over.
LEMMA ReleaseStep ==
    ASSUME IInv, NEW h \in Handlers, NEW from \in Busy \ {"unregistering"},
           Release(h, from) \/ Retry(h, from),
           Framed, monitoring' \subseteq Kinds, signing' \in BOOLEAN
    PROVE  IInv'
<1>1. TypeOK /\ OneBusy
  BY DEF IInv
<1>2. /\ up /\ pc[h] = from
      /\ Moved(h, "idle", NoEvent) \/ Moved(h, "fresh", event[h])
      /\ tracked' = tracked \ {event[h].kind}
  BY <1>1, GotoMoves, DoneMoves, StatesOfHandler DEF Release, Retry
<1>3. event[h] \in Events /\ event[h] # NoEvent
  BY <1>2, KindOfHandler DEF Busy
<1>4. PICK to \in States \ Busy, ev \in Events \cup {NoEvent} :
        Moved(h, to, ev) /\ (to # "idle" => ev # NoEvent)
  BY <1>2, <1>3, StatesOfHandler
<1>5. OneBusy'
  BY <1>1, <1>2, <1>4, MoveOut
<1>6. tracked' \subseteq Kinds
  BY <1>2 DEF IInv, TypeOK
<1> QED
  BY <1>2, <1>4, <1>5, <1>6, MoveRest

LEMMA ConfirmStep ==
    ASSUME IInv, NEW h \in Handlers, Confirm(h)
    PROVE  IInv'
<1>1. TypeOK /\ OneBusy
  BY DEF IInv
<1>2. Framed /\ UNCHANGED <<monitoring, signing>>
  BY DEF Confirm, Framed
<1>3. monitoring' \subseteq Kinds /\ signing' \in BOOLEAN
  BY <1>2 DEF IInv, TypeOK
<1>4. CASE Release(h, "tracked") \/ Retry(h, "tracked")
  BY <1>2, <1>3, <1>4, ReleaseStep DEF Busy
<1>5. ASSUME NEW to \in {"unregistering", "recovering"}, Goto(h, "tracked", to),
             UNCHANGED <<event, tracked>>,
             to = "recovering" => event[h].kind = "Terminated"
      PROVE  IInv'
  <2>1. up /\ pc[h] = "tracked" /\ Moved(h, to, event[h]) /\ to \in States /\ to \in Busy
    BY <1>1, <1>5, GotoMoves, StatesOfHandler DEF Busy
  <2>2. event[h] \in Events /\ event[h] # NoEvent
    BY <2>1, KindOfHandler
  <2>3. OneBusy'
    BY <1>1, <1>5, <2>1, MoveOn DEF Busy
  <2>4. tracked' \subseteq Kinds
    BY <1>5 DEF IInv, TypeOK
  <2> QED
    BY <1>2, <1>3, <2>1, <2>2, <2>3, <2>4, MoveRest
<1> QED
  BY <1>4, <1>5 DEF Confirm, ConfirmClosed, ConfirmTerminated, ConfirmFails

\* The only handler that recovers is the one of the kind: a second recovery would
\* need the signer that the first one is about to unregister.
LEMMA RecoverStep ==
    ASSUME IInv, NEW h \in Handlers, Recover(h)
    PROVE  IInv'
<1>1. TypeOK /\ OneBusy
  BY DEF IInv
<1>2. UNCHANGED <<registryVars, chainVars, bootVars, monitoring, signing>>
  BY DEF Recover
<1>3. monitoring' \subseteq Kinds /\ signing' \in BOOLEAN
  BY <1>2 DEF IInv, TypeOK
<1>4. CASE RecoveryFails(h) \/ RecoveryNotFunded(h)
  BY <1>2, <1>3, <1>4, ReleaseStep DEF RecoveryFails, RecoveryNotFunded, Framed, Busy
<1>5. CASE RecoverySucceeds(h)
  <2>1. /\ up /\ pc[h] = "recovering" /\ Moved(h, "unregistering", event[h])
        /\ "unregistering" \in States
        /\ UNCHANGED <<event, tracked>>
    BY <1>1, <1>5, GotoMoves, StatesOfHandler DEF RecoverySucceeds, Busy
  <2>2. event[h] \in Events /\ event[h] # NoEvent /\ event[h].kind = "Terminated"
    BY <2>1, KindOfHandler DEF IInv, OneBusy
  <2>3. OneBusy'
    BY <1>1, <2>1, MoveOn DEF Busy
  <2>4. \A g \in Handlers : /\ pc'[g] = IF g = h THEN "unregistering" ELSE pc[g]
                            /\ event'[g] = event[g]
    BY <1>1, <2>1, <2>2, MovedIs
  <2>5. recoveries = 0 /\ recoveries' = 1
    <3>1. ASSUME recoveries = 1 PROVE FALSE
      <4>1. PICK g \in Handlers : pc[g] = "unregistering" /\ event[g].kind = "Terminated"
        BY <1>5, <3>1 DEF RecoverySucceeds, IInv, RecoveryUsesSigner
      <4>2. g = h
        BY <2>1, <2>2, <4>1 DEF IInv, OneBusy, Busy
      <4> QED
        BY <2>1, <4>1, <4>2
    <3> QED
      BY <1>5, <3>1 DEF RecoverySucceeds, IInv, RecoveryUsesSigner
  <2>6. TypeOK'
    BY <1>1, <1>2, <2>1, <2>2, <2>5, MovedIs DEF TypeOK, RegistryTypeOK, States, registryVars,
       diskVars, chainVars, bootVars
  <2>7. HasEvent' /\ RecoveryUsesSigner'
    BY <2>2, <2>4, <2>5 DEF IInv, HasEvent, RecoveryUsesSigner
  <2>8. DownIsIdle'
    BY <1>2, <2>1 DEF DownIsIdle, bootVars
  <2> QED
    BY <2>3, <2>6, <2>7, <2>8 DEF IInv
<1> QED
  BY <1>4, <1>5 DEF Recover

LEMMA UnregisterType ==
    ASSUME RegistryTypeOK, NEW moved \in BOOLEAN, UnregisterKeep(moved)
    PROVE  RegistryTypeOK' /\ ~HasSigner'
  BY DEF RegistryTypeOK, UnregisterKeep, archive, HasSigner

LEMMA UnregisterStep ==
    ASSUME IInv, NEW h \in Handlers, NEW moved \in BOOLEAN, Unregister(h, moved)
    PROVE  IInv'
<1>1. TypeOK /\ OneBusy /\ RegistryTypeOK
  BY DEF IInv, TypeOK
<1>2. /\ UNCHANGED <<chainVars, bootVars, event, tracked, monitoring, signing, recoveries>>
      /\ RegistryTypeOK' /\ ~HasSigner'
  BY <1>1, UnregisterType DEF Unregister
<1>3. up /\ pc[h] = "unregistering" /\ Moved(h, "sending", event[h]) /\ "sending" \in States
  BY <1>1, <1>2, GotoMoves, StatesOfHandler DEF Unregister, Busy
<1>4. event[h] \in Events /\ event[h] # NoEvent
  BY <1>3, KindOfHandler
<1>5. OneBusy'
  BY <1>1, <1>2, <1>3, MoveOn DEF Busy
<1>6. TypeOK'
  BY <1>1, <1>2, <1>3, <1>4, MovedIs DEF TypeOK, States, chainVars, bootVars
<1>7. HasEvent'
  BY <1>1, <1>3, <1>4, MovedIs DEF IInv, HasEvent
<1>8. RecoveryUsesSigner'
  BY <1>2 DEF IInv, RecoveryUsesSigner
<1>9. DownIsIdle'
  BY <1>2, <1>3 DEF DownIsIdle, bootVars
<1> QED
  BY <1>5, <1>6, <1>7, <1>8, <1>9 DEF IInv

LEMMA NotifyStep ==
    ASSUME IInv, NEW h \in Handlers, Notify(h)
    PROVE  IInv'
<1>1. Framed /\ monitoring' \subseteq Kinds /\ signing' \in BOOLEAN
  BY DEF Notify, Framed, IInv, TypeOK
<1>2. Release(h, "sending")
  BY DEF Notify
<1> QED
  BY <1>1, <1>2, ReleaseStep DEF Busy

-----------------------------------------------------------------------------
(* The chain, start-up and crashes.                                        *)

\* Steps that leave the handlers where they are and lose no recovery.
LEMMA HandlersStay ==
    ASSUME IInv, TypeOK', UNCHANGED <<pc, tracked, recoveries, up>>,
           \A h \in Handlers : /\ event[h] # NoEvent => event'[h] # NoEvent
                               /\ event'[h].kind = event[h].kind,
           HasSigner' => HasSigner,
           ~up => boot' = "off"
    PROVE  IInv'
<1>1. HasEvent' /\ OneBusy' /\ DownIsIdle'
  BY DEF IInv, HasEvent, OneBusy, DownIsIdle
<1>2. RecoveryUsesSigner'
  BY DEF IInv, RecoveryUsesSigner
<1> QED
  BY <1>1, <1>2 DEF IInv

LEMMA ChainStep ==
    ASSUME IInv, (\E kind \in Kinds : End(kind)) \/ Reorg
    PROVE  IInv'
<1>1. UNCHANGED <<registryVars, bootVars, handlerVars>>
  BY DEF End, Reorg
<1>2. ended' \in Kinds \cup {"No"} /\ endAge' \in Ages /\ chainErrors' \in BOOLEAN
  BY AgeZero DEF IInv, TypeOK, End, Reorg
<1>3. events' \subseteq Events
  BY AgeZero DEF IInv, TypeOK, End, Reorg, Events
<1>4. reorgs' \in 0..MaxReorgs
  BY BoundsAreNat DEF IInv, TypeOK, End, Reorg
<1>5. TypeOK'
  BY <1>1, <1>2, <1>3, <1>4 DEF IInv, TypeOK, RegistryTypeOK, registryVars, diskVars,
     bootVars, handlerVars
<1> QED
  BY <1>1, <1>5, HandlersStay DEF registryVars, bootVars, handlerVars, HasSigner, IInv,
     DownIsIdle

\* Growing old keeps the kind of an event.
LEMMA OlderEvent ==
    ASSUME NEW e \in Events
    PROVE  /\ [e EXCEPT !.age = Older(@)] \in Events
           /\ [e EXCEPT !.age = Older(@)].kind = e.kind
           /\ [e EXCEPT !.age = Older(@)].age = Older(e.age)
<1>1. e.age \in Ages
  BY DEF Events
<1>2. Older(e.age) \in Ages
  BY <1>1, OlderAge
<1> QED
  BY <1>2 DEF Events

LEMMA OlderHandlerEvent ==
    ASSUME TypeOK, NewBlock, NEW h \in Handlers
    PROVE  /\ event[h] = NoEvent => event'[h] = NoEvent
           /\ event[h] # NoEvent => /\ event'[h] \in Events /\ event'[h] # NoEvent
                                    /\ event'[h].kind = event[h].kind
                                    /\ event'[h].age = Older(event[h].age)
<1>1. event'[h] = IF event[h] = NoEvent THEN NoEvent ELSE [event[h] EXCEPT !.age = Older(@)]
  BY DEF NewBlock
<1>2. event[h] \in Events \cup {NoEvent}
  BY DEF TypeOK
<1> QED
  BY <1>1, <1>2, OlderEvent, EventHasKind

LEMMA NewBlockStep ==
    ASSUME IInv, NewBlock
    PROVE  IInv'
<1>1. TypeOK
  BY DEF IInv
<1>2. event' \in [Handlers -> Events \cup {NoEvent}]
  <2>1. DOMAIN event' = Handlers /\ event' = [h \in Handlers |-> event'[h]]
    BY DEF NewBlock
  <2>2. \A h \in Handlers : event'[h] \in Events \cup {NoEvent}
    BY <1>1, OlderHandlerEvent
  <2> QED
    BY <2>1, <2>2
<1>3. events' \subseteq Events
  BY <1>1, OlderEvent DEF TypeOK, NewBlock
<1>4. endAge' \in Ages /\ bootAge' \in Ages
  BY <1>1, OlderAge DEF TypeOK, NewBlock
<1>5. TypeOK'
  BY <1>1, <1>2, <1>3, <1>4 DEF NewBlock, TypeOK, RegistryTypeOK, registryVars, diskVars
<1>6. \A h \in Handlers : /\ event[h] # NoEvent => event'[h] # NoEvent
                          /\ event'[h].kind = event[h].kind
  BY <1>1, OlderHandlerEvent
<1> QED
  BY <1>5, <1>6, HandlersStay DEF NewBlock, registryVars, HasSigner, IInv, DownIsIdle

LEMMA BootStepInv ==
    ASSUME IInv, BootStep
    PROVE  IInv'
<1>0. TypeOK /\ RegistryTypeOK /\ up
  BY DEF IInv, TypeOK, DownIsIdle, BootStep, BootCheck, BootConfirm, BootSubscribe
<1>1. /\ UNCHANGED <<pc, event, tracked, recoveries, up, restarts, chainVars>>
      /\ boot' \in {"off", "check", "confirm", "subscribe"}
      /\ bootAge' \in Ages
  BY <1>0, AgeZero DEF BootStep, BootCheck, BootConfirm, BootSubscribe, handlerVars, TypeOK
<1>2. RegistryTypeOK' /\ (HasSigner' => HasSigner)
  BY <1>0, UnregisterType DEF BootStep, BootCheck, BootConfirm, BootSubscribe, RegistryTypeOK,
     registryVars, diskVars, HasSigner
<1>3. monitoring' \subseteq Kinds /\ signing' \in BOOLEAN
  BY <1>0 DEF BootStep, BootCheck, BootConfirm, BootSubscribe, handlerVars, TypeOK
<1>4. TypeOK'
  BY <1>0, <1>1, <1>2, <1>3 DEF TypeOK, chainVars
<1> QED
  BY <1>0, <1>1, <1>2, <1>4, HandlersStay

LEMMA CrashStep ==
    ASSUME IInv, Crash
    PROVE  IInv'
<1>1. RegistryTypeOK' /\ ~HasSigner'
  BY DEF IInv, TypeOK, RegistryTypeOK, Crash, LoseMemory, diskVars, HasSigner
<1>2. restarts' \in 0..MaxRestarts
  BY BoundsAreNat DEF IInv, TypeOK, Crash
<1>3. TypeOK'
  BY <1>1, <1>2 DEF IInv, TypeOK, Crash, chainVars
<1>4. \A h \in Handlers : pc'[h] = "idle"
  BY DEF Crash
<1>5. HasEvent' /\ OneBusy' /\ DownIsIdle'
  BY <1>4 DEF HasEvent, OneBusy, DownIsIdle, Crash, Busy
<1>6. RecoveryUsesSigner'
  BY <1>1 DEF RecoveryUsesSigner, Crash
<1> QED
  BY <1>3, <1>5, <1>6 DEF IInv

LEMMA RestartStep ==
    ASSUME IInv, NEW readable \in BOOLEAN, Restart(readable)
    PROVE  IInv'
<1>1. RegistryTypeOK'
  BY DEF IInv, TypeOK, RegistryTypeOK, Restart, LoadExistingKeeps, readAll, diskVars
<1>2. /\ UNCHANGED <<pc, event, tracked, recoveries, monitoring, signing, restarts, bootAge,
                     chainVars>>
      /\ up' = TRUE /\ ~up
      /\ boot' \in {"off", "check"}
  BY DEF Restart, handlerVars
<1>3. TypeOK'
  BY <1>1, <1>2 DEF IInv, TypeOK, chainVars
<1>4. HasEvent' /\ OneBusy' /\ DownIsIdle'
  BY <1>2 DEF IInv, HasEvent, OneBusy, DownIsIdle
<1>5. RecoveryUsesSigner'
  BY <1>2 DEF IInv, RecoveryUsesSigner, DownIsIdle
<1> QED
  BY <1>3, <1>4, <1>5 DEF IInv

LEMMA NextIInv ==
    ASSUME IInv, [Next]_vars
    PROVE  IInv'
<1>1. CASE UNCHANGED vars
  <2>1. TypeOK'
    BY <1>1 DEF IInv, TypeOK, RegistryTypeOK, vars, registryVars, diskVars, chainVars, bootVars,
                handlerVars
  <2> QED
    BY <1>1, <2>1, HandlersStay DEF vars, registryVars, bootVars, handlerVars, HasSigner, IInv,
       DownIsIdle
<1>2. ASSUME NEW h \in Handlers, Step(h) PROVE IInv'
  BY <1>2, CheckStep, TrackStep, ConfirmStep, RecoverStep, UnregisterStep, NotifyStep DEF Step
<1>3. CASE Next
  BY <1>2, <1>3, ChainStep, NewBlockStep, DeliverStep, BootStepInv, CrashStep, RestartStep
     DEF Next
<1> QED
  BY <1>1, <1>3

LEMMA InitIInv == Init => IInv
<1> SUFFICES ASSUME Init PROVE IInv
  OBVIOUS
<1>1. RegistryTypeOK
  BY DEF Init, RegistryTypeOK
<1>2. reorgs \in 0..MaxReorgs /\ restarts \in 0..MaxRestarts
  BY BoundsAreNat DEF Init
<1>3. up \in BOOLEAN /\ signing \in BOOLEAN /\ chainErrors \in BOOLEAN
  BY Zenon DEF Init
<1>4. TypeOK
  BY <1>1, <1>2, <1>3, AgeZero DEF Init, TypeOK
<1>5. HasEvent /\ OneBusy /\ RecoveryUsesSigner /\ DownIsIdle
  BY DEF Init, HasEvent, OneBusy, RecoveryUsesSigner, DownIsIdle, Busy
<1> QED
  BY <1>4, <1>5 DEF IInv

LEMMA ClosingInvariant == Spec => []IInv
<1>1. IInv /\ [Next]_vars => IInv'
  BY NextIInv
<1> QED
  BY InitIInv, <1>1, PTL DEF Spec

-----------------------------------------------------------------------------
(* One dropped fork.                                                       *)

\* A step of a client: the chain stays, no handler counts from a new event
\* that the chain does not have, and what it does is about a final end.
LEMMA ClientFork ==
    ASSUME ForkInv, UNCHANGED <<ended, endAge, events, reorgs>>,
           \A h \in Handlers : event'[h] \in {event[h], NoEvent} \cup events,
           boot' = "confirm" =>
             \/ boot = "confirm" /\ bootAge' = bootAge
             \/ ~active /\ bootAge' <= endAge,
           reorgs <= 1 => \A h \in Handlers :
             pc'[h] \in Busy \ {"tracked"} => pc[h] \in Busy \ {"tracked"} \/ Final,
           reorgs <= 1 => archived' = archived \/ Final
    PROVE  ForkInv'
<1>1. Final' = Final /\ active' = active
  BY DEF Final, active
<1>2. reorgs = 0 => BeforeFork'
  BY <1>1 DEF ForkInv, BeforeFork
<1>3. reorgs <= 1 => Founded'
  BY <1>1 DEF ForkInv, Founded
<1> QED
  BY <1>2, <1>3 DEF ForkInv

\* A handler or the start-up goroutine that has waited for the confirmations.
LEMMA ConfirmedIsFinal ==
    ASSUME TypeOK, ForkInv, ~active, reorgs = 0 => Confirmations <= endAge
    PROVE  Final
  BY BoundsAreNat DEF TypeOK, Ages, Final

LEMMA HandlerFork ==
    ASSUME IInv, ForkInv, NEW h \in Handlers,
           Step(h) \/ \E e \in events : Deliver(h, e)
    PROVE  ForkInv'
<1>0. TypeOK
  BY DEF IInv
<1>1. UNCHANGED <<ended, endAge, events, reorgs, boot, bootAge>>
  BY DEF Step, CheckTrack, CheckRegistry, Track, Confirm, Recover, Unregister, Notify, Deliver,
         chainVars, bootVars
<1>2. \A g \in Handlers : event'[g] \in {event[g], NoEvent} \cup events
  <2>1. \/ event' = event
        \/ \E ev \in {NoEvent} \cup events : event' = [event EXCEPT ![h] = ev]
    BY DEF Step, CheckTrack, CheckRegistry, Track, Confirm, ConfirmClosed, ConfirmTerminated,
           ConfirmFails, Recover, RecoverySucceeds, RecoveryFails, RecoveryNotFunded,
           Unregister, Notify, Deliver, Release, Retry, Done
  <2> QED
    BY <1>0, <2>1 DEF TypeOK
<1>3. PICK to : pc' = [pc EXCEPT ![h] = to]
  BY DEF Step, CheckTrack, CheckRegistry, Track, Confirm, ConfirmClosed, ConfirmTerminated,
         ConfirmFails, Recover, RecoverySucceeds, RecoveryFails, RecoveryNotFunded,
         Unregister, Notify, Deliver, Release, Retry, Done, Goto
<1>4. \A g \in Handlers \ {h} : pc'[g] = pc[g]
  BY <1>0, <1>3 DEF TypeOK
<1>5. CASE Confirm(h)
  <2>1. archived' = archived
    BY <1>5 DEF Confirm, registryVars, diskVars
  <2>2. pc'[h] \in Busy \ {"tracked"} => Final
    <3>1. CASE active \/ ConfirmFails(h)
      BY <1>0, <1>5, <3>1 DEF Confirm, ConfirmClosed, ConfirmTerminated, ConfirmFails, Release,
         Retry, Done, Goto, TypeOK, Busy
    <3>2. CASE ~active /\ (ConfirmClosed(h) \/ ConfirmTerminated(h))
      <4>1. event[h] # NoEvent /\ event[h].age = Confirmations
        BY <1>5, <3>2 DEF Confirm, Confirmed, ConfirmClosed, ConfirmTerminated, NoEvent
      <4>2. reorgs = 0 => Confirmations <= endAge
        BY <4>1 DEF ForkInv, BeforeFork
      <4> QED
        BY <1>0, <3>2, <4>2, ConfirmedIsFinal
    <3> QED
      BY <1>5, <3>1, <3>2 DEF Confirm
  <2>3. \A g \in Handlers :
          pc'[g] \in Busy \ {"tracked"} => pc[g] \in Busy \ {"tracked"} \/ Final
    BY <1>4, <2>2
  <2> QED
    BY <1>1, <1>2, <2>1, <2>3, ClientFork
<1>6. CASE \E moved \in BOOLEAN : Unregister(h, moved)
  <2>1. pc[h] = "unregistering"
    BY <1>6 DEF Unregister, Goto
  <2>2. reorgs <= 1 => Final
    BY <2>1 DEF ForkInv, Founded, Busy
  <2>3. reorgs <= 1 => \A g \in Handlers :
          pc'[g] \in Busy \ {"tracked"} => pc[g] \in Busy \ {"tracked"} \/ Final
    BY <1>4, <2>2
  <2> QED
    BY <1>1, <1>2, <2>2, <2>3, ClientFork
<1>7. CASE \/ CheckTrack(h) \/ CheckRegistry(h) \/ Track(h) \/ Notify(h) \/ Recover(h)
           \/ \E e \in events : Deliver(h, e)
  <2>1. archived' = archived
    BY <1>7 DEF CheckTrack, CheckRegistry, Track, Notify, Recover, Deliver, registryVars,
                diskVars
  <2>2. pc'[h] \in Busy \ {"tracked"} => pc[h] \in Busy \ {"tracked"}
    <3>1. CASE Recover(h)
      BY <3>1 DEF Recover, RecoverySucceeds, RecoveryFails, RecoveryNotFunded, Release, Retry,
         Done, Goto, Busy
    <3>2. CASE ~Recover(h)
      BY <1>0, <1>7, <3>2 DEF CheckTrack, CheckRegistry, Track, Notify, Deliver, Release, Done,
         Goto, TypeOK, Busy
    <3> QED
      BY <3>1, <3>2
  <2>3. \A g \in Handlers :
          pc'[g] \in Busy \ {"tracked"} => pc[g] \in Busy \ {"tracked"} \/ Final
    BY <1>4, <2>2
  <2> QED
    BY <1>1, <1>2, <2>1, <2>3, ClientFork
<1> QED
  BY <1>5, <1>6, <1>7 DEF Step

LEMMA BootFork ==
    ASSUME TypeOK, ForkInv, BootStep
    PROVE  ForkInv'
<1>1. UNCHANGED <<ended, endAge, events, reorgs, event, pc>>
  BY DEF BootStep, BootCheck, BootConfirm, BootSubscribe, chainVars, handlerVars
<1>2. boot' = "confirm" => ~active /\ bootAge' = 0
  BY DEF BootStep, BootCheck, BootConfirm, BootSubscribe
<1>3. 0 <= endAge
  BY BoundsAreNat DEF TypeOK, Ages
<1>4. archived' = archived \/ Final
  <2>1. ASSUME NEW moved \in BOOLEAN, BootConfirm(moved), ~active PROVE Final
    <3>1. reorgs = 0 => Confirmations <= endAge
      BY <2>1 DEF BootConfirm, Confirmed, ForkInv, BeforeFork
    <3> QED
      BY <2>1, <3>1, ConfirmedIsFinal
  <2>2. ASSUME NEW moved \in BOOLEAN, BootConfirm(moved), active PROVE archived' = archived
    BY <2>2 DEF BootConfirm, registryVars, diskVars
  <2>3. CASE BootCheck \/ BootSubscribe
    BY <2>3 DEF BootCheck, BootSubscribe, registryVars, diskVars
  <2> QED
    BY <2>1, <2>2, <2>3 DEF BootStep
<1> QED
  BY <1>1, <1>2, <1>3, <1>4, ClientFork

LEMMA RestartFork ==
    ASSUME TypeOK, ForkInv, Crash \/ \E readable \in BOOLEAN : Restart(readable)
    PROVE  ForkInv'
<1>1. UNCHANGED <<ended, endAge, events, reorgs, archived>> /\ boot' # "confirm"
  BY DEF Crash, Restart, LoseMemory, LoadExistingKeeps, diskVars, chainVars
<1>2. \A h \in Handlers : event'[h] \in {event[h], NoEvent}
  BY DEF Crash, Restart, handlerVars
<1>3. \A h \in Handlers : pc'[h] = pc[h] \/ pc'[h] = "idle"
  BY DEF Crash, Restart, handlerVars
<1> QED
  BY <1>1, <1>2, <1>3, ClientFork DEF Busy

LEMMA NewBlockFork ==
    ASSUME TypeOK, ForkInv, NewBlock
    PROVE  ForkInv'
<1>1. /\ UNCHANGED <<ended, reorgs, archived, pc, boot>>
      /\ endAge' = Older(endAge) /\ bootAge' = Older(bootAge)
      /\ endAge \in Ages /\ bootAge \in Ages
      /\ active' = active
  BY DEF TypeOK, NewBlock, registryVars, diskVars, active
<1>2. Final => Final'
  BY <1>1, OlderAge DEF Final
<1>3. ASSUME reorgs = 0 PROVE BeforeFork'
  <2>1. BeforeFork
    BY <1>3 DEF ForkInv
  <2>2. ASSUME NEW e \in events' PROVE ~active /\ e.age <= endAge'
    <3>1. PICK d \in events : e = [d EXCEPT !.age = Older(@)]
      BY <2>2 DEF NewBlock
    <3>2. d \in Events /\ d.age \in Ages /\ e.age = Older(d.age)
      BY <3>1, OlderEvent, EventHasKind DEF TypeOK
    <3> QED
      BY <1>1, <2>1, <3>2, OlderAge DEF BeforeFork
  <2>3. ASSUME NEW h \in Handlers, event'[h] # NoEvent PROVE ~active /\ event'[h].age <= endAge'
    <3>1. event[h] # NoEvent /\ event'[h].age = Older(event[h].age)
      BY <2>3, OlderHandlerEvent
    <3>2. event[h].age \in Ages
      BY <3>1, EventHasKind DEF TypeOK
    <3> QED
      BY <1>1, <2>1, <3>1, <3>2, OlderAge DEF BeforeFork
  <2>4. boot = "confirm" => ~active /\ bootAge' <= endAge'
    BY <1>1, <2>1, OlderAge DEF BeforeFork
  <2> QED
    BY <1>1, <2>2, <2>3, <2>4 DEF BeforeFork
<1>4. reorgs <= 1 => Founded'
  BY <1>1, <1>2 DEF ForkInv, Founded
<1> QED
  BY <1>1, <1>3, <1>4 DEF ForkInv

LEMMA ChainFork ==
    ASSUME TypeOK, ForkInv, (\E kind \in Kinds : End(kind)) \/ Reorg
    PROVE  ForkInv'
<1>0. UNCHANGED <<archived, pc, event, boot, bootAge>>
  BY DEF End, Reorg, registryVars, diskVars, handlerVars, bootVars
<1>1. ASSUME NEW kind \in Kinds, End(kind) PROVE ForkInv'
  <2>1. /\ active /\ ~active' /\ endAge' = 0 /\ reorgs' = reorgs
        /\ events' = events \cup {[kind |-> kind, age |-> 0]}
    BY <1>1 DEF End, active, Kinds
  <2>2. ~Final
    BY <2>1 DEF Final
  <2>3. reorgs = 0 => BeforeFork'
    BY <1>0, <2>1 DEF ForkInv, BeforeFork
  <2>4. reorgs <= 1 => Founded'
    BY <1>0, <2>2 DEF ForkInv, Founded
  <2> QED
    BY <2>1, <2>3, <2>4 DEF ForkInv
<1>2. CASE Reorg
  <2>1. reorgs \in Nat /\ reorgs' = reorgs + 1 /\ endAge < Confirmations
    BY <1>2, BoundsAreNat DEF Reorg, TypeOK
  <2>2. reorgs' <= 1 => ~Final /\ Founded
    BY <2>1, BoundsAreNat DEF Final, ForkInv, TypeOK, Ages
  <2>3. reorgs' <= 1 => Founded'
    BY <1>0, <2>2 DEF Founded
  <2> QED
    BY <2>1, <2>3 DEF ForkInv
<1> QED
  BY <1>1, <1>2

LEMMA ForkInvariant == Spec => []ForkInv
<1>1. Init => ForkInv
  BY DEF Init, ForkInv, BeforeFork, Founded, Busy
<1>2. ASSUME IInv, ForkInv, [Next]_vars PROVE ForkInv'
  <2>0. TypeOK
    BY <1>2 DEF IInv
  <2>1. CASE UNCHANGED vars
    <3>1. UNCHANGED <<ended, endAge, events, reorgs, boot, bootAge, event, pc, archived>>
      BY <2>1 DEF vars, chainVars, bootVars, handlerVars, registryVars, diskVars
    <3> QED
      BY <1>2, <3>1, ClientFork
  <2>2. CASE Next
    BY <1>2, <2>0, <2>2, HandlerFork, BootFork, RestartFork, NewBlockFork, ChainFork DEF Next
  <2> QED
    BY <1>2, <2>1, <2>2
<1>3. IInv /\ ForkInv /\ [Next]_vars => ForkInv'
  BY <1>2
<1> QED
  BY <1>1, <1>3, ClosingInvariant, PTL DEF Spec

-----------------------------------------------------------------------------
(* Theorems.                                                               *)

\* Every reachable state of the closing client is well typed.
THEOREM ClosingTypeCorrect == Spec => []TypeOK
<1>1. IInv => TypeOK
  BY DEF IInv
<1> QED
  BY <1>1, ClosingInvariant, PTL

\* Within one run of the client the liquidation recovery transaction is made at
\* most once, for any number of handlers, duplicated events and dropped forks.
THEOREM RecoveryIsOnce == Spec => []RecoveredOnce
<1>1. IInv => RecoveredOnce
  BY DEF IInv, RecoveryUsesSigner, RecoveredOnce
<1> QED
  BY <1>1, ClosingInvariant, PTL

\* While at most one fork is dropped, the client archives the signer only of a keep
\* that has ended, on the event paths and at start-up, for any number of blocks it
\* waits for.
THEOREM ArchivedIsOver == Spec => [](reorgs <= 1 => ArchivedHasEnded)
<1>1. ForkInv => (reorgs <= 1 => ArchivedHasEnded)
  BY DEF ForkInv, Founded, Final, ArchivedHasEnded
<1> QED
  BY <1>1, ForkInvariant, PTL
=============================================================================
