--------------------------- MODULE SigningProofs ---------------------------
(***************************************************************************)
(* Proofs about Signing for any number of members, crashes, dropped forks  *)
(* and confirmations: types, that the deduplicator is exact, and that one  *)
(* dropped fork makes no member sign or stop publishing without a reason.  *)
(***************************************************************************)
EXTENDS Signing, TLAPS

States == {"idle", "starting", "attempting", "untracked", "awaited"} \cup Handling

\* Every goroutine belongs to a member.
LEMMA MemberOfProc == \A p \in Procs : Member(p) \in Members
  BY DEF Procs, Member

LEMMA OlderAge == ASSUME NEW a \in Ages PROVE Older(a) \in Ages
  BY SigningAssumption DEF Older, Ages

LEMMA BoundsAreNat == MaxRestarts \in Nat /\ MaxReorgs \in Nat
  BY SigningAssumption

LEMMA ZeroAge == 0 \in Ages /\ Confirmations \in Ages
  BY SigningAssumption DEF Ages

-----------------------------------------------------------------------------
(* What the moves of one goroutine do to the deduplicator.                 *)

\* A move that stays on one side of Handling changes nothing for it.
LEMMA MoveWithin ==
    ASSUME TypeOK, DeduplicatorIsExact,
           NEW p \in Procs, NEW to \in States,
           pc' = [pc EXCEPT ![p] = to],
           (pc[p] \in Handling) = (to \in Handling),
           tracked' = tracked
    PROVE  DeduplicatorIsExact'
<1>1. pc \in [Procs -> States]
  BY DEF TypeOK, States
<1>2. \A q \in Procs : (pc'[q] \in Handling) = (pc[q] \in Handling)
  BY <1>1
<1> QED
  BY <1>2 DEF DeduplicatorIsExact

\* A goroutine that starts to handle the digest was the first of its member.
LEMMA MoveIn ==
    ASSUME TypeOK, DeduplicatorIsExact,
           NEW p \in Procs, NEW to \in Handling,
           pc' = [pc EXCEPT ![p] = to],
           Member(p) \notin tracked,
           tracked' = tracked \cup {Member(p)}
    PROVE  DeduplicatorIsExact'
<1>1. pc \in [Procs -> States]
  BY DEF TypeOK, States
<1>2. \A q \in Procs : (pc'[q] \in Handling) <=> (q = p \/ pc[q] \in Handling)
  BY <1>1
<1>3. \A q \in Procs : pc[q] \in Handling => Member(q) # Member(p)
  BY DEF DeduplicatorIsExact
<1>4. \A q, r \in Procs :
        pc'[q] \in Handling /\ pc'[r] \in Handling /\ Member(q) = Member(r) => q = r
  BY <1>2, <1>3 DEF DeduplicatorIsExact
<1>5. tracked' = {Member(q) : q \in {r \in Procs : pc'[r] \in Handling}}
  BY <1>2 DEF DeduplicatorIsExact
<1> QED
  BY <1>4, <1>5 DEF DeduplicatorIsExact

\* A goroutine that stops was the only one of its member.
LEMMA MoveOut ==
    ASSUME TypeOK, DeduplicatorIsExact,
           NEW p \in Procs, NEW to \in States \ Handling,
           pc' = [pc EXCEPT ![p] = to],
           pc[p] \in Handling,
           tracked' = tracked \ {Member(p)}
    PROVE  DeduplicatorIsExact'
<1>1. pc \in [Procs -> States]
  BY DEF TypeOK, States
<1>2. \A q \in Procs : (pc'[q] \in Handling) <=> (q # p /\ pc[q] \in Handling)
  BY <1>1
<1>3. \A q \in Procs : q # p /\ pc[q] \in Handling => Member(q) # Member(p)
  BY DEF DeduplicatorIsExact
<1>4. \A q, r \in Procs :
        pc'[q] \in Handling /\ pc'[r] \in Handling /\ Member(q) = Member(r) => q = r
  BY <1>2 DEF DeduplicatorIsExact
<1>5. tracked' = {Member(q) : q \in {r \in Procs : pc'[r] \in Handling}}
  BY <1>2, <1>3 DEF DeduplicatorIsExact
<1> QED
  BY <1>4, <1>5 DEF DeduplicatorIsExact

-----------------------------------------------------------------------------
(* The inductive invariant.                                                *)

\* A client that is down has no goroutine.
DownIsIdle == \A p \in Procs : ~up[Member(p)] => pc[p] = "idle"

IInv == TypeOK /\ DeduplicatorIsExact

LEMMA InitIInv == Init => IInv
<1> SUFFICES ASSUME Init PROVE IInv
  OBVIOUS
<1>1. TypeOK
  <2>1. reorgs \in 0..MaxReorgs /\ restarts \in 0..MaxRestarts
    BY BoundsAreNat DEF Init
  <2>2. up \in [Members -> BOOLEAN]
    BY Zenon DEF Init
  <2>3. requested \in BOOLEAN /\ active \in BOOLEAN /\ calculated \in BOOLEAN
    BY Zenon DEF Init
  <2> QED
    BY <2>1, <2>2, <2>3, ZeroAge DEF Init, TypeOK
<1>2. \A p \in Procs : pc[p] \notin Handling
  BY DEF Init, Handling, Publishing
<1>3. DeduplicatorIsExact
  BY <1>2 DEF Init, DeduplicatorIsExact
<1> QED
  BY <1>1, <1>3 DEF IInv

\* Steps of the chain move no goroutine.
LEMMA ChainStep ==
    ASSUME TypeOK,
           \/ RequestSignature
           \/ \E m \in Members : Mine(m) \/ Lose(m)
           \/ \E dropped \in {"signature", "request"} : Reorg(dropped)
           \/ EndKeep
    PROVE  TypeOK' /\ pc' = pc /\ tracked' = tracked
<1>1. CASE RequestSignature
  BY <1>1, ZeroAge DEF TypeOK, RequestSignature, clientVars, historyVars
<1>2. ASSUME NEW m \in Members, Mine(m) PROVE TypeOK' /\ pc' = pc /\ tracked' = tracked
  BY <1>2, ZeroAge DEF TypeOK, Mine, clientVars, historyVars
<1>3. ASSUME NEW m \in Members, Lose(m) PROVE TypeOK' /\ pc' = pc /\ tracked' = tracked
  BY <1>3 DEF TypeOK, Lose, clientVars, historyVars
<1>4. ASSUME NEW dropped \in {"signature", "request"}, Reorg(dropped)
      PROVE  TypeOK' /\ pc' = pc /\ tracked' = tracked
  <2>1. reorgs' \in 0..MaxReorgs
    BY <1>4, BoundsAreNat DEF TypeOK, Reorg
  <2>3. requested' \in BOOLEAN
    BY <1>4 DEF TypeOK, Reorg
  <2>2. signedBy' \in Members \cup {NoMember} /\ pending' \subseteq Members
    BY <1>4 DEF TypeOK, Reorg
  <2> QED
    BY <1>4, <2>1, <2>2, <2>3 DEF TypeOK, Reorg, clientVars, historyVars
<1>5. CASE EndKeep
  BY <1>5 DEF TypeOK, EndKeep, clientVars, historyVars
<1> QED
  BY <1>1, <1>2, <1>3, <1>4, <1>5

LEMMA NewBlockStep ==
    ASSUME TypeOK, NewBlock
    PROVE  TypeOK' /\ pc' = pc /\ tracked' = tracked
<1>1. requestAge' \in Ages /\ signedAge' \in Ages
  BY OlderAge DEF TypeOK, NewBlock
<1>2. events' \subseteq Ages
  BY OlderAge DEF TypeOK, NewBlock
<1>3. baseAge' \in [Procs -> Ages]
  BY OlderAge DEF TypeOK, NewBlock
<1> QED
  BY <1>1, <1>2, <1>3 DEF TypeOK, NewBlock, historyVars

-----------------------------------------------------------------------------
(* Steps of one goroutine.                                                 *)

\* What the steps of a goroutine leave alone or keep well typed.
Framed ==
    /\ baseAge' \in [Procs -> Ages]
    /\ published' \subseteq Members
    /\ UNCHANGED <<up, restarts, chainVars, calculated>>

Outside == {"idle", "starting", "attempting", "untracked", "awaited"}

LEMMA OutsideStates ==
    /\ States = Outside \cup Handling
    /\ \A from \in Outside : from \notin Handling
  BY DEF States, Outside, Handling, Publishing

\* A move outside Handling that leaves the deduplicator alone.
LEMMA StepOutside ==
    ASSUME IInv, NEW p \in Procs, NEW from \in Outside, NEW to \in Outside,
           Goto(p, from, to), Framed, tracked' = tracked
    PROVE  IInv'
<1>1. pc' = [pc EXCEPT ![p] = to] /\ pc[p] = from
  BY DEF Goto
<1>2. to \in States /\ to \notin Handling /\ pc[p] \notin Handling
  BY <1>1, OutsideStates
<1>4. (pc[p] \in Handling) = (to \in Handling)
  BY <1>2
<1>5. DeduplicatorIsExact'
  BY <1>1, <1>2, <1>4, MoveWithin DEF IInv
<1>3. pc' \in [Procs -> States]
  BY <1>1, OutsideStates DEF IInv, TypeOK, States
<1> QED
  BY <1>3, <1>5 DEF IInv, TypeOK, States, chainVars, Framed

\* A move within Handling that leaves the deduplicator alone.
LEMMA StepInside ==
    ASSUME IInv, NEW p \in Procs, NEW from \in Handling, NEW to \in Handling,
           Goto(p, from, to), Framed, tracked' = tracked
    PROVE  IInv'
<1>1. pc' = [pc EXCEPT ![p] = to] /\ pc[p] = from
  BY DEF Goto
<1>2. DeduplicatorIsExact'
  BY <1>1, MoveWithin, OutsideStates DEF IInv
<1>3. pc' \in [Procs -> States]
  BY <1>1, OutsideStates DEF IInv, TypeOK, States
<1> QED
  BY <1>2, <1>3 DEF IInv, TypeOK, States, chainVars, Framed

\* A move out of Handling that ends with NotifySigningCompleted.
LEMMA StepOut ==
    ASSUME IInv, NEW p \in Procs, NEW from \in Handling, NEW to \in Outside,
           Goto(p, from, to), Framed, Complete(p)
    PROVE  IInv'
<1>1. pc' = [pc EXCEPT ![p] = to] /\ pc[p] = from
  BY DEF Goto
<1>2. DeduplicatorIsExact'
  BY <1>1, MoveOut, OutsideStates DEF IInv, Complete
<1>3. pc' \in [Procs -> States]
  BY <1>1, OutsideStates DEF IInv, TypeOK, States
<1>4. tracked' \subseteq Members
  BY DEF IInv, TypeOK, Complete
<1> QED
  BY <1>2, <1>3, <1>4 DEF IInv, TypeOK, States, chainVars, Framed

\* Setting the block a goroutine counts from.
LEMMA BaseAgeType ==
    ASSUME IInv, NEW p \in Procs, NEW a \in Ages, baseAge' = [baseAge EXCEPT ![p] = a]
    PROVE  baseAge' \in [Procs -> Ages]
  BY DEF IInv, TypeOK

LEMMA DecideStep ==
    ASSUME IInv, NEW p \in Procs,
           \/ \E a \in events : Deliver(p, a)
           \/ CheckAwaiting(p)
           \/ NotTracked(p)
           \/ IsAwaited(p)
    PROVE  IInv'
<1>0. published \subseteq Members /\ baseAge \in [Procs -> Ages]
  BY DEF IInv, TypeOK
<1>1. /\ Framed
      /\ tracked' = tracked
      /\ \E from, to \in Outside : Goto(p, from, to)
  <2>1. ASSUME NEW a \in events, Deliver(p, a)
        PROVE  Framed /\ tracked' = tracked /\ Goto(p, "idle", "attempting")
    <3>1. a \in Ages
      BY <2>1 DEF IInv, TypeOK
    <3>2. baseAge' \in [Procs -> Ages]
      BY <2>1, <3>1, BaseAgeType DEF Deliver
    <3> QED
      BY <1>0, <2>1, <3>2 DEF Deliver, Framed, historyVars
  <2>2. ASSUME CheckAwaiting(p)
        PROVE  Framed /\ tracked' = tracked /\ \E to \in Outside : Goto(p, "starting", to)
    BY <1>0, <2>2 DEF CheckAwaiting, Framed, historyVars, Outside
  <2>3. ASSUME NotTracked(p)
        PROVE  Framed /\ tracked' = tracked /\ \E to \in Outside : Goto(p, "attempting", to)
    BY <1>0, <2>3 DEF NotTracked, Framed, historyVars, Outside
  <2>4. ASSUME IsAwaited(p)
        PROVE  Framed /\ tracked' = tracked /\ \E to \in Outside : Goto(p, "untracked", to)
    BY <1>0, <2>4 DEF IsAwaited, Retry, Framed, historyVars, Outside
  <2>5. {"idle", "starting", "attempting", "untracked"} \subseteq Outside
    BY DEF Outside
  <2> QED
    BY <2>1, <2>2, <2>3, <2>4, <2>5
<1> QED
  BY <1>1, StepOutside

LEMMA TrackStep ==
    ASSUME IInv, NEW p \in Procs, Track(p)
    PROVE  IInv'
<1>1. baseAge' \in [Procs -> Ages]
  <2>1. RequestedAge \in Ages
    BY ZeroAge DEF IInv, TypeOK, RequestedAge
  <2>2. CASE p[2] = "check"
    BY <2>1, <2>2, BaseAgeType DEF Track
  <2>3. CASE p[2] # "check"
    BY <2>3 DEF Track, IInv, TypeOK
  <2> QED
    BY <2>2, <2>3
<1>2. CASE Member(p) \in tracked
  <2>1. tracked' = tracked
    BY <1>2 DEF Track
  <2>2. Goto(p, "awaited", "idle")
    BY <1>2 DEF Track
  <2>3. Framed
    BY <1>1 DEF IInv, TypeOK, Track, historyVars, Framed
  <2>4. "awaited" \in Outside /\ "idle" \in Outside
    BY DEF Outside
  <2> QED
    BY <2>1, <2>2, <2>3, <2>4, StepOutside
<1>3. CASE Member(p) \notin tracked
  <2>1. pc' = [pc EXCEPT ![p] = "requested"]
    BY <1>3 DEF Track, Goto
  <2>2. DeduplicatorIsExact'
    BY <1>3, <2>1, MoveIn DEF IInv, Track, Handling
  <2>3. pc' \in [Procs -> States]
    BY <2>1 DEF IInv, TypeOK, States, Handling
  <2>4. tracked' \subseteq Members
    BY MemberOfProc DEF IInv, TypeOK, Track
  <2> QED
    BY <1>1, <2>2, <2>3, <2>4 DEF IInv, TypeOK, States, Track, chainVars, historyVars
<1> QED
  BY <1>2, <1>3

LEMMA ConfirmRequestStep ==
    ASSUME IInv, NEW p \in Procs, ConfirmRequest(p)
    PROVE  IInv'
<1>1. Framed
  BY DEF IInv, TypeOK, ConfirmRequest, historyVars, Framed
<1>2. \/ Goto(p, "requested", "calculating") /\ tracked' = tracked
      \/ Goto(p, "requested", "idle") /\ Complete(p)
      \/ Goto(p, "requested", "attempting") /\ Complete(p)
  BY DEF ConfirmRequest, Retry
<1>3. /\ "requested" \in Handling /\ "calculating" \in Handling
      /\ "idle" \in Outside /\ "attempting" \in Outside
  BY DEF Handling, Outside
<1> QED
  BY <1>1, <1>2, <1>3, StepInside, StepOut

\* The joint step of the members moves goroutines within Handling.
LEMMA CalculateStep ==
    ASSUME IInv, NEW who \in SUBSET Procs, CalculateSignature(who)
    PROVE  IInv'
<1>0. "calculating" \in Handling /\ "publishing" \in Handling
  BY DEF Handling, Publishing
<1>1. \A p \in Procs : pc'[p] \in Handling <=> pc[p] \in Handling
  BY <1>0 DEF CalculateSignature
<1>2. DeduplicatorIsExact'
  BY <1>1 DEF IInv, DeduplicatorIsExact, CalculateSignature
<1>3. pc' \in [Procs -> States]
  BY <1>0, OutsideStates DEF IInv, TypeOK, States, CalculateSignature
<1> QED
  BY <1>2, <1>3 DEF IInv, TypeOK, States, CalculateSignature, chainVars

LEMMA PublishStep ==
    ASSUME IInv, NEW p \in Procs, Publish(p)
    PROVE  IInv'
<1>1. Framed
  BY ZeroAge, BaseAgeType DEF IInv, TypeOK, Publish, historyVars, Framed
<1>2. \/ Goto(p, "publishing", "submitting") /\ tracked' = tracked
      \/ Goto(p, "publishing", "confirming first") /\ tracked' = tracked
      \/ Goto(p, "publishing", "idle") /\ Complete(p)
  BY DEF Publish, Leave
<1>3. /\ {"publishing", "submitting", "confirming first"} \subseteq Handling
      /\ "idle" \in Outside
  BY DEF Handling, Publishing, Outside
<1> QED
  BY <1>1, <1>2, <1>3, StepInside, StepOut

LEMMA TimeOutStep ==
    ASSUME IInv, NEW p \in Procs, TimeOut(p)
    PROVE  IInv'
<1>1. Framed
  BY DEF IInv, TypeOK, TimeOut, historyVars, Framed
<1>2. \E from \in {"calculating", "publishing"} : Goto(p, from, "idle") /\ Complete(p)
  BY DEF TimeOut, Leave
<1>3. {"calculating", "publishing"} \subseteq Handling /\ "idle" \in Outside
  BY DEF Handling, Publishing, Outside
<1> QED
  BY <1>1, <1>2, <1>3, StepOut

\* Only here a goroutine changes what is on the chain, the pending transactions.
LEMMA SubmitStep ==
    ASSUME IInv, NEW p \in Procs, SubmitSignature(p)
    PROVE  IInv'
<1>1. PICK to \in {"waiting", "confirming", "publishing"} : Goto(p, "submitting", to)
  BY DEF SubmitSignature
<1>2. "submitting" \in Handling /\ to \in Handling /\ to \in States
  BY DEF Handling, Publishing, States
<1>3. pc' = [pc EXCEPT ![p] = to] /\ pc[p] = "submitting"
  BY <1>1 DEF Goto
<1>4. DeduplicatorIsExact'
  BY <1>2, <1>3, MoveWithin DEF IInv, SubmitSignature
<1>5. pc' \in [Procs -> States]
  BY <1>2, <1>3 DEF IInv, TypeOK, States
<1>6. pending' \subseteq Members
  BY MemberOfProc DEF IInv, TypeOK, SubmitSignature
<1>7. baseAge' \in [Procs -> Ages]
  BY ZeroAge, BaseAgeType DEF IInv, TypeOK, SubmitSignature
<1> QED
  BY <1>4, <1>5, <1>6, <1>7 DEF IInv, TypeOK, States, SubmitSignature, historyVars

LEMMA WaitStep ==
    ASSUME IInv, NEW p \in Procs, WaitForSignature(p)
    PROVE  IInv'
<1>1. Framed /\ tracked' = tracked
  BY ZeroAge, BaseAgeType DEF IInv, TypeOK, WaitForSignature, historyVars, Framed
<1>2. \E to \in {"confirming", "publishing"} : Goto(p, "waiting", to)
  BY DEF WaitForSignature
<1>3. {"waiting", "confirming", "publishing"} \subseteq Handling
  BY DEF Handling, Publishing
<1> QED
  BY <1>1, <1>2, <1>3, StepInside

LEMMA ConfirmSignatureStep ==
    ASSUME IInv, NEW p \in Procs, NEW from \in {"confirming first", "confirming"},
           ConfirmSignature(p, from)
    PROVE  IInv'
<1>1. Framed
  BY MemberOfProc DEF IInv, TypeOK, ConfirmSignature, Framed
<1>2. \/ Goto(p, from, "idle") /\ Complete(p)
      \/ (\E to \in {"submitting", "publishing"} : Goto(p, from, to)) /\ tracked' = tracked
  BY DEF ConfirmSignature, Leave
<1>3. /\ {"confirming first", "confirming", "submitting", "publishing"} \subseteq Handling
      /\ "idle" \in Outside
  BY DEF Handling, Publishing, Outside
<1> QED
  BY <1>1, <1>2, <1>3, StepInside, StepOut

-----------------------------------------------------------------------------
(* Crash and start-up.                                                     *)

\* A crash stops all goroutines of a member and forgets what it tracked.
LEMMA CrashStep ==
    ASSUME IInv, NEW m \in Members, Crash(m)
    PROVE  IInv'
<1>1. pc' \in [Procs -> States]
  BY DEF IInv, TypeOK, States, Crash
<1>2. "idle" \notin Handling
  BY OutsideStates DEF Outside
<1>3. \A p \in Procs : pc'[p] \in Handling <=> (Member(p) # m /\ pc[p] \in Handling)
  BY <1>2 DEF Crash
<1>4. \A p, q \in Procs :
        pc'[p] \in Handling /\ pc'[q] \in Handling /\ Member(p) = Member(q) => p = q
  BY <1>3 DEF IInv, DeduplicatorIsExact
<1>5. tracked' = {Member(p) : p \in {q \in Procs : pc'[q] \in Handling}}
  BY <1>3 DEF IInv, DeduplicatorIsExact, Crash
<1>6. DeduplicatorIsExact'
  BY <1>4, <1>5 DEF DeduplicatorIsExact
<1>7. restarts' \in 0..MaxRestarts
  BY BoundsAreNat DEF IInv, TypeOK, Crash
<1>8. up' \in [Members -> BOOLEAN]
  BY DEF IInv, TypeOK, Crash
<1>9. tracked' \subseteq Members
  BY DEF IInv, TypeOK, Crash
<1> QED
  BY <1>1, <1>6, <1>7, <1>8, <1>9 DEF IInv, TypeOK, States, Crash, chainVars, historyVars

LEMMA RestartStep ==
    ASSUME IInv, DownIsIdle, NEW m \in Members, Restart(m)
    PROVE  IInv'
<1>1. <<m, "check">> \in Procs /\ Member(<<m, "check">>) = m
  BY DEF Procs, Member
<1>2. pc[<<m, "check">>] = "idle"
  BY <1>1 DEF DownIsIdle, Restart
<1>3. "idle" \notin Handling /\ "starting" \notin Handling /\ "starting" \in States
  BY OutsideStates DEF Outside
<1>4. DeduplicatorIsExact'
  <2>1. (pc[<<m, "check">>] \in Handling) = ("starting" \in Handling)
    BY <1>2, <1>3
  <2>2. pc' = [pc EXCEPT ![<<m, "check">>] = "starting"] /\ tracked' = tracked
    BY DEF Restart
  <2>3. TypeOK /\ DeduplicatorIsExact
    BY DEF IInv
  <2> QED
    BY <1>1, <1>3, <2>1, <2>2, <2>3, MoveWithin
<1>5. pc' \in [Procs -> States]
  BY <1>1, <1>3 DEF IInv, TypeOK, States, Restart
<1>6. up' \in [Members -> BOOLEAN]
  BY DEF IInv, TypeOK, Restart
<1> QED
  BY <1>4, <1>5, <1>6 DEF IInv, TypeOK, States, Restart, chainVars, historyVars

\* Goroutines run only in a client that is up.
LEMMA DownStep ==
    ASSUME TypeOK, DownIsIdle, Next
    PROVE  DownIsIdle'
<1> USE DEF DownIsIdle
<1>1. ASSUME NEW p \in Procs, NEW from, NEW to, Goto(p, from, to), up' = up
      PROVE  DownIsIdle'
  BY <1>1 DEF TypeOK, Goto
<1>2. CASE RequestSignature \/ NewBlock \/ EndKeep
  BY <1>2 DEF RequestSignature, NewBlock, EndKeep, clientVars
<1>3. ASSUME NEW m \in Members, Mine(m) \/ Lose(m) PROVE DownIsIdle'
  BY <1>3 DEF Mine, Lose, clientVars
<1>4. ASSUME NEW dropped \in {"signature", "request"}, Reorg(dropped) PROVE DownIsIdle'
  BY <1>4 DEF Reorg, clientVars
<1>5. ASSUME NEW m \in Members, Crash(m) PROVE DownIsIdle'
  BY <1>5, MemberOfProc DEF TypeOK, Crash
<1>6. ASSUME NEW m \in Members, Restart(m) PROVE DownIsIdle'
  <2>1. Member(<<m, "check">>) = m
    BY DEF Member
  <2> QED
    BY <1>6, <2>1, MemberOfProc DEF TypeOK, Restart
<1>7. ASSUME NEW p \in Procs, NEW a \in events, Deliver(p, a) PROVE DownIsIdle'
  BY <1>1, <1>7 DEF Deliver
<1>8. ASSUME NEW p \in Procs, Step(p) \/ TimeOut(p) PROVE DownIsIdle'
  <2>1. up' = up /\ \E from, to : Goto(p, from, to)
    BY <1>8 DEF Step, TimeOut, CheckAwaiting, NotTracked, IsAwaited, Retry, Track,
                ConfirmRequest, Leave, Publish, SubmitSignature, WaitForSignature,
                ConfirmSignature
  <2> QED
    BY <1>1, <2>1
<1>9. ASSUME NEW who \in SUBSET Procs, CalculateSignature(who) PROVE DownIsIdle'
  BY <1>9 DEF CalculateSignature
<1> QED
  BY <1>2, <1>3, <1>4, <1>5, <1>6, <1>7, <1>8, <1>9 DEF Next

-----------------------------------------------------------------------------
(* Theorems.                                                               *)

LEMMA NextIInv ==
    ASSUME IInv, DownIsIdle, [Next]_vars
    PROVE  IInv' /\ DownIsIdle'
<1>1. CASE Next
  <2>1. DownIsIdle'
    BY <1>1, DownStep DEF IInv
  <2>2. ASSUME TypeOK', pc' = pc, tracked' = tracked PROVE IInv'
    BY <2>2 DEF IInv, DeduplicatorIsExact
  <2>3. CASE \/ RequestSignature
             \/ \E m \in Members : Mine(m) \/ Lose(m)
             \/ \E dropped \in {"signature", "request"} : Reorg(dropped)
             \/ EndKeep
    <3>1. TypeOK
      BY DEF IInv
    <3>2. TypeOK' /\ pc' = pc /\ tracked' = tracked
      BY <2>3, <3>1, ChainStep
    <3> QED
      BY <2>1, <2>2, <3>2
  <2>4. CASE NewBlock
    <3>1. TypeOK
      BY DEF IInv
    <3>2. TypeOK' /\ pc' = pc /\ tracked' = tracked
      BY <2>4, <3>1, NewBlockStep
    <3> QED
      BY <2>1, <2>2, <3>2
  <2>5. ASSUME NEW m \in Members, Crash(m) \/ Restart(m) PROVE IInv'
    BY <2>5, CrashStep, RestartStep
  <2>6. ASSUME NEW p \in Procs, NEW a \in events, Deliver(p, a) PROVE IInv'
    BY <2>6, DecideStep
  <2>7. ASSUME NEW p \in Procs, Step(p) \/ TimeOut(p) PROVE IInv'
    BY <2>7, DecideStep, TrackStep, ConfirmRequestStep, PublishStep, SubmitStep,
       WaitStep, ConfirmSignatureStep, TimeOutStep DEF Step
  <2>8. ASSUME NEW who \in SUBSET Procs, CalculateSignature(who) PROVE IInv'
    BY <2>8, CalculateStep
  <2> QED
    BY <1>1, <2>1, <2>3, <2>4, <2>5, <2>6, <2>7, <2>8 DEF Next
<1>2. CASE UNCHANGED vars
  BY <1>2 DEF IInv, TypeOK, DeduplicatorIsExact, DownIsIdle, vars, chainVars,
              clientVars, historyVars
<1> QED
  BY <1>1, <1>2

LEMMA InitDown == Init => DownIsIdle
  BY DEF Init, DownIsIdle

LEMMA SigningInvariant == Spec => [](IInv /\ DownIsIdle)
<1>1. Init => IInv /\ DownIsIdle
  BY InitIInv, InitDown
<1>2. (IInv /\ DownIsIdle) /\ [Next]_vars => (IInv /\ DownIsIdle)'
  BY NextIInv
<1> QED
  BY <1>1, <1>2, PTL DEF Spec

\* Every reachable state of the signing clients is well typed.
THEOREM SigningTypeCorrect == Spec => []TypeOK
<1>1. IInv => TypeOK
  BY DEF IInv
<1> QED
  BY <1>1, SigningInvariant, PTL

\* For any number of members and crashes, the deduplicator admits one goroutine of
\* a member at a time and tracks the digest exactly as long as that one runs.
THEOREM SigningDeduplicated == Spec => []DeduplicatorIsExact
<1>1. IInv => DeduplicatorIsExact
  BY DEF IInv
<1> QED
  BY <1>1, SigningInvariant, PTL
-----------------------------------------------------------------------------
(* One dropped fork.                                                       *)

Deciding == {"attempting", "untracked", "awaited", "requested"}
Confirming == {"confirming first", "confirming"}
Committed == {"calculating"} \cup Publishing

\* While at most one fork is dropped, a request or a signature in these states
\* is never dropped again.
RequestFinal == requested /\ (requestAge = Confirmations \/ reorgs # 0)
SignatureFinal == signed /\ (signedAge = Confirmations \/ reorgs # 0)

\* Before a fork is dropped, a goroutine that decides whether to sign, or waits for
\* the signature, does not count more blocks than the chain has on top of the
\* request or of the signature.
CountsOnChain(p) ==
    /\ pc[p] \in Deciding =>
         /\ requested
         /\ p[2] = "event" \/ pc[p] = "requested" => baseAge[p] <= requestAge
    /\ pc[p] \in Confirming => signed /\ baseAge[p] <= signedAge

BeforeFork ==
    /\ \A a \in events : requested /\ a <= requestAge
    /\ signed => requested /\ signedAge <= requestAge
    /\ \A p \in Procs : CountsOnChain(p)

\* What the members did is about a final request and a final signature.
Founded ==
    /\ \A p \in Procs : pc[p] \in Committed => RequestFinal
    /\ calculated => RequestFinal
    /\ published # {} => SignatureFinal

ForkInv ==
    /\ reorgs = 0 => BeforeFork
    /\ reorgs <= 1 => Founded

LEMMA PhasesDiffer ==
    /\ {"attempting", "untracked", "awaited"} \cap (Confirming \cup Committed) = {}
    /\ "requested" \in Deciding /\ "requested" \notin Confirming \cup Committed
    /\ {"idle", "starting"} \cap (Deciding \cup Confirming \cup Committed) = {}
    /\ Committed \cap Deciding = {}
    /\ Confirming \subseteq Committed
  BY DEF Deciding, Confirming, Committed, Publishing

\* A step that leaves the chain's request and signature alone and moves the
\* goroutines where they may be.
LEMMA GoroutineFork ==
    ASSUME ForkInv,
           UNCHANGED <<requested, requestAge, signedBy, signedAge, events, reorgs>>,
           reorgs = 0 => \A p \in Procs : CountsOnChain(p)',
           reorgs <= 1 => \A p \in Procs : pc'[p] \in Committed => RequestFinal,
           reorgs <= 1 => (calculated' => RequestFinal),
           reorgs <= 1 => (published' # {} => SignatureFinal)
    PROVE  ForkInv'
<1>1. RequestFinal' = RequestFinal /\ SignatureFinal' = SignatureFinal /\ signed' = signed
  BY DEF RequestFinal, SignatureFinal, signed
<1>2. reorgs = 0 => BeforeFork'
  BY <1>1 DEF ForkInv, BeforeFork
<1>3. reorgs <= 1 => Founded'
  BY <1>1 DEF ForkInv, Founded
<1> QED
  BY <1>2, <1>3 DEF ForkInv

\* The same for the move of one goroutine.
LEMMA MoveFork ==
    ASSUME TypeOK, ForkInv, NEW p \in Procs, NEW to \in States,
           pc' = [pc EXCEPT ![p] = to],
           UNCHANGED <<requested, requestAge, signedBy, signedAge, events, reorgs, calculated>>,
           baseAge' \in [Procs -> Ages],
           \A q \in Procs \ {p} : baseAge'[q] = baseAge[q],
           reorgs = 0 => CountsOnChain(p)',
           reorgs <= 1 => (to \in Committed => RequestFinal),
           reorgs <= 1 => (published' # {} => SignatureFinal)
    PROVE  ForkInv'
<1>1. \A q \in Procs : pc'[q] = IF q = p THEN to ELSE pc[q]
  BY DEF TypeOK
<1>2. \A q \in Procs \ {p} : CountsOnChain(q)' = CountsOnChain(q)
  BY <1>1 DEF CountsOnChain, signed
<1>3. reorgs = 0 => \A q \in Procs : CountsOnChain(q)'
  BY <1>2 DEF ForkInv, BeforeFork
<1>4. reorgs <= 1 => \A q \in Procs : pc'[q] \in Committed => RequestFinal
  BY <1>1 DEF ForkInv, Founded
<1>5. reorgs <= 1 => (calculated' => RequestFinal)
  BY DEF ForkInv, Founded
<1> QED
  BY <1>3, <1>4, <1>5, GoroutineFork

\* A move to a state that promises nothing.
LEMMA MoveAway ==
    ASSUME TypeOK, ForkInv, NEW p \in Procs, NEW to \in {"idle", "starting"},
           pc' = [pc EXCEPT ![p] = to],
           UNCHANGED <<requested, requestAge, signedBy, signedAge, events, reorgs, calculated>>,
           baseAge' \in [Procs -> Ages],
           \A q \in Procs \ {p} : baseAge'[q] = baseAge[q],
           reorgs <= 1 => (published' # {} => SignatureFinal)
    PROVE  ForkInv'
<1>1. pc'[p] = to /\ to \notin Deciding \cup Confirming \cup Committed /\ to \in States
  BY PhasesDiffer DEF TypeOK, States
<1>2. CountsOnChain(p)'
  BY <1>1 DEF CountsOnChain
<1> QED
  BY <1>1, <1>2, MoveFork

LEMMA DecideFork ==
    ASSUME TypeOK, ForkInv, NEW p \in Procs,
           \/ \E a \in events : Deliver(p, a)
           \/ CheckAwaiting(p)
           \/ NotTracked(p)
           \/ IsAwaited(p)
    PROVE  ForkInv'
<1>0. /\ UNCHANGED <<requested, requestAge, signedBy, signedAge, events, reorgs, calculated,
                     published>>
      /\ reorgs <= 1 => (published' # {} => SignatureFinal)
  BY DEF Deliver, CheckAwaiting, NotTracked, IsAwaited, chainVars, historyVars, ForkInv,
         Founded
<1>1. baseAge' \in [Procs -> Ages] /\ \A q \in Procs \ {p} : baseAge'[q] = baseAge[q]
  BY DEF TypeOK, Deliver, CheckAwaiting, NotTracked, IsAwaited
<1>2. PICK to \in {"idle", "attempting", "untracked", "awaited"} :
        pc' = [pc EXCEPT ![p] = to]
  BY DEF Deliver, CheckAwaiting, NotTracked, IsAwaited, Retry, Goto
<1>3. CASE to = "idle"
  BY <1>0, <1>1, <1>2, <1>3, MoveAway
<1>4. CASE to # "idle"
  <2>1. pc'[p] = to /\ to \in States /\ to # "requested" /\ to \notin Confirming \cup Committed
    BY <1>2, <1>4, PhasesDiffer DEF TypeOK, States
  <2>2. ASSUME reorgs = 0
        PROVE  requested /\ (p[2] = "event" => baseAge'[p] <= requestAge)
    <3>1. BeforeFork /\ CountsOnChain(p)
      BY <2>2 DEF ForkInv, BeforeFork
    <3>2. ASSUME NEW a \in events, Deliver(p, a)
          PROVE  requested /\ (p[2] = "event" => baseAge'[p] <= requestAge)
      BY <3>1, <3>2 DEF Deliver, BeforeFork, TypeOK
    <3>3. CASE CheckAwaiting(p)
      BY <1>2, <1>4, <3>3 DEF CheckAwaiting, Goto, awaiting, TypeOK
    <3>4. CASE NotTracked(p) \/ IsAwaited(p)
      BY <3>1, <3>4 DEF NotTracked, IsAwaited, Retry, Goto, CountsOnChain, Deciding
    <3> QED
      BY <3>2, <3>3, <3>4
  <2>3. reorgs = 0 => CountsOnChain(p)'
    BY <1>0, <2>1, <2>2 DEF CountsOnChain
  <2> QED
    BY <1>0, <1>1, <1>2, <2>1, <2>3, MoveFork
<1> QED
  BY <1>3, <1>4

\* The start-up check counts from the block of the request it reads here.
LEMMA TrackFork ==
    ASSUME TypeOK, ForkInv, NEW p \in Procs, Track(p)
    PROVE  ForkInv'
<1>0. /\ UNCHANGED <<requested, requestAge, signedBy, signedAge, events, reorgs, calculated,
                     published>>
      /\ reorgs <= 1 => (published' # {} => SignatureFinal)
  BY DEF Track, chainVars, historyVars, ForkInv, Founded
<1>1. baseAge' \in [Procs -> Ages] /\ \A q \in Procs \ {p} : baseAge'[q] = baseAge[q]
  BY ZeroAge DEF TypeOK, Track, RequestedAge
<1>2. CASE pc' = [pc EXCEPT ![p] = "idle"]
  BY <1>0, <1>1, <1>2, MoveAway
<1>3. CASE pc' = [pc EXCEPT ![p] = "requested"]
  <2>1. pc'[p] = "requested" /\ "requested" \in States
    BY <1>3 DEF TypeOK, States, Handling
  <2>2. ASSUME reorgs = 0
        PROVE  requested /\ baseAge'[p] <= requestAge
    <3>1. CountsOnChain(p) /\ pc[p] = "awaited"
      BY <2>2 DEF ForkInv, BeforeFork, Track, Goto
    <3>2. requested /\ (p[2] = "event" => baseAge[p] <= requestAge)
      BY <3>1 DEF CountsOnChain, Deciding
    <3>3. CASE p[2] = "check"
      <4>1. baseAge'[p] = requestAge
        BY <3>2, <3>3 DEF Track, RequestedAge, TypeOK
      <4>2. requestAge \in Nat
        BY SigningAssumption DEF TypeOK, Ages
      <4> QED
        BY <3>2, <4>1, <4>2
    <3>4. CASE p[2] = "event"
      BY <3>2, <3>4 DEF Track
    <3> QED
      BY <3>3, <3>4 DEF Procs
  <2>3. reorgs = 0 => CountsOnChain(p)'
    BY <1>0, <2>1, <2>2, PhasesDiffer DEF CountsOnChain
  <2> QED
    BY <1>0, <1>1, <1>3, <2>1, <2>3, MoveFork, PhasesDiffer
<1> QED
  BY <1>2, <1>3 DEF Track, Goto

\* Enough blocks on top of a block that is at most as old as the request's.
LEMMA ConfirmRequestFork ==
    ASSUME TypeOK, ForkInv, NEW p \in Procs, ConfirmRequest(p)
    PROVE  ForkInv'
<1>0. /\ UNCHANGED <<requested, requestAge, signedBy, signedAge, events, reorgs, calculated,
                     published, baseAge>>
      /\ reorgs <= 1 => (published' # {} => SignatureFinal)
  BY DEF ConfirmRequest, chainVars, historyVars, ForkInv, Founded
<1>1. baseAge' \in [Procs -> Ages] /\ \A q \in Procs \ {p} : baseAge'[q] = baseAge[q]
  BY <1>0 DEF TypeOK
<1>2. pc[p] = "requested" /\ baseAge[p] = Confirmations
  BY DEF ConfirmRequest, RequestConfirmed, Retry, Goto
<1>3. CASE pc' = [pc EXCEPT ![p] = "idle"]
  BY <1>0, <1>1, <1>3, MoveAway
<1>4. CASE pc' = [pc EXCEPT ![p] = "attempting"]
  <2>1. pc'[p] = "attempting" /\ "attempting" \in States
    BY <1>4 DEF TypeOK, States
  <2>2. reorgs = 0 => CountsOnChain(p)
    BY DEF ForkInv, BeforeFork
  <2>3. reorgs = 0 => CountsOnChain(p)'
    BY <1>0, <1>2, <2>1, <2>2, PhasesDiffer DEF CountsOnChain
  <2> QED
    BY <1>0, <1>1, <1>4, <2>1, <2>3, MoveFork, PhasesDiffer
<1>5. CASE awaiting /\ pc' = [pc EXCEPT ![p] = "calculating"]
  <2>1. pc'[p] = "calculating" /\ "calculating" \in States /\ "calculating" \notin Deciding
        /\ "calculating" \notin Confirming
    BY <1>5 DEF TypeOK, States, Handling, Deciding, Confirming
  <2>2. requested /\ reorgs \in Nat
    BY <1>5, BoundsAreNat DEF awaiting, TypeOK
  <2>3. reorgs = 0 => Confirmations <= requestAge
    BY <1>2, PhasesDiffer DEF ForkInv, BeforeFork, CountsOnChain
  <2>4. RequestFinal
    BY <2>2, <2>3, SigningAssumption DEF RequestFinal, TypeOK, Ages
  <2>5. CountsOnChain(p)'
    BY <2>1 DEF CountsOnChain
  <2> QED
    BY <1>0, <1>1, <1>5, <2>1, <2>4, <2>5, MoveFork
<1> QED
  BY <1>3, <1>4, <1>5 DEF ConfirmRequest, Retry, Goto

LEMMA CalculateFork ==
    ASSUME TypeOK, ForkInv, NEW who \in SUBSET Procs, CalculateSignature(who)
    PROVE  ForkInv'
<1>0. UNCHANGED <<requested, requestAge, signedBy, signedAge, events, reorgs, published,
                  baseAge>>
  BY DEF CalculateSignature, chainVars
<1>1. "calculating" \in Committed /\ "publishing" \notin Deciding \cup Confirming
  BY DEF Committed, Deciding, Confirming
<1>2. PICK p \in who : pc[p] = "calculating" /\ p \in Procs
  BY DEF CalculateSignature
<1>3. reorgs <= 1 => RequestFinal
  BY <1>1, <1>2 DEF ForkInv, Founded
<1>4. \A q \in Procs : pc'[q] = pc[q] \/ pc'[q] = "publishing"
  BY DEF CalculateSignature
<1>5. reorgs = 0 => \A q \in Procs : CountsOnChain(q)'
  <2> SUFFICES ASSUME reorgs = 0, NEW q \in Procs PROVE CountsOnChain(q)'
    OBVIOUS
  <2>1. CountsOnChain(q)
    BY DEF ForkInv, BeforeFork
  <2>2. CASE pc'[q] = pc[q]
    BY <1>0, <2>1, <2>2 DEF CountsOnChain, signed
  <2>3. CASE pc'[q] = "publishing"
    BY <1>1, <2>3 DEF CountsOnChain
  <2> QED
    BY <1>4, <2>2, <2>3
<1>6. reorgs <= 1 => (published' # {} => SignatureFinal)
  BY <1>0 DEF ForkInv, Founded
<1> QED
  BY <1>0, <1>3, <1>5, <1>6, GoroutineFork

\* A member that found that no signature is awaited counts from the latest block.
LEMMA PublishFork ==
    ASSUME TypeOK, ForkInv, NEW p \in Procs,
           Publish(p) \/ SubmitSignature(p) \/ WaitForSignature(p) \/ TimeOut(p)
    PROVE  ForkInv'
<1>0. /\ UNCHANGED <<requested, requestAge, signedBy, signedAge, events, reorgs, calculated,
                     published>>
      /\ reorgs <= 1 => (published' # {} => SignatureFinal)
  BY DEF Publish, SubmitSignature, WaitForSignature, TimeOut, chainVars, historyVars,
         ForkInv, Founded
<1>1. baseAge' \in [Procs -> Ages] /\ \A q \in Procs \ {p} : baseAge'[q] = baseAge[q]
  BY ZeroAge DEF TypeOK, Publish, SubmitSignature, WaitForSignature, TimeOut
<1>2. CASE pc' = [pc EXCEPT ![p] = "idle"]
  BY <1>0, <1>1, <1>2, MoveAway
<1>3. CASE pc' # [pc EXCEPT ![p] = "idle"]
  <2>1. PICK to \in Publishing :
          /\ pc' = [pc EXCEPT ![p] = to]
          /\ to \in Confirming => ~awaiting /\ baseAge' = [baseAge EXCEPT ![p] = 0]
    <3>1. CASE Publish(p)
      BY <1>3, <3>1 DEF Publish, Leave, Goto, Publishing, Confirming
    <3>2. CASE SubmitSignature(p)
      BY <3>2 DEF SubmitSignature, Goto, Publishing, Confirming
    <3>3. CASE WaitForSignature(p)
      BY <3>3 DEF WaitForSignature, Goto, Publishing, Confirming
    <3>4. CASE TimeOut(p)
      BY <1>3, <3>4 DEF TimeOut, Leave, Goto
    <3> QED
      BY <3>1, <3>2, <3>3, <3>4
  <2>2. to \in States /\ to \in Committed /\ to \notin Deciding /\ pc'[p] = to
    BY <2>1 DEF TypeOK, States, Handling, Publishing, Committed, Deciding
  <2>3. pc[p] \in Committed
    BY <1>3 DEF Publish, SubmitSignature, WaitForSignature, TimeOut, Leave, Goto, Committed,
                Publishing
  <2>4. reorgs <= 1 => RequestFinal
    BY <2>3 DEF ForkInv, Founded
  <2>5. ASSUME reorgs = 0 PROVE CountsOnChain(p)'
    <3>1. to \in Confirming => signed /\ baseAge'[p] = 0
      BY <2>1, <2>4, <2>5 DEF RequestFinal, awaiting, TypeOK
    <3>2. signedAge \in Nat
      BY SigningAssumption DEF TypeOK, Ages
    <3> QED
      BY <1>0, <2>2, <3>1, <3>2 DEF CountsOnChain, signed
  <2> QED
    BY <1>0, <1>1, <2>1, <2>2, <2>4, <2>5, MoveFork
<1> QED
  BY <1>2, <1>3

LEMMA ConfirmSignatureFork ==
    ASSUME TypeOK, ForkInv, NEW p \in Procs, NEW from \in Confirming,
           ConfirmSignature(p, from)
    PROVE  ForkInv'
<1>0. UNCHANGED <<requested, requestAge, signedBy, signedAge, events, reorgs, calculated,
                  baseAge>>
  BY DEF ConfirmSignature, chainVars
<1>1. baseAge' \in [Procs -> Ages] /\ \A q \in Procs \ {p} : baseAge'[q] = baseAge[q]
  BY <1>0 DEF TypeOK
<1>2. pc[p] = from /\ baseAge[p] = Confirmations
  BY DEF ConfirmSignature, SignatureConfirmed, Leave, Goto
<1>3. reorgs <= 1 => RequestFinal
  BY <1>2, PhasesDiffer DEF ForkInv, Founded
<1>4. CASE ~awaiting /\ Leave(p, from)
  <2>1. ASSUME reorgs <= 1 PROVE SignatureFinal
    <3>1. signed
      BY <1>3, <1>4, <2>1 DEF RequestFinal, awaiting
    <3>2. reorgs = 0 => Confirmations <= signedAge
      BY <1>2 DEF ForkInv, BeforeFork, CountsOnChain
    <3> QED
      BY <3>1, <3>2, SigningAssumption DEF SignatureFinal, TypeOK, Ages
  <2>2. pc' = [pc EXCEPT ![p] = "idle"]
    BY <1>4 DEF Leave, Goto
  <2> QED
    BY <1>0, <1>1, <2>1, <2>2, MoveAway
<1>5. CASE /\ published' = published
           /\ \E to \in {"submitting", "publishing"} : pc' = [pc EXCEPT ![p] = to]
  <2>1. PICK to \in {"submitting", "publishing"} : pc' = [pc EXCEPT ![p] = to]
    BY <1>5
  <2>2. to \in States /\ to \notin Deciding \cup Confirming /\ pc'[p] = to
    BY <2>1 DEF TypeOK, States, Handling, Publishing, Confirming, Deciding
  <2>3. CountsOnChain(p)'
    BY <2>2 DEF CountsOnChain
  <2>4. reorgs <= 1 => (published' # {} => SignatureFinal)
    BY <1>5 DEF ForkInv, Founded
  <2> QED
    BY <1>0, <1>1, <1>3, <2>1, <2>2, <2>3, <2>4, MoveFork
<1> QED
  BY <1>4, <1>5 DEF ConfirmSignature, Goto

LEMMA RestartFork ==
    ASSUME TypeOK, ForkInv, NEW m \in Members, Crash(m) \/ Restart(m)
    PROVE  ForkInv'
<1>0. /\ UNCHANGED <<requested, requestAge, signedBy, signedAge, events, reorgs, calculated,
                     published, baseAge>>
      /\ reorgs <= 1 => (published' # {} => SignatureFinal)
      /\ reorgs <= 1 => (calculated' => RequestFinal)
  BY DEF Crash, Restart, chainVars, historyVars, ForkInv, Founded
<1>1. \A p \in Procs : pc'[p] = pc[p] \/ pc'[p] \in {"idle", "starting"}
  BY DEF TypeOK, Crash, Restart
<1>2. reorgs = 0 => \A p \in Procs : CountsOnChain(p)'
  <2> SUFFICES ASSUME reorgs = 0, NEW p \in Procs PROVE CountsOnChain(p)'
    OBVIOUS
  <2>1. CountsOnChain(p)
    BY DEF ForkInv, BeforeFork
  <2>2. CASE pc'[p] = pc[p]
    BY <1>0, <2>1, <2>2 DEF CountsOnChain, signed
  <2>3. CASE pc'[p] \in {"idle", "starting"}
    BY <2>3, PhasesDiffer DEF CountsOnChain
  <2> QED
    BY <1>1, <2>2, <2>3
<1>3. reorgs <= 1 => \A p \in Procs : pc'[p] \in Committed => RequestFinal
  BY <1>1, PhasesDiffer DEF ForkInv, Founded
<1> QED
  BY <1>0, <1>2, <1>3, GoroutineFork

\* Growing old keeps the order of two blocks, and a final block final.
LEMMA OlderOrder ==
    /\ \A a, b \in Ages : a <= b => Older(a) <= Older(b)
    /\ Older(Confirmations) = Confirmations
  BY SigningAssumption DEF Ages, Older

LEMMA NewBlockFork ==
    ASSUME TypeOK, ForkInv, NewBlock
    PROVE  ForkInv'
<1>0. /\ UNCHANGED <<requested, signedBy, reorgs, pc, calculated, published>>
      /\ requestAge \in Ages /\ signedAge \in Ages /\ events \subseteq Ages
      /\ baseAge \in [Procs -> Ages]
      /\ requestAge' = Older(requestAge) /\ signedAge' = Older(signedAge)
      /\ events' = {Older(a) : a \in events}
      /\ signed' = signed
  BY DEF TypeOK, NewBlock, historyVars, signed
<1>1. (RequestFinal => RequestFinal') /\ (SignatureFinal => SignatureFinal')
  BY <1>0, OlderOrder DEF RequestFinal, SignatureFinal
<1>2. ASSUME reorgs = 0 PROVE BeforeFork'
  <2>1. BeforeFork
    BY <1>2 DEF ForkInv
  <2>2. \A a \in events' : requested /\ a <= requestAge'
    BY <1>0, <2>1, OlderOrder DEF BeforeFork
  <2>3. signed => requested /\ signedAge' <= requestAge'
    BY <1>0, <2>1, OlderOrder DEF BeforeFork
  <2>4. ASSUME NEW p \in Procs PROVE CountsOnChain(p)'
    <3>1. baseAge'[p] = Older(baseAge[p]) /\ baseAge[p] \in Ages
      BY <1>0 DEF NewBlock
    <3>2. CountsOnChain(p)
      BY <2>1 DEF BeforeFork
    <3> QED
      BY <1>0, <3>1, <3>2, OlderOrder DEF CountsOnChain
  <2> QED
    BY <1>0, <2>2, <2>3, <2>4 DEF BeforeFork
<1>3. ASSUME reorgs <= 1 PROVE Founded'
  BY <1>0, <1>1, <1>3 DEF ForkInv, Founded
<1> QED
  BY <1>0, <1>2, <1>3 DEF ForkInv

LEMMA ChainFork ==
    ASSUME TypeOK, ForkInv,
           \/ RequestSignature
           \/ \E m \in Members : Mine(m) \/ Lose(m)
           \/ \E dropped \in {"signature", "request"} : Reorg(dropped)
           \/ EndKeep
    PROVE  ForkInv'
<1>0. /\ UNCHANGED <<pc, baseAge, calculated, published>>
      /\ {requestAge, signedAge, reorgs, Confirmations} \subseteq Nat
      /\ requestAge <= Confirmations /\ signedAge <= Confirmations
      /\ baseAge \in [Procs -> Ages]
  BY SigningAssumption DEF RequestSignature, Mine, Lose, Reorg, EndKeep, clientVars,
     historyVars, TypeOK, Ages
<1>1. CASE RequestSignature
  <2>0. /\ ~requested /\ requested' /\ requestAge' = 0 /\ events' = events \cup {0}
        /\ UNCHANGED <<signedBy, signedAge, reorgs>>
        /\ signed' = signed
    BY <1>1 DEF RequestSignature, signed
  <2>1. ASSUME reorgs = 0 PROVE BeforeFork'
    <3>1. events = {} /\ ~signed /\ \A p \in Procs : CountsOnChain(p)
      BY <2>0, <2>1 DEF ForkInv, BeforeFork
    <3>2. \A p \in Procs : pc[p] \notin Deciding \cup Confirming
      BY <2>0, <3>1 DEF CountsOnChain
    <3>3. \A p \in Procs : CountsOnChain(p)'
      BY <1>0, <3>2 DEF CountsOnChain
    <3> QED
      BY <2>0, <3>1, <3>3 DEF BeforeFork
  <2>2. ~RequestFinal /\ SignatureFinal' = SignatureFinal
    BY <2>0 DEF RequestFinal, SignatureFinal
  <2>3. reorgs <= 1 => Founded'
    BY <1>0, <2>2 DEF ForkInv, Founded
  <2> QED
    BY <2>0, <2>1, <2>3 DEF ForkInv
<1>2. ASSUME NEW m \in Members, Mine(m) PROVE ForkInv'
  <2>0. UNCHANGED <<requested, requestAge, events, reorgs>>
    BY <1>2 DEF Mine
  <2>1. CASE ~awaiting
    <3>1. UNCHANGED <<signedBy, signedAge>>
      BY <1>2, <2>1 DEF Mine
    <3>2. \A p \in Procs : CountsOnChain(p)' = CountsOnChain(p)
      BY <1>0, <2>0, <3>1 DEF CountsOnChain, signed
    <3> QED
      BY <1>0, <2>0, <3>1, <3>2, GoroutineFork DEF ForkInv, BeforeFork, Founded
  <2>2. CASE awaiting
    <3>1. requested /\ ~signed /\ signed' /\ signedAge' = 0
      BY <1>2, <2>2, SigningAssumption DEF Mine, awaiting, signed
    <3>2. ASSUME reorgs = 0 PROVE BeforeFork'
      <4>1. \A p \in Procs : CountsOnChain(p)'
        BY <1>0, <2>0, <3>1, <3>2 DEF ForkInv, BeforeFork, CountsOnChain
      <4>2. \A a \in events : a <= requestAge
        BY <3>2 DEF ForkInv, BeforeFork
      <4> QED
        BY <1>0, <2>0, <3>1, <4>1, <4>2 DEF BeforeFork
    <3>3. RequestFinal' = RequestFinal /\ ~SignatureFinal
      BY <2>0, <3>1 DEF RequestFinal, SignatureFinal
    <3>4. reorgs <= 1 => Founded'
      BY <1>0, <3>3 DEF ForkInv, Founded
    <3> QED
      BY <2>0, <3>2, <3>4 DEF ForkInv
  <2> QED
    BY <2>1, <2>2
<1>3. CASE EndKeep \/ \E m \in Members : Lose(m)
  <2>1. UNCHANGED <<requested, requestAge, signedBy, signedAge, events, reorgs>>
    BY <1>3 DEF EndKeep, Lose
  <2>2. \A p \in Procs : CountsOnChain(p)' = CountsOnChain(p)
    BY <1>0, <2>1 DEF CountsOnChain, signed
  <2> QED
    BY <1>0, <2>1, <2>2, GoroutineFork DEF ForkInv, BeforeFork, Founded
<1>4. ASSUME NEW dropped \in {"signature", "request"}, Reorg(dropped) PROVE ForkInv'
  <2>1. reorgs' = reorgs + 1 /\ UNCHANGED <<requestAge, signedAge>>
    BY <1>4 DEF Reorg
  <2>2. ASSUME reorgs' <= 1 PROVE Founded'
    <3>1. reorgs = 0 /\ reorgs' = 1 /\ BeforeFork /\ Founded
      BY <1>0, <2>1, <2>2 DEF ForkInv
    <3>2. CASE dropped = "signature"
      <4>1. signed /\ signedAge < Confirmations /\ requested' = requested
        BY <1>4, <3>2 DEF Reorg
      <4>2. ~SignatureFinal /\ (RequestFinal => RequestFinal')
        BY <1>0, <3>1, <4>1 DEF SignatureFinal, RequestFinal
      <4> QED
        BY <1>0, <3>1, <4>2 DEF Founded
    <3>3. CASE dropped = "request"
      <4>1. requested /\ requestAge < Confirmations
        BY <1>4, <3>3 DEF Reorg
      <4>2. ~RequestFinal
        BY <1>0, <3>1, <4>1 DEF RequestFinal
      <4>3. ~SignatureFinal
        BY <1>0, <3>1, <4>1 DEF SignatureFinal, BeforeFork
      <4> QED
        BY <1>0, <3>1, <4>2, <4>3 DEF Founded
    <3> QED
      BY <3>2, <3>3
  <2> QED
    BY <1>0, <2>1, <2>2 DEF ForkInv
<1> QED
  BY <1>1, <1>2, <1>3, <1>4

LEMMA NextFork ==
    ASSUME TypeOK, ForkInv, [Next]_vars
    PROVE  ForkInv'
<1>1. CASE UNCHANGED vars
  <2>1. UNCHANGED <<requested, requestAge, signedBy, signedAge, events, reorgs, calculated,
                    published, pc, baseAge>>
    BY <1>1 DEF vars, chainVars, clientVars, historyVars
  <2>2. \A p \in Procs : CountsOnChain(p)' = CountsOnChain(p)
    BY <2>1 DEF CountsOnChain, signed
  <2> QED
    BY <2>1, <2>2, GoroutineFork DEF ForkInv, BeforeFork, Founded
<1>2. ASSUME NEW p \in Procs, Step(p) \/ TimeOut(p) PROVE ForkInv'
  BY <1>2, DecideFork, TrackFork, ConfirmRequestFork, PublishFork, ConfirmSignatureFork
     DEF Step, Confirming
<1>3. ASSUME Next PROVE ForkInv'
  BY <1>2, <1>3, NewBlockFork, ChainFork, RestartFork, DecideFork, CalculateFork DEF Next
<1> QED
  BY <1>1, <1>3

LEMMA ForkInvariant == Spec => [](TypeOK /\ ForkInv)
<1>1. Init => ForkInv
  <2>1. ASSUME Init PROVE \A p \in Procs : CountsOnChain(p) /\ pc[p] \notin Committed
    BY <2>1, PhasesDiffer DEF Init, CountsOnChain
  <2> QED
    BY <2>1 DEF Init, ForkInv, BeforeFork, Founded, signed
<1>2. IInv => TypeOK
  BY DEF IInv
<1>3. TypeOK /\ ForkInv /\ [Next]_vars => ForkInv'
  BY NextFork
<1> QED
  BY <1>1, <1>2, <1>3, SigningInvariant, PTL DEF Spec

\* While at most one fork is dropped, and for any number of members, crashes and
\* confirmations, the members sign only a digest whose request is on the chain:
\* ConfirmRequest waits for the confirmations of a block that is at most as old as
\* the one of the request.
THEOREM SignedWasRequested == Spec => [](reorgs <= 1 => SignsOnlyRequested)
<1>1. ForkInv => (reorgs <= 1 => SignsOnlyRequested)
  BY DEF ForkInv, Founded, RequestFinal, SignsOnlyRequested
<1> QED
  BY <1>1, ForkInvariant, PTL

\* Likewise a member stops publishing only when a signature is on the chain, and
\* one dropped fork does not take it back.
THEOREM PublishedStays == Spec => [](reorgs <= 1 => SignatureStays)
<1>1. ForkInv => (reorgs <= 1 => SignatureStays)
  BY DEF ForkInv, Founded, SignatureFinal, SignatureStays
<1> QED
  BY <1>1, ForkInvariant, PTL
=============================================================================
