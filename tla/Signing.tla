------------------------------ MODULE Signing ------------------------------
(***************************************************************************)
(* How the clients of a keep's members sign a digest: the handler of the   *)
(* signature-requested event and checkAwaitingSignature at start-up        *)
(* (pkg/client) behind the deduplicator, CalculateSignature and            *)
(* publishSignature (pkg/node).                                            *)
(*                                                                         *)
(* The module follows one digest of one keep.  The request and the         *)
(* signature are in blocks of some age, counted up to Confirmations; a     *)
(* reorganisation drops blocks younger than that.  Events come from any    *)
(* fork, late and any number of times.                                     *)
(***************************************************************************)
EXTENDS Naturals, FiniteSets

CONSTANTS
    Members,        \* members of the keep, one client each
    NoMember,
    Confirmations,  \* blockConfirmations
    MaxRestarts,    \* bound on crashes
    MaxReorgs       \* bound on reorganisations

ASSUME SigningAssumption ==
    /\ NoMember \notin Members
    /\ Confirmations \in Nat
    /\ {MaxRestarts, MaxReorgs} \subseteq Nat

\* The two goroutines of a member that may handle the request.
Procs == Members \X {"event", "check"}
Member(p) == p[1]
Ages == 0..Confirmations

VARIABLES
    requested,   \* chain: the digest was requested
    requestAge,
    signedBy,    \* chain: member whose signature was accepted
    signedAge,
    events,      \* ages of the events emitted, in forks too
    active,      \* chain: the keep is active
    pending,     \* members with a signature transaction that is not mined
    reorgs,
    faulty,      \* calls to the chain node may fail, and the signing timeout pass
    up,          \* member -> its client runs
    restarts,
    tracked,     \* members whose deduplicator tracks the digest
    pc,          \* goroutine -> where it is
    baseAge,     \* goroutine -> age of the block it counts confirmations from
    calculated,  \* history: the members calculated a signature
    published    \* history: members that left because of a confirmed signature

chainVars == <<requested, requestAge, signedBy, signedAge, events, active, pending, reorgs,
               faulty>>
clientVars == <<up, restarts, tracked, pc, baseAge>>
historyVars == <<calculated, published>>
vars == <<chainVars, clientVars, historyVars>>

signed == signedBy # NoMember

\* keep.IsAwaitingSignature(digest)
awaiting == requested /\ ~signed

\* A goroutine in one of these states was told to handle the request.
Publishing == {"publishing", "confirming first", "submitting", "waiting",
               "confirming"}
Handling == {"requested", "calculating"} \cup Publishing

TypeOK ==
    /\ requested \in BOOLEAN /\ active \in BOOLEAN /\ calculated \in BOOLEAN
    /\ requestAge \in Ages /\ signedAge \in Ages
    /\ signedBy \in Members \cup {NoMember}
    /\ events \subseteq Ages
    /\ pending \subseteq Members
    /\ reorgs \in 0..MaxReorgs
    /\ faulty \in BOOLEAN
    /\ up \in [Members -> BOOLEAN]
    /\ restarts \in 0..MaxRestarts
    /\ tracked \subseteq Members
    /\ pc \in [Procs -> {"idle", "starting", "attempting", "untracked", "awaited"}
                          \cup Handling]
    /\ baseAge \in [Procs -> Ages]
    /\ published \subseteq Members

Init ==
    /\ requested = FALSE /\ requestAge = 0
    /\ signedBy = NoMember /\ signedAge = 0
    /\ events = {}
    /\ active = TRUE
    /\ pending = {}
    /\ reorgs = 0
    /\ faulty \in BOOLEAN
    /\ up = [m \in Members |-> TRUE]
    /\ restarts = 0
    /\ tracked = {}
    /\ pc = [p \in Procs |-> "idle"]
    /\ baseAge = [p \in Procs |-> 0]
    /\ calculated = FALSE
    /\ published = {}

-----------------------------------------------------------------------------
(* The chain.                                                              *)

RequestSignature ==
    /\ active
    /\ ~requested
    /\ requested' = TRUE
    /\ requestAge' = 0
    /\ events' = events \cup {0}
    /\ UNCHANGED <<signedBy, signedAge, active, pending, reorgs, faulty, clientVars,
                   historyVars>>

Older(age) == IF age < Confirmations THEN age + 1 ELSE age

NewBlock ==
    /\ requestAge' = Older(requestAge)
    /\ signedAge' = Older(signedAge)
    /\ events' = {Older(a) : a \in events}
    /\ baseAge' = [p \in Procs |-> Older(baseAge[p])]
    /\ UNCHANGED <<requested, signedBy, active, pending, reorgs, faulty, up,
                   restarts, tracked, pc, historyVars>>

\* submitSignature: it reverts unless a signature is awaited.
Mine(m) ==
    /\ m \in pending
    /\ pending' = pending \ {m}
    /\ signedBy' = IF awaiting THEN m ELSE signedBy
    /\ signedAge' = IF awaiting THEN 0 ELSE signedAge
    /\ UNCHANGED <<requested, requestAge, events, active, reorgs, faulty, clientVars,
                   historyVars>>

\* A transaction is never mined, for example because its gas price is too low.
Lose(m) ==
    /\ m \in pending
    /\ pending' = pending \ {m}
    /\ UNCHANGED <<requested, requestAge, signedBy, signedAge, events, active, reorgs, faulty,
                   clientVars, historyVars>>

\* The block of the signature is dropped, or that of the request with it.  The
\* transaction of the signature is pending again.
Reorg(dropped) ==
    /\ reorgs < MaxReorgs
    /\ reorgs' = reorgs + 1
    /\ \/ /\ dropped = "signature"
          /\ signed /\ signedAge < Confirmations
          /\ UNCHANGED requested
       \/ /\ dropped = "request"
          /\ requested /\ requestAge < Confirmations
          /\ requested' = FALSE
    /\ signedBy' = NoMember
    /\ pending' = pending \cup ({signedBy} \ {NoMember})
    /\ UNCHANGED <<requestAge, signedAge, events, active, faulty, clientVars, historyVars>>

EndKeep ==
    /\ active
    /\ active' = FALSE
    /\ UNCHANGED <<requested, requestAge, signedBy, signedAge, events, pending, reorgs, faulty,
                   clientVars, historyVars>>

-----------------------------------------------------------------------------
(* How goroutines move.                                                    *)

Goto(p, from, to) ==
    /\ up[Member(p)]
    /\ pc[p] = from
    /\ pc' = [pc EXCEPT ![p] = to]

\* The deferred NotifySigningCompleted.
Complete(p) == tracked' = tracked \ {Member(p)}

\* An attempt returned an error: it is made again unless the timeout has passed.
Retry(p, from) == Goto(p, from, "attempting") \/ (faulty /\ Goto(p, from, "idle"))

-----------------------------------------------------------------------------
(* Whether to handle the request.                                          *)

\* A subscription delivers an event of age a.
Deliver(p, a) ==
    /\ p[2] = "event"
    /\ a \in events
    /\ Goto(p, "idle", "attempting")
    /\ baseAge' = [baseAge EXCEPT ![p] = a]
    /\ UNCHANGED <<up, restarts, tracked, chainVars, historyVars>>

\* checkAwaitingSignature at start-up; an error ends it.
CheckAwaiting(p) ==
    /\ p[2] = "check"
    /\ \/ Goto(p, "starting", IF awaiting THEN "attempting" ELSE "idle")
       \/ faulty /\ Goto(p, "starting", "idle")
    /\ UNCHANGED <<up, restarts, tracked, baseAge, chainVars, historyVars>>

\* requestedSignatures.has, IsAwaitingSignature and requestedSignatures.add of
\* NotifySigningStarted.
NotTracked(p) ==
    /\ Goto(p, "attempting", IF Member(p) \in tracked THEN "idle" ELSE "untracked")
    /\ UNCHANGED <<up, restarts, tracked, baseAge, chainVars, historyVars>>

IsAwaited(p) ==
    /\ \/ Goto(p, "untracked", IF awaiting THEN "awaited" ELSE "idle")
       \/ faulty /\ Retry(p, "untracked")
    /\ UNCHANGED <<up, restarts, tracked, baseAge, chainVars, historyVars>>

\* SignatureRequestedBlock is 0 for a digest that was not requested.
RequestedAge == IF requested THEN requestAge ELSE Confirmations

\* Mutant of Track: the result of add is not used.
TrackAnyway(p) ==
    /\ Goto(p, "awaited", "requested")
    /\ tracked' = tracked \cup {Member(p)}
    /\ baseAge' = IF p[2] = "check" THEN [baseAge EXCEPT ![p] = RequestedAge] ELSE baseAge
    /\ UNCHANGED <<up, restarts, chainVars, historyVars>>

\* The start-up check then reads the block of the request, where the handler of
\* an event has the block of the event.
Track(p) ==
    /\ Goto(p, "awaited", IF Member(p) \in tracked THEN "idle" ELSE "requested")
    /\ tracked' = tracked \cup {Member(p)}
    /\ baseAge' = IF p[2] = "check" THEN [baseAge EXCEPT ![p] = RequestedAge] ELSE baseAge
    /\ UNCHANGED <<up, restarts, chainVars, historyVars>>

\* Mutant of RequestConfirmed: the handler does not wait for confirmations.
RequestSeen(p) == baseAge[p] \in Ages

\* WaitForBlockConfirmations has returned.
RequestConfirmed(p) == baseAge[p] = Confirmations

\* Only the start-up check also asks whether the keep is active.
ConfirmRequest(p) ==
    /\ RequestConfirmed(p)
    /\ \/ /\ awaiting /\ (p[2] = "check" => active)
          /\ Goto(p, "requested", "calculating")
          /\ UNCHANGED tracked
       \/ /\ ~(awaiting /\ (p[2] = "check" => active))
          /\ Goto(p, "requested", "idle")
          /\ Complete(p)
       \/ /\ faulty
          /\ Retry(p, "requested")
          /\ Complete(p)
    /\ UNCHANGED <<up, restarts, baseAge, chainVars, historyVars>>

-----------------------------------------------------------------------------
(* CalculateSignature.                                                     *)

\* The threshold protocol needs every member.  Some of them may miss its last
\* messages: their attempt fails and they stay in the loop, which does not look
\* at the chain.
CalculateSignature(who) ==
    /\ who # {}
    /\ \A m \in Members : \E p \in Procs : Member(p) = m /\ pc[p] = "calculating"
    /\ \A p \in who : pc[p] = "calculating"
    /\ pc' = [p \in Procs |-> IF p \in who THEN "publishing" ELSE pc[p]]
    /\ calculated' = TRUE
    /\ UNCHANGED <<up, restarts, tracked, baseAge, chainVars, published>>

\* The handler ends.  The error of CalculateSignature is not returned, so it is
\* not retried.
Leave(p, from) ==
    /\ Goto(p, from, "idle")
    /\ Complete(p)

\* The timeout has passed at the head of one of the two loops.
TimeOut(p) ==
    /\ faulty
    /\ Leave(p, "calculating") \/ Leave(p, "publishing")
    /\ UNCHANGED <<up, restarts, baseAge, chainVars, historyVars>>

-----------------------------------------------------------------------------
(* publishSignature.                                                       *)

\* IsActive and IsAwaitingSignature.  An error goes back to the head of the loop,
\* which leaves the state as it is.
Publish(p) ==
    /\ \/ ~active /\ Leave(p, "publishing") /\ UNCHANGED baseAge
       \/ /\ active /\ awaiting
          /\ Goto(p, "publishing", "submitting")
          /\ UNCHANGED <<tracked, baseAge>>
       \/ /\ active /\ ~awaiting
          /\ Goto(p, "publishing", "confirming first")
          /\ baseAge' = [baseAge EXCEPT ![p] = 0]
          /\ UNCHANGED tracked
    /\ UNCHANGED <<up, restarts, chainVars, historyVars>>

\* The chain node refuses a transaction that would revert.  The member then looks
\* whether another one was faster.
SubmitSignature(p) ==
    /\ \/ /\ awaiting
          /\ Goto(p, "submitting", "waiting")
          /\ pending' = pending \cup {Member(p)}
          /\ UNCHANGED baseAge
       \/ /\ ~awaiting
          /\ Goto(p, "submitting", "confirming")
          /\ baseAge' = [baseAge EXCEPT ![p] = 0]
          /\ UNCHANGED pending
       \/ /\ faulty
          /\ Goto(p, "submitting", "publishing")
          /\ UNCHANGED <<baseAge, pending>>
    /\ UNCHANGED <<requested, requestAge, signedBy, signedAge, events, active, reorgs, faulty,
                   up, restarts, tracked, historyVars>>

\* Mutant of WaitForSignature: it waits without a timeout.
WaitForSignatureForever(p) ==
    /\ ~awaiting
    /\ Goto(p, "waiting", "confirming")
    /\ baseAge' = [baseAge EXCEPT ![p] = 0]
    /\ UNCHANGED <<up, restarts, tracked, chainVars, historyVars>>

\* waitForSignature, which gives up after waitTimeout.
WaitForSignature(p) ==
    /\ \/ /\ ~awaiting
          /\ Goto(p, "waiting", "confirming")
          /\ baseAge' = [baseAge EXCEPT ![p] = 0]
       \/ /\ awaiting \/ faulty
          /\ Goto(p, "waiting", "publishing")
          /\ UNCHANGED baseAge
    /\ UNCHANGED <<up, restarts, tracked, chainVars, historyVars>>

\* Mutant of SignatureConfirmed: the member does not wait for confirmations.
SignatureSeen(p) == baseAge[p] \in Ages

\* confirmSignature counts the blocks from the one it starts at.
SignatureConfirmed(p) == baseAge[p] = Confirmations

\* A member that fails to confirm at the start of an attempt goes on with it, later
\* it makes another attempt.
ConfirmSignature(p, from) ==
    /\ SignatureConfirmed(p)
    /\ \/ /\ ~awaiting
          /\ Leave(p, from)
          /\ published' = published \cup {Member(p)}
       \/ /\ awaiting \/ faulty
          /\ Goto(p, from, IF from = "confirming first" THEN "submitting" ELSE "publishing")
          /\ UNCHANGED <<tracked, published>>
    /\ UNCHANGED <<up, restarts, baseAge, chainVars, calculated>>

-----------------------------------------------------------------------------
(* Crash and start-up.                                                     *)

Crash(m) ==
    /\ up[m]
    /\ restarts < MaxRestarts
    /\ up' = [up EXCEPT ![m] = FALSE]
    /\ restarts' = restarts + 1
    /\ tracked' = tracked \ {m}
    /\ pc' = [p \in Procs |-> IF Member(p) = m THEN "idle" ELSE pc[p]]
    /\ UNCHANGED <<baseAge, chainVars, historyVars>>

Restart(m) ==
    /\ ~up[m]
    /\ up' = [up EXCEPT ![m] = TRUE]
    /\ pc' = [pc EXCEPT ![<<m, "check">>] = "starting"]
    /\ UNCHANGED <<restarts, tracked, baseAge, chainVars, historyVars>>

-----------------------------------------------------------------------------

Step(p) ==
    \/ CheckAwaiting(p)
    \/ NotTracked(p)
    \/ IsAwaited(p)
    \/ Track(p)
    \/ ConfirmRequest(p)
    \/ Publish(p)
    \/ SubmitSignature(p)
    \/ WaitForSignature(p)
    \/ \E from \in {"confirming first", "confirming"} : ConfirmSignature(p, from)

Next ==
    \/ RequestSignature
    \/ NewBlock
    \/ \E m \in Members : Mine(m) \/ Lose(m) \/ Crash(m) \/ Restart(m)
    \/ \E dropped \in {"signature", "request"} : Reorg(dropped)
    \/ EndKeep
    \/ \E p \in Procs, a \in events : Deliver(p, a)
    \/ \E p \in Procs : Step(p) \/ TimeOut(p)
    \/ \E who \in SUBSET Procs : CalculateSignature(who)

Spec == Init /\ [][Next]_vars

\* Blocks are mined, goroutines run, a stopped client is started again, and a
\* subscription fetches past events at every tick.  An attempt of the protocol
\* succeeds once all members stay in it.  A transaction that is sent again and
\* again is mined.  Nothing is assumed of a behaviour in which calls may fail.
FairSpec ==
    /\ Spec
    /\ WF_vars(~faulty /\ NewBlock)
    /\ WF_vars(\E who \in SUBSET Procs : ~faulty /\ CalculateSignature(who))
    /\ \A p \in Procs : WF_vars(~faulty /\ Step(p))
    /\ \A m \in Members :
         /\ SF_vars(~faulty /\ Mine(m))
         /\ WF_vars(~faulty /\ Restart(m))
         /\ WF_vars(\E a \in events : ~faulty /\ Deliver(<<m, "event">>, a))

-----------------------------------------------------------------------------
(* Properties.                                                             *)

\* NotifySigningStarted checks and then acts, and the event and the start-up
\* check race for it; yet a member handles the digest in one goroutine at a time,
\* and the deduplicator tracks it exactly that long, so a retry is not swallowed.
DeduplicatorIsExact ==
    /\ \A p, q \in Procs :
         pc[p] \in Handling /\ pc[q] \in Handling /\ Member(p) = Member(q) => p = q
    /\ tracked = {Member(p) : p \in {q \in Procs : pc[q] \in Handling}}

\* The members calculate a signature only over a digest whose request is on the
\* chain and stays there: one dropped fork never makes them sign what the
\* keep would take for a fraud.
SignsOnlyRequested == calculated => requested

\* When a member is content that the signature was published and stops, the
\* signature is on the chain, and one dropped fork does not take it back.
SignatureStays == published # {} => signed

\* Every confirmed request gets a signature for good, unless the keep ends first,
\* although members crash, transactions are lost and a fork is dropped on the way,
\* as long as no call fails and no timeout passes.
RequestIsServed ==
    (~faulty /\ requested /\ requestAge = Confirmations)
        ~> ((signed /\ signedAge = Confirmations) \/ ~active)
=============================================================================
