------------------------- MODULE ThresholdProtocols -------------------------
(***************************************************************************)
(* The off-chain protocols the members of a keep run with each other.      *)
(*                                                                         *)
(* A key generation announces the members, connects a party of the         *)
(* threshold library to the network, waits until every member is ready and *)
(* only then starts the party. A signing does the same without announcing. *)
(* A liquidation recovery announces the members, exchanges their Bitcoin   *)
(* addresses and fees and signs the transaction built from them. An        *)
(* attempt that times out is retried from its beginning.                   *)
(*                                                                         *)
(* Announcements, recovery infos and readiness notes are broadcast: sent   *)
(* again and again while their sender is in the phase, and once more when  *)
(* it leaves it. They carry no number of the attempt, so a late one counts *)
(* for the next attempt. The rounds of the threshold library are           *)
(* represented by one round of unicast messages, each sent once, and one   *)
(* round of broadcast messages. A member hears its own broadcast.          *)
(***************************************************************************)
EXTENDS Integers, FiniteSets, FiniteSetsExt

CONSTANTS
    Groups,     \* each with its members, their job ("keygen", "signing" or
                \* "recovery") and a bound on what may go wrong: messages that
                \* are lost, early timeouts, connections that fail
    Fee,        \* fee per vbyte each member resolves for the recovery
    PoolSize,   \* target size of the pre-parameters pool
    MaxInt32,   \* largest 32-bit signed integer
    AddressCount, \* derived addresses of a member that are told apart
    Address     \* the addresses of each member by derivation index, as numbers
                \* in the order of the strings

ASSUME ProtocolAssumption ==
    /\ \A g \in Groups :
          /\ Cardinality(g.members) >= 2 /\ g.faults \in Nat
          /\ g.job \in {"keygen", "signing", "recovery"}
          /\ \A m \in g.members :
                /\ Fee[m] \in 1..MaxInt32
                /\ \A i \in 0..(AddressCount - 1) : Address[m][i] \in Nat
    /\ {PoolSize, AddressCount} \subseteq Nat \ {0}

VARIABLES
    group,   \* the group and its job
    phase,   \* where each member is
    heard,   \* members it has heard from in this phase
    info,    \* recovery info of the members it has heard from
    address, \* derivation index of the address it offers
    pool,    \* number of pre-parameters in its pool
    box,     \* its pre-parameters box, with its content or destroyed
    shown,   \* history: parties started with what it took last from its pool
    party,   \* what its connected party was made from
    digest,  \* what its party signs
    got,     \* round messages its party has
    spoiled, \* its party cannot finish, messages of two attempts do not fit
    net,     \* messages on their way that are not sent again
    faults

attemptVars == <<phase, heard, info, party, digest, got, spoiled>>
paramsVars == <<pool, box, shown>>
protocolVars == <<group, attemptVars, paramsVars, address, net, faults>>

Members == group.members
Everyone == UNION {g.members : g \in Groups}
job == group.job
MaxFaults == group.faults

Exchanges == {"announcing", "exchanging", "readying"}
Phases == Exchanges \cup {"idle", "connecting", "running", "done"}

Peers(m) == Members \ {m}
NoInfo == [address |-> 0, fee |-> 0]
NoDigest == [outputs |-> <<>>, fee |-> 0]

\* The phases of an attempt, in their order.
First == IF job = "signing" THEN "connecting" ELSE "announcing"
After(p) ==
    CASE p = "announcing" -> IF job = "recovery" THEN "exchanging" ELSE "connecting"
      [] p = "exchanging" -> "connecting"
      [] p = "connecting" -> "readying"
      [] p = "readying" -> "running"

Rank(p) ==
    CASE p = "idle" -> 0 [] p = "announcing" -> 1 [] p = "exchanging" -> 2
      [] p = "connecting" -> 3 [] p = "readying" -> 4 [] p = "running" -> 5 [] p = "done" -> 6

Fault == faults < MaxFaults /\ faults' = faults + 1
NoFault == faults' = faults

ProtocolInit ==
    /\ group \in Groups
    /\ phase = [m \in Members |-> "idle"]
    /\ heard = [m \in Members |-> {}]
    /\ info = [m \in Members |-> [n \in Members |-> NoInfo]]
    /\ address = [m \in Members |-> 0]
    /\ pool = [m \in Members |-> 0]
    /\ box = [m \in Members |-> "none"]
    /\ shown = [m \in Members |-> 0]
    /\ party = [m \in Members |-> "none"]
    /\ digest = [m \in Members |-> NoDigest]
    /\ got = [m \in Members |-> {}]
    /\ spoiled = [m \in Members |-> FALSE]
    /\ net = {}
    /\ faults = 0

----------------------------------------------------------------------------
(* Messages. *)

Message(kind, a, b, content) == [kind |-> kind, from |-> a, to |-> b, content |-> content]

\* What the broadcast of a phase says.
OwnInfo(m) == [address |-> Address[m][address[m]], fee |-> Fee[m]]
Content(kind, a) == IF kind = "exchanging" THEN OwnInfo(a) ELSE NoInfo

\* A party has what its library waits for in each round.
HasRound1(m) == \A n \in Peers(m) : <<n, 1>> \in got[m]
HasRound2(m) == \A n \in Peers(m) : <<n, 2>> \in got[m]

\* Messages of a to b of this kind that can arrive now.
Offers(kind, a, b) ==
    {msg \in net : msg.kind = kind /\ msg.from = a /\ msg.to = b}
    \cup (IF kind \in Exchanges /\ phase[a] = kind
          THEN {Message(kind, a, b, Content(kind, a))} ELSE {})
    \cup (IF kind = "round2" /\ phase[a] = "running" /\ HasRound1(a)
          THEN {Message(kind, a, b, digest[a])} ELSE {})

\* A message tells its receiver something. Who was heard from already is not
\* counted again, but a recovery info replaces an earlier one of the same member.
IsNews(msg) ==
    \/ msg.from \notin heard[msg.to]
    \/ msg.kind = "exchanging" /\ info[msg.to][msg.from] # msg.content
News(m, n) == {msg \in Offers(phase[m], n, m) : IsNews(msg)}

\* When the context of a phase is done the message is sent once more. It is on
\* its way to the peers it is news for; the others have no use for it.
LastCopies(m, kind) ==
    LET copy(n) == Message(kind, m, n, Content(kind, m))
    IN IF kind \in Exchanges
       THEN {copy(n) : n \in {p \in Peers(m) : /\ Rank(phase[p]) <= Rank(kind)
                                               /\ phase[p] = kind => IsNews(copy(p))}}
       ELSE {}

----------------------------------------------------------------------------
(* Pre-parameters. *)

pumpPool(m) ==
    /\ job = "keygen" /\ pool[m] < PoolSize
    /\ pool' = [pool EXCEPT ![m] = @ + 1]
    /\ UNCHANGED <<group, attemptVars, box, shown, address, net, faults>>

IsEmpty(m) == box[m] = "empty"

\* The node takes a box before the first attempt and a new one before a later
\* attempt when the old one is empty, waiting for the pool if it must.
Refill(m) ==
    /\ job = "keygen" /\ phase[m] = "idle" /\ pool[m] > 0
    /\ box[m] = "none" \/ IsEmpty(m)
    /\ pool' = [pool EXCEPT ![m] = @ - 1]
    /\ box' = [box EXCEPT ![m] = "params"]
    /\ shown' = [shown EXCEPT ![m] = 0]
    /\ UNCHANGED <<group, attemptVars, address, net, faults>>

----------------------------------------------------------------------------
(* The phases of an attempt. *)

Enter(m, p) ==
    /\ phase' = [phase EXCEPT ![m] = p]
    /\ heard' = [heard EXCEPT ![m] = IF p \in Exchanges THEN {m} ELSE {}]

\* The next attempt begins retryDelay after the last one: what its broadcasts
\* left on their way has arrived by then, or is late and counts as a fault.
Attempt(m) ==
    /\ phase[m] = "idle"
    /\ job = "keygen" => box[m] # "none" /\ ~IsEmpty(m)
    /\ Enter(m, First)
    /\ LET left == {msg \in net : msg.from = m}
       IN \/ net' = net \ left /\ NoFault
          \/ net' = net /\ left # {} /\ Fault
    /\ UNCHANGED <<group, info, party, digest, got, spoiled, paramsVars, address>>

\* A broadcast of a member reaches the receiver of the phase.
Hear(m, n) ==
    /\ phase[m] \in Exchanges /\ n \in Peers(m)
    /\ \E msg \in News(m, n) :
          /\ heard' = [heard EXCEPT ![m] = @ \cup {n}]
          /\ info' = [info EXCEPT ![m][n] = IF phase[m] = "exchanging" THEN msg.content ELSE @]
          /\ net' = net \ {msg}
    /\ UNCHANGED <<group, phase, party, digest, got, spoiled, paramsVars, address, faults>>

\* The orders in which the map of the recovery infos may be gone through.
Orders == Bijection(1..Cardinality(Members), Members)

\* The addresses of all members, in the order in which the member comes upon them,
\* and the lowest of their fees.
Gathered(m, order) ==
    LET infos == [info[m] EXCEPT ![m] = OwnInfo(m)]
    IN [outputs |-> [i \in 1..Cardinality(Members) |-> infos[order[i]].address],
        fee |-> Min({infos[n].fee : n \in Members} \cup {MaxInt32})]

Rearrangements(list) ==
    {[i \in DOMAIN list |-> list[at[i]]] : at \in Bijection(DOMAIN list, DOMAIN list)}
sortStrings(list) ==
    CHOOSE sorted \in Rearrangements(list) :
        \A i, j \in DOMAIN list : i < j => sorted[i] <= sorted[j]

\* Mutant of BroadcastRecoveryAddress: the addresses are left as they come.
BroadcastRecoveryAddressUnsorted(m, order) == Gathered(m, order)

BroadcastRecoveryAddress(m, order) ==
    [Gathered(m, order) EXCEPT !.outputs = sortStrings(@)]

\* The protocol of a phase returns when everyone was heard from.
Leave(m) ==
    /\ heard[m] = Members
    /\ Enter(m, After(phase[m]))
    /\ net' = net \cup LastCopies(m, phase[m])

\* A recovery resolves its address once the members have announced themselves.
AnnounceProtocol(m) ==
    /\ phase[m] = "announcing" /\ Leave(m)
    /\ address' = [address EXCEPT ![m] = IF job = "recovery" THEN (@ + 1) % AddressCount ELSE @]
    /\ UNCHANGED <<group, info, party, digest, got, spoiled, paramsVars, faults>>

ExchangeRecoveryInfo(m) ==
    /\ phase[m] = "exchanging" /\ Leave(m)
    /\ \E order \in Orders :
          digest' = [digest EXCEPT ![m] = BroadcastRecoveryAddress(m, order)]
    /\ info' = [info EXCEPT ![m] = [n \in Members |-> NoInfo]]
    /\ UNCHANGED <<group, address, party, got, spoiled, paramsVars, faults>>

\* The party is made and connected to the network before the member is ready.
initializeKeyGenerationParty(m) == box[m]
initializeSigningParty(m) == "key"

connect(m) ==
    /\ phase[m] = "connecting"
    /\ party' = [party EXCEPT ![m] = IF job = "keygen" THEN initializeKeyGenerationParty(m)
                                                      ELSE initializeSigningParty(m)]
    /\ Enter(m, After(phase[m]))
    /\ UNCHANGED <<group, info, digest, got, spoiled, paramsVars, address, net, faults>>

\* Mutant of DestroyContent: the box keeps its content for the next attempt.
DestroyContentNot(m) == box' = box

DestroyContent(m) == box' = [box EXCEPT ![m] = IF job = "keygen" THEN "empty" ELSE @]

\* The content of the box is destroyed before the party shows it to the others; that
\* it does so is recorded whatever becomes of the box.
StartParty(m) ==
    /\ DestroyContent(m)
    /\ shown' = [shown EXCEPT ![m] = IF party[m] = "params" THEN @ + 1 ELSE @]

\* Mutant of readyProtocol: one member less is waited for.
readyProtocolOneLess(m) ==
    phase[m] = "readying" /\ Cardinality(heard[m]) >= Cardinality(Members) - 1

readyProtocol(m) == phase[m] = "readying" /\ heard[m] = Members

\* All are ready: the party starts and sends the messages of its first round.
Run(m) ==
    /\ readyProtocol(m)
    /\ Enter(m, After(phase[m]))
    /\ StartParty(m)
    /\ net' = net \cup LastCopies(m, phase[m])
                  \cup {Message("round1", m, n, digest[m]) : n \in Peers(m)}
    /\ UNCHANGED <<group, info, party, digest, got, spoiled, pool, address, faults>>

\* handleTSSProtocolMessage: the bridge hands a round message to the party.
Update(m, n, r) ==
    /\ party[m] # "none" /\ phase[m] # "done" /\ <<n, r>> \notin got[m]
    /\ \E msg \in Offers(IF r = 1 THEN "round1" ELSE "round2", n, m) :
          /\ got' = [got EXCEPT ![m] = @ \cup {<<n, r>>}]
          /\ spoiled' = [spoiled EXCEPT ![m] = @ \/ msg.content # digest[m]]
          /\ net' = net \ {msg}
    /\ UNCHANGED <<group, phase, heard, info, party, digest, paramsVars, address, faults>>

Finished(m) == phase[m] = "running" /\ ~spoiled[m] /\ HasRound1(m) /\ HasRound2(m)

\* The party delivers its result; its context ends and with it the broadcasts.
Finish(m) ==
    /\ Finished(m)
    /\ Enter(m, "done")
    /\ net' = net \cup {Message("round2", m, n, digest[m]) : n \in {p \in Peers(m) : <<m, 2>> \notin got[p]}}
    /\ UNCHANGED <<group, info, party, digest, got, spoiled, paramsVars, address, faults>>

----------------------------------------------------------------------------
(* Failure of an attempt. *)

\* The parties of the others that talk to the abandoned one cannot finish; its
\* messages to a party that has not started yet will be replaced.
Fail(m) ==
    /\ Enter(m, "idle")
    /\ info' = [info EXCEPT ![m] = [n \in Members |-> NoInfo]]
    /\ party' = [party EXCEPT ![m] = "none"]
    /\ digest' = [digest EXCEPT ![m] = NoDigest]
    /\ got' = [n \in Members |->
                 IF n = m THEN {}
                 ELSE IF phase[n] \in {"running", "done"} THEN got[n]
                 ELSE {g \in got[n] : g[1] # m}]
    /\ spoiled' = [n \in Members |->
                     IF n = m THEN FALSE
                     ELSE spoiled[n] \/ (phase[n] = "running" /\ ~Finished(n))]
    \* Messages of a round do not live as long as it takes to begin another one.
    /\ net' = {msg \in net : msg.kind \in Exchanges \/ m \notin {msg.from, msg.to}}
                 \cup LastCopies(m, phase[m])
    /\ UNCHANGED <<group, paramsVars, address>>

\* Nothing is on its way or about to happen: time passes.
Quiet ==
    /\ net = {}
    /\ \A m \in Members :
          /\ phase[m] \notin {"idle", "connecting"} /\ ~readyProtocol(m) /\ ~Finished(m)
          /\ ~(phase[m] \in Exchanges /\ heard[m] = Members)
          /\ \A n \in Peers(m) :
                /\ phase[m] \in Exchanges => News(m, n) = {}
                /\ party[m] # "none" /\ phase[m] # "done" /\ <<n, 2>> \notin got[m]
                     => Offers("round2", n, m) = {}

\* Mutant of Timeout: the result of a started party is waited for without end.
TimeoutOfExchanges(m) ==
    /\ phase[m] \in Exchanges /\ heard[m] # Members
    /\ (Quiet /\ NoFault) \/ Fault
    /\ Fail(m)

Timeout(m) ==
    /\ phase[m] \in Exchanges \cup {"running"} /\ heard[m] # Members /\ ~Finished(m)
    /\ (Quiet /\ NoFault) \/ Fault
    /\ Fail(m)

\* No channel to some peer, or an address of the recovery is not valid.
Fails(m) ==
    /\ \/ phase[m] = "connecting"
       \/ phase[m] = "exchanging" /\ heard[m] = Members
    /\ Fault
    /\ Fail(m)

\* A copy that nobody sends again is lost, or comes to a receiver without use for it.
UseOf(msg) ==
    IF msg.kind \in Exchanges
    THEN phase[msg.to] = msg.kind /\ IsNews(msg)
    ELSE /\ party[msg.to] # "none" /\ phase[msg.to] # "done"
         /\ <<msg.from, IF msg.kind = "round1" THEN 1 ELSE 2>> \notin got[msg.to]

Lose(msg) ==
    /\ IF UseOf(msg) THEN Fault ELSE NoFault
    /\ net' = net \ {msg}
    /\ UNCHANGED <<group, attemptVars, paramsVars, address>>

\* What a member does unless something goes wrong.
Progress(m) ==
    \/ Refill(m) \/ Attempt(m) \/ AnnounceProtocol(m) \/ ExchangeRecoveryInfo(m)
    \/ connect(m) \/ Run(m) \/ Finish(m)
    \/ \E n \in Peers(m) : Hear(m, n) \/ \E r \in {1, 2} : Update(m, n, r)

ProtocolNext ==
    \/ \E m \in Members : pumpPool(m) \/ Progress(m) \/ Timeout(m) \/ Fails(m)
    \/ \E msg \in net : Lose(msg)

ProtocolSpec == ProtocolInit /\ [][ProtocolNext]_protocolVars

\* A member does not stop in the middle: weak fairness of its progress, which
\* includes hearing what another sends again and again. When nothing can happen
\* any more the timeout comes, however often the timeouts of others interrupt.
ProtocolFairSpec ==
    /\ ProtocolSpec
    /\ \A m \in Everyone :
          /\ WF_protocolVars(m \in Members /\ pumpPool(m))
          /\ WF_protocolVars(m \in Members /\ Progress(m))
          /\ SF_protocolVars(m \in Members /\ Quiet /\ Timeout(m))
    /\ WF_protocolVars(\E msg \in net : ~UseOf(msg) /\ Lose(msg))

----------------------------------------------------------------------------
(* Properties. *)

\* The state of the members and the messages between them have the types the
\* protocols of pkg/ecdsa/tss give them.
ProtocolTypeOK ==
    /\ group \in Groups
    /\ phase \in [Members -> Phases]
    /\ heard \in [Members -> SUBSET Members]
    /\ address \in [Members -> 0..(AddressCount - 1)]
    /\ pool \in [Members -> 0..PoolSize]
    /\ box \in [Members -> {"none", "params", "empty"}]
    /\ shown \in [Members -> Nat]
    /\ party \in [Members -> {"none", "params", "key"}]
    /\ got \in [Members -> SUBSET (Members \X {1, 2})]
    /\ spoiled \in [Members -> BOOLEAN]
    /\ \A msg \in net : msg.from # msg.to
    /\ faults \in 0..MaxFaults

\* No two parties of a member are started with the same pre-parameters, however often
\* the attempt is repeated, and a box is emptied only once its content was shown
\* (GenerateThresholdSigner destroys the content between readyProtocol and generateKey;
\* a retry before that takes the same box again).
PreParamsShownOnce ==
    \A m \in Members : shown[m] <= 1 /\ (box[m] = "empty" => shown[m] = 1)

\* As long as nothing failed, nobody starts its party before the parties of all
\* members are connected: the messages of the first round are sent only once
\* (readyProtocol runs between connect and Start).
NoEarlyStart ==
    faults = 0 => \A m \in Members : phase[m] \in {"running", "done"} =>
        \A n \in Members : party[n] # "none"

\* Members that built a recovery transaction in attempts that nothing disturbed
\* built the same one, and the members that signed one always did
\* (BroadcastRecoveryAddress sorts the addresses and takes the lowest fee).
RecoveryAgreement ==
    \A m, n \in Members :
        job = "recovery" /\ digest[m] # NoDigest /\ digest[n] # NoDigest
        /\ (faults = 0 \/ {phase[m], phase[n]} = {"done"}) => digest[m] = digest[n]

\* Whatever is lost or times out, the retried attempts come to an end for some
\* member, and for all members when nothing was lost. A member that has finished
\* does not come back for the others.
AttemptsComplete ==
    <>(\/ \A m \in Members : phase[m] = "done"
       \/ faults > 0 /\ \E m \in Members : phase[m] = "done")
=============================================================================
