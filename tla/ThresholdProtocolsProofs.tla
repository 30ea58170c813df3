---------------------- MODULE ThresholdProtocolsProofs ----------------------
(***************************************************************************)
(* Proofs about the protocols of a keep, for groups of every size: what a  *)
(* key generation makes its party from, when a party starts, and that      *)
(* members that recover a keep sign the same transaction.                  *)
(*                                                                         *)
(* The inductive invariant has a part that holds whatever fails (a round   *)
(* message a party keeps is of an attempt that fits its own, or the party  *)
(* cannot finish, or its sender cannot) and a part for groups nothing has  *)
(* disturbed yet: the members pass the phases of an attempt in step, and   *)
(* whatever a member still waits for is offered or on its way. Apart from  *)
(* both, the box of pre-parameters agrees with the number of parties its   *)
(* content was shown to.                                                   *)
(***************************************************************************)
EXTENDS ThresholdProtocols, FiniteSetTheorems, TLAPS

\* The exchanges an attempt of the group goes through.
Stages ==
    {k \in Exchanges : /\ k = "announcing" => job # "signing"
                       /\ k = "exchanging" => job = "recovery"}

Past(m, k) == Rank(phase[m]) > Rank(k)
Reached(m, k) == Rank(phase[m]) >= Rank(k)
Started(m) == phase[m] \in {"running", "done"}

\* A message from a to b is on its way.
OnItsWay(kind, a, b) == \E msg \in net : msg.kind = kind /\ msg.from = a /\ msg.to = b

GroupTypes ==
    /\ group \in Groups
    /\ phase \in [Members -> Phases]
    /\ heard \in [Members -> SUBSET Members]
    /\ info = [m \in Members |-> [n \in Members |-> info[m][n]]]
    /\ address \in [Members -> 0..(AddressCount - 1)]
    /\ pool \in [Members -> 0..PoolSize]
    /\ box \in [Members -> {"none", "params", "empty"}]
    /\ shown \in [Members -> Nat]
    /\ party \in [Members -> {"none", "params", "key"}]
    /\ digest = [m \in Members |-> digest[m]]
    /\ got \in [Members -> SUBSET (Members \X {1, 2})]
    /\ spoiled \in [Members -> BOOLEAN]
    /\ faults \in 0..MaxFaults

NetTypes ==
    \A msg \in net :
        /\ msg.kind \in Exchanges \cup {"round1", "round2"}
        /\ msg.from \in Members /\ msg.to \in Members /\ msg.from # msg.to

MemberOK(m) ==
    /\ phase[m] \in Exchanges => phase[m] \in Stages /\ m \in heard[m]
    /\ phase[m] \in {"connecting", "idle", "running", "done"} => heard[m] = {}
    /\ job = "keygen" /\ phase[m] \notin {"idle", "running", "done"} => box[m] = "params"
    /\ party[m] # "none" <=> phase[m] \in {"readying", "running", "done"}
    /\ got[m] # {} => party[m] # "none"
    /\ phase[m] = "done" => ~spoiled[m] /\ HasRound1(m) /\ HasRound2(m)

\* A message of a round is of the attempt its sender is still in.
RoundMessageOK(msg) ==
    /\ msg.kind = "round1" => Started(msg.from)
    /\ msg.kind = "round2" => phase[msg.from] = "done"
    /\ msg.kind \in {"round1", "round2"} => msg.content = digest[msg.from]

\* What m has of n fits its own attempt; or m cannot finish; or n has begun another
\* attempt, in which it will never have the first round of m.
RoundFits(m, n) ==
    (\E r \in {1, 2} : <<n, r>> \in got[m]) =>
        \/ spoiled[m]
        \/ Started(n) /\ digest[n] = digest[m]
        \/ /\ Finished(m) \/ phase[m] = "done"
           /\ <<m, 1>> \notin got[n]
           /\ ~OnItsWay("round1", m, n)

AttemptInv ==
    /\ \A m \in Members : MemberOK(m)
    /\ \A msg \in net : RoundMessageOK(msg)
    /\ \A m \in Members : \A n \in Peers(m) : RoundFits(m, n)

\* What became of the pre-parameters that m took last from its pool.
BoxOK(m) ==
    /\ box[m] \in {"none", "params"} => shown[m] = 0
    /\ box[m] = "empty" => shown[m] = 1
    /\ job # "keygen" => box[m] = "none"
    /\ party[m] \in {"none", IF job = "keygen" THEN "params" ELSE "key"}

BoxInv == \A m \in Members : BoxOK(m)

\* The addresses the members offer, in an order in which they may be gathered.
OfferedIn(order) ==
    [i \in 1..Cardinality(Members) |-> Address[order[i]][address[order[i]]]]

\* The transaction of the addresses and fees that the members offer.
Agreed ==
    [outputs |-> sortStrings(OfferedIn(CHOOSE order \in Orders : TRUE)),
     fee |-> Min({Fee[n] : n \in Members} \cup {MaxInt32})]

\* Members pass the stages in step.
InStep(m, n) ==
    /\ \A k \in Stages : Past(m, k) => Reached(n, k)
    /\ phase[m] \in Exchanges /\ n \in heard[m] => Reached(n, phase[m])

\* What a member waits for is on its way once it is not offered any more.
Supplied(m, n) ==
    phase[m] \in Exchanges /\ n \notin heard[m] /\ Past(n, phase[m])
        => OnItsWay(phase[m], n, m)
RoundsSupplied(m, n) ==
    /\ Started(n) /\ <<n, 1>> \notin got[m] => OnItsWay("round1", n, m)
    /\ phase[n] = "done" /\ <<n, 2>> \notin got[m] => OnItsWay("round2", n, m)

\* A copy of an exchange is sent when its sender leaves it.
CopyOK(msg) ==
    msg.kind \in Exchanges =>
        /\ msg.kind \in Stages
        /\ Past(msg.from, msg.kind)
        /\ msg.kind = "exchanging" => msg.content = OwnInfo(msg.from)

AgreementOK(m) ==
    /\ digest[m] = IF job = "recovery" /\ Past(m, "exchanging") THEN Agreed ELSE NoDigest
    /\ phase[m] = "exchanging" =>
          \A n \in heard[m] : n # m => info[m][n] = OwnInfo(n)
    /\ ~spoiled[m]

Calm ==
    /\ \A m \in Members : AgreementOK(m)
    /\ \A m \in Members : \A n \in Peers(m) :
          InStep(m, n) /\ Supplied(m, n) /\ RoundsSupplied(m, n)
    /\ \A msg \in net : CopyOK(msg)

ProtocolInv ==
    /\ GroupTypes
    /\ NetTypes
    /\ AttemptInv
    /\ faults = 0 => Calm

----------------------------------------------------------------------------
(* Phases. *)

LEMMA RankIs ==
    /\ Rank("idle") = 0 /\ Rank("announcing") = 1 /\ Rank("exchanging") = 2
    /\ Rank("connecting") = 3 /\ Rank("readying") = 4 /\ Rank("running") = 5
    /\ Rank("done") = 6
BY DEF Rank

LEMMA AfterIs ==
    /\ After("announcing") = IF job = "recovery" THEN "exchanging" ELSE "connecting"
    /\ After("exchanging") = "connecting"
    /\ After("connecting") = "readying"
    /\ After("readying") = "running"
BY DEF After

LEMMA GroupFacts ==
    ASSUME group \in Groups
    PROVE  /\ job \in {"keygen", "signing", "recovery"}
           /\ MaxFaults \in Nat
           /\ PoolSize \in Nat \ {0} /\ AddressCount \in Nat \ {0}
BY ProtocolAssumption DEF Members, job, MaxFaults

\* Members enter one of the phases, and have heard only themselves there.
LEMMA EnterTypes ==
    ASSUME NEW m \in Members, NEW p \in Phases, Enter(m, p), GroupTypes, group' = group
    PROVE  /\ phase' \in [Members' -> Phases]
           /\ heard' \in [Members' -> SUBSET Members']
BY DEF Enter, GroupTypes, Members

LEMMA LastCopiesAre ==
    ASSUME NEW m \in Members, NEW kind, NEW msg \in LastCopies(m, kind)
    PROVE  /\ kind \in Exchanges
           /\ \E n \in Peers(m) :
                 /\ msg = Message(kind, m, n, Content(kind, m))
                 /\ Rank(phase[n]) <= Rank(kind)
                 /\ phase[n] = kind => IsNews(Message(kind, m, n, Content(kind, m)))
<1>1. kind \in Exchanges
  BY DEF LastCopies
<1> DEFINE copy(n) == Message(kind, m, n, Content(kind, m))
           to == {p \in Peers(m) : /\ Rank(phase[p]) <= Rank(kind)
                                   /\ phase[p] = kind => IsNews(copy(p))}
<1>2. msg \in {copy(n) : n \in to}
  BY <1>1 DEF LastCopies
<1>3. PICK n \in to : msg = copy(n)
  BY <1>2, Zenon
<1>4. n \in Peers(m) /\ Rank(phase[n]) <= Rank(kind) /\ (phase[n] = kind => IsNews(copy(n)))
  BY <1>3
<1>5. n \in Peers(m)
  BY <1>4
<1> QED
  BY <1>1, <1>3, <1>4, <1>5, Zenon

LEMMA MessageIs ==
    ASSUME NEW kind, NEW a, NEW b, NEW content
    PROVE  /\ Message(kind, a, b, content).kind = kind
           /\ Message(kind, a, b, content).from = a
           /\ Message(kind, a, b, content).to = b
           /\ Message(kind, a, b, content).content = content
BY DEF Message

----------------------------------------------------------------------------
(* Types. *)

LEMMA ProtocolInitTypes == ProtocolInit => GroupTypes /\ NetTypes
<1> SUFFICES ASSUME ProtocolInit PROVE GroupTypes /\ NetTypes
  OBVIOUS
<1>1. MaxFaults \in Nat /\ PoolSize \in Nat \ {0} /\ AddressCount \in Nat \ {0}
  BY GroupFacts DEF ProtocolInit
<1>2. NetTypes
  BY DEF ProtocolInit, NetTypes
<1>3. 0 \in 0..(AddressCount - 1) /\ 0 \in 0..PoolSize /\ 0 \in 0..MaxFaults
  BY <1>1
<1>4. spoiled \in [Members -> BOOLEAN]
  BY Zenon DEF ProtocolInit
<1> QED
  BY <1>2, <1>3, <1>4 DEF ProtocolInit, GroupTypes, Phases

LEMMA FaultTypes ==
    ASSUME GroupTypes, group' = group, Fault \/ NoFault
    PROVE  faults' \in 0..MaxFaults'
BY GroupFacts DEF GroupTypes, Fault, NoFault, MaxFaults

LEMMA PoolTypes ==
    ASSUME GroupTypes, NetTypes, NEW m \in Members, pumpPool(m) \/ Refill(m)
    PROVE  GroupTypes' /\ NetTypes'
<1>1. UNCHANGED <<group, attemptVars, address, net, faults>>
  BY DEF pumpPool, Refill
<1>2. pool' \in [Members' -> 0..PoolSize]
  <2>1. PoolSize \in Nat
    BY GroupFacts DEF GroupTypes
  <2>2. pool[m] \in 0..PoolSize
    BY DEF GroupTypes
  <2>3. CASE pumpPool(m)
    <3>1. pool[m] + 1 \in 0..PoolSize
      BY <2>1, <2>2, <2>3 DEF pumpPool
    <3> QED
      BY <1>1, <2>3, <3>1 DEF pumpPool, GroupTypes, Members
  <2>4. CASE Refill(m)
    <3>1. pool[m] - 1 \in 0..PoolSize
      BY <2>1, <2>2, <2>4 DEF Refill
    <3> QED
      BY <1>1, <2>4, <3>1 DEF Refill, GroupTypes, Members
  <2> QED
    BY <2>3, <2>4
<1>3. /\ box' \in [Members' -> {"none", "params", "empty"}]
      /\ shown' \in [Members' -> Nat]
  <2>1. Members' = Members
    BY <1>1 DEF Members
  <2>2. /\ box' = box \/ box' = [box EXCEPT ![m] = "params"]
        /\ shown' = shown \/ shown' = [shown EXCEPT ![m] = 0]
    BY DEF pumpPool, Refill
  <2> QED
    BY <2>1, <2>2 DEF GroupTypes
<1>4. NetTypes'
  BY <1>1 DEF NetTypes, Members
<1>5. spoiled' \in [Members' -> BOOLEAN]
  BY <1>1, Zenon DEF GroupTypes, attemptVars, Members
<1> QED
  BY <1>1, <1>2, <1>3, <1>4, <1>5 DEF GroupTypes, attemptVars, Members, MaxFaults

LEMMA NetShrinks ==
    ASSUME NetTypes, group' = group, net' \subseteq net
    PROVE  NetTypes'
BY DEF NetTypes, Members

\* What a step sends goes from a member to another.
LEMMA NetGrows ==
    ASSUME NetTypes, group' = group, NEW m \in Members, NEW added,
           net' \subseteq net \cup added,
           \A msg \in added :
              /\ msg.kind \in Exchanges \cup {"round1", "round2"}
              /\ msg.from = m /\ msg.to \in Peers(m)
    PROVE  NetTypes'
BY DEF NetTypes, Members, Peers

LEMMA CopiesGo ==
    ASSUME NEW m \in Members, NEW kind, NEW msg \in LastCopies(m, kind)
    PROVE  /\ msg.kind = kind /\ kind \in Exchanges
           /\ msg.from = m /\ msg.to \in Peers(m)
           /\ msg.content = Content(kind, m)
           /\ Rank(phase[msg.to]) <= Rank(kind)
<1>1. kind \in Exchanges
  BY LastCopiesAre
<1>2. PICK n \in Peers(m) :
                 /\ msg = Message(kind, m, n, Content(kind, m))
                 /\ Rank(phase[n]) <= Rank(kind)
                 /\ phase[n] = kind => IsNews(Message(kind, m, n, Content(kind, m)))
  BY LastCopiesAre
<1>3. msg.kind = kind /\ msg.from = m /\ msg.to = n /\ msg.content = Content(kind, m)
  BY <1>2 DEF Message
<1> QED
  BY <1>1, <1>2, <1>3

LEMMA AttemptTypes ==
    ASSUME GroupTypes, NetTypes, NEW m \in Members, Attempt(m)
    PROVE  GroupTypes' /\ NetTypes'
<1>1. UNCHANGED <<group, info, party, digest, got, spoiled, paramsVars, address>>
      /\ Enter(m, First) /\ net' \subseteq net /\ (Fault \/ NoFault)
  BY DEF Attempt
<1>2. First \in Phases
  BY DEF First, Phases, Exchanges
<1>3. NetTypes'
  BY <1>1, NetShrinks
<1> QED
  BY <1>1, <1>2, <1>3, EnterTypes, FaultTypes DEF GroupTypes, Members, paramsVars

LEMMA HearTypes ==
    ASSUME GroupTypes, NetTypes, NEW m \in Members, NEW n \in Peers(m), Hear(m, n)
    PROVE  GroupTypes' /\ NetTypes'
<1>1. PICK msg : /\ heard' = [heard EXCEPT ![m] = @ \cup {n}]
                 /\ info' = [info EXCEPT ![m][n] =
                                IF phase[m] = "exchanging" THEN msg.content ELSE @]
                 /\ net' = net \ {msg}
                 /\ UNCHANGED <<group, phase, party, digest, got, spoiled, paramsVars,
                                address, faults>>
  BY DEF Hear
<1>2. NetTypes'
  BY <1>1, NetShrinks
<1>3. heard' \in [Members' -> SUBSET Members']
  BY <1>1 DEF GroupTypes, Members, Peers
<1>4. info' = [x \in Members' |-> [y \in Members' |-> info'[x][y]]]
  BY <1>1 DEF GroupTypes, Members, Peers
<1> QED
  BY <1>1, <1>2, <1>3, <1>4 DEF GroupTypes, Members, paramsVars, MaxFaults

LEMMA AnnounceTypes ==
    ASSUME GroupTypes, NetTypes, NEW m \in Members, AnnounceProtocol(m)
    PROVE  GroupTypes' /\ NetTypes'
<1>1. /\ UNCHANGED <<group, info, party, digest, got, spoiled, paramsVars, faults>>
      /\ phase[m] = "announcing" /\ Enter(m, After("announcing"))
      /\ net' = net \cup LastCopies(m, "announcing")
      /\ address' = [address EXCEPT ![m] = IF job = "recovery"
                                           THEN (@ + 1) % AddressCount ELSE @]
  BY DEF AnnounceProtocol, Leave
<1>2. After("announcing") \in Phases
  BY AfterIs DEF Phases, Exchanges
<1>3. NetTypes'
  <2>1. \A msg \in LastCopies(m, "announcing") :
              /\ msg.kind \in Exchanges \cup {"round1", "round2"}
              /\ msg.from = m /\ msg.to \in Peers(m)
    BY CopiesGo
  <2> QED
    BY <1>1, <2>1, NetGrows
<1>4. address' \in [Members' -> 0..(AddressCount - 1)]
  <2>1. AddressCount \in Nat \ {0} /\ address[m] \in 0..(AddressCount - 1)
    BY GroupFacts DEF GroupTypes
  <2>2. (address[m] + 1) % AddressCount \in 0..(AddressCount - 1)
    BY <2>1
  <2> QED
    BY <1>1, <2>1, <2>2 DEF GroupTypes, Members
<1>5. phase' \in [Members' -> Phases] /\ heard' \in [Members' -> SUBSET Members']
  BY <1>1, <1>2, EnterTypes
<1> QED
  BY <1>1, <1>3, <1>4, <1>5 DEF GroupTypes, Members, paramsVars, MaxFaults

LEMMA ExchangeTypes ==
    ASSUME GroupTypes, NetTypes, NEW m \in Members, ExchangeRecoveryInfo(m)
    PROVE  GroupTypes' /\ NetTypes'
<1>1. /\ UNCHANGED <<group, address, party, got, spoiled, paramsVars, faults>>
      /\ phase[m] = "exchanging" /\ Enter(m, "connecting")
      /\ net' = net \cup LastCopies(m, "exchanging")
      /\ \E order \in Orders :
            digest' = [digest EXCEPT ![m] = BroadcastRecoveryAddress(m, order)]
      /\ info' = [info EXCEPT ![m] = [n \in Members |-> NoInfo]]
  BY AfterIs DEF ExchangeRecoveryInfo, Leave
<1>2. NetTypes'
  BY <1>1, CopiesGo, NetGrows DEF Exchanges
<1>3. digest' = [x \in Members' |-> digest'[x]]
  BY <1>1 DEF GroupTypes, Members
<1>4. info' = [x \in Members' |-> [y \in Members' |-> info'[x][y]]]
  BY <1>1 DEF GroupTypes, Members
<1> QED
  BY <1>1, <1>2, <1>3, <1>4, EnterTypes
     DEF GroupTypes, Members, paramsVars, MaxFaults, Phases

LEMMA ConnectTypes ==
    ASSUME GroupTypes, NetTypes, NEW m \in Members, connect(m), MemberOK(m)
    PROVE  GroupTypes' /\ NetTypes'
<1>1. /\ UNCHANGED <<group, info, digest, got, spoiled, paramsVars, address, net, faults>>
      /\ phase[m] = "connecting" /\ Enter(m, "readying")
      /\ party' = [party EXCEPT ![m] = IF job = "keygen" THEN box[m] ELSE "key"]
  BY AfterIs DEF connect, initializeKeyGenerationParty, initializeSigningParty
<1>2. NetTypes'
  BY <1>1, NetShrinks
<1>3. party' \in [Members' -> {"none", "params", "key"}]
  BY <1>1 DEF GroupTypes, Members, MemberOK
<1> QED
  BY <1>1, <1>2, <1>3, EnterTypes DEF GroupTypes, Members, paramsVars, MaxFaults, Phases, Exchanges

LEMMA RunTypes ==
    ASSUME GroupTypes, NetTypes, NEW m \in Members, Run(m)
    PROVE  GroupTypes' /\ NetTypes'
<1> DEFINE opening == {Message("round1", m, n, digest[m]) : n \in Peers(m)}
<1>1. /\ UNCHANGED <<group, info, party, digest, got, spoiled, pool, address, faults>>
      /\ phase[m] = "readying" /\ Enter(m, "running") /\ StartParty(m)
      /\ net' = net \cup (LastCopies(m, "readying") \cup opening)
  BY AfterIs DEF Run, readyProtocol
<1>2. \A msg \in LastCopies(m, "readying") \cup opening :
              /\ msg.kind \in Exchanges \cup {"round1", "round2"}
              /\ msg.from = m /\ msg.to \in Peers(m)
  <2>1. \A msg \in opening : msg.kind = "round1" /\ msg.from = m /\ msg.to \in Peers(m)
    BY DEF Message
  <2> QED
    BY <2>1, CopiesGo
<1>3. NetTypes'
  BY <1>1, <1>2, NetGrows
<1>4. /\ box' \in [Members' -> {"none", "params", "empty"}]
      /\ shown' \in [Members' -> Nat]
  BY <1>1 DEF StartParty, DestroyContent, GroupTypes, Members
<1> QED
  BY <1>1, <1>3, <1>4, EnterTypes DEF GroupTypes, Members, MaxFaults, Phases

LEMMA UpdateTypes ==
    ASSUME GroupTypes, NetTypes, NEW m \in Members, NEW n \in Peers(m), NEW r \in {1, 2},
           Update(m, n, r)
    PROVE  GroupTypes' /\ NetTypes'
<1>1. PICK msg : /\ got' = [got EXCEPT ![m] = @ \cup {<<n, r>>}]
                 /\ spoiled' = [spoiled EXCEPT ![m] = @ \/ msg.content # digest[m]]
                 /\ net' = net \ {msg}
                 /\ UNCHANGED <<group, phase, heard, info, party, digest, paramsVars,
                                address, faults>>
  BY DEF Update
<1>2. NetTypes'
  BY <1>1, NetShrinks
<1>3. got' \in [Members' -> SUBSET (Members' \X {1, 2})]
  BY <1>1 DEF GroupTypes, Members, Peers
<1>4. spoiled' \in [Members' -> BOOLEAN]
  <2>1. (spoiled[m] \/ msg.content # digest[m]) \in BOOLEAN
    BY Zenon
  <2> QED
    BY <1>1, <2>1 DEF GroupTypes, Members
<1> QED
  BY <1>1, <1>2, <1>3, <1>4 DEF GroupTypes, Members, paramsVars, MaxFaults

LEMMA FinishTypes ==
    ASSUME GroupTypes, NetTypes, NEW m \in Members, Finish(m)
    PROVE  GroupTypes' /\ NetTypes'
<1> DEFINE closing == {Message("round2", m, n, digest[m]) :
                         n \in {p \in Peers(m) : <<m, 2>> \notin got[p]}}
<1>1. /\ UNCHANGED <<group, info, party, digest, got, spoiled, paramsVars, address, faults>>
      /\ Enter(m, "done") /\ net' = net \cup closing
  BY DEF Finish
<1>2. \A msg \in closing :
              /\ msg.kind \in Exchanges \cup {"round1", "round2"}
              /\ msg.from = m /\ msg.to \in Peers(m)
  BY DEF Message
<1>3. NetTypes'
  BY <1>1, <1>2, NetGrows
<1> QED
  BY <1>1, <1>3, EnterTypes DEF GroupTypes, Members, paramsVars, MaxFaults, Phases

LEMMA LoseTypes ==
    ASSUME GroupTypes, NetTypes, NEW msg \in net, Lose(msg)
    PROVE  GroupTypes' /\ NetTypes'
<1>1. /\ UNCHANGED <<group, attemptVars, paramsVars, address>> /\ net' = net \ {msg}
      /\ (Fault \/ NoFault)
  BY DEF Lose
<1>2. NetTypes'
  BY <1>1, NetShrinks
<1> QED
  BY <1>1, <1>2, FaultTypes DEF GroupTypes, Members, paramsVars, attemptVars

\* What the failure of m leaves of the round messages that n has.
Kept(m, n) ==
    IF n = m THEN {} ELSE IF Started(n) THEN got[n] ELSE {g \in got[n] : g[1] # m}

LEMMA FailIs ==
    ASSUME GroupTypes, NEW m \in Members, Fail(m)
    PROVE  /\ UNCHANGED <<group, paramsVars, address>>
           /\ phase' = [phase EXCEPT ![m] = "idle"]
           /\ heard' = [heard EXCEPT ![m] = {}]
           /\ info' = [info EXCEPT ![m] = [n \in Members |-> NoInfo]]
           /\ party' = [party EXCEPT ![m] = "none"]
           /\ digest' = [digest EXCEPT ![m] = NoDigest]
           /\ got' = [n \in Members |-> Kept(m, n)]
           /\ spoiled' = [n \in Members |->
                            IF n = m THEN FALSE
                            ELSE spoiled[n] \/ (phase[n] = "running" /\ ~Finished(n))]
           /\ net' = {msg \in net : msg.kind \in Exchanges \/ m \notin {msg.from, msg.to}}
                        \cup LastCopies(m, phase[m])
<1>1. "idle" \notin Exchanges
  BY DEF Exchanges
<1> QED
  BY <1>1 DEF Fail, Enter, Kept, Started

LEMMA FailTypes ==
    ASSUME GroupTypes, NetTypes, NEW m \in Members, Fail(m), Fault \/ NoFault
    PROVE  GroupTypes' /\ NetTypes'
<1>1. group' = group /\ UNCHANGED <<paramsVars, address>>
  BY FailIs
<1>2. NetTypes'
  <2>1. \A msg \in LastCopies(m, phase[m]) :
              /\ msg.kind \in Exchanges \cup {"round1", "round2"}
              /\ msg.from = m /\ msg.to \in Peers(m)
    BY CopiesGo
  <2>2. net' \subseteq net \cup LastCopies(m, phase[m])
    BY FailIs
  <2> QED
    BY <1>1, <2>1, <2>2, NetGrows
<1>3. got' \in [Members' -> SUBSET (Members' \X {1, 2})]
  <2>1. \A n \in Members : Kept(m, n) \in SUBSET (Members \X {1, 2})
    BY DEF Kept, GroupTypes
  <2>2. got' = [n \in Members |-> Kept(m, n)]
    BY FailIs
  <2> QED
    BY <1>1, <2>1, <2>2 DEF Members
<1>4. spoiled' \in [Members' -> BOOLEAN]
  <2> DEFINE s(n) == IF n = m THEN FALSE
                     ELSE spoiled[n] \/ (phase[n] = "running" /\ ~Finished(n))
  <2>1. spoiled' = [n \in Members |-> s(n)]
    BY FailIs
  <2>2. \A n \in Members : s(n) \in BOOLEAN
    BY Zenon
  <2> HIDE DEF s
  <2> QED
    BY <1>1, <2>1, <2>2 DEF Members
<1>5. /\ phase' \in [Members' -> Phases]
      /\ heard' \in [Members' -> SUBSET Members']
  BY <1>1, FailIs DEF GroupTypes, Phases, Members
<1>6. info' = [x \in Members' |-> [y \in Members' |-> info'[x][y]]]
  <2>1. info' = [info EXCEPT ![m] = [n \in Members |-> NoInfo]]
    BY FailIs
  <2> QED
    BY <1>1, <2>1 DEF GroupTypes, Members
<1>7. /\ digest' = [x \in Members' |-> digest'[x]]
      /\ party' \in [Members' -> {"none", "params", "key"}]
  BY <1>1, FailIs DEF GroupTypes, Members
<1> QED
  BY <1>1, <1>2, <1>3, <1>4, <1>5, <1>6, <1>7, FaultTypes DEF GroupTypes, Members, paramsVars

----------------------------------------------------------------------------
(* Attempts: what holds whatever fails. *)

LEMMA ProtocolInitAttempt == ProtocolInit => AttemptInv
<1> SUFFICES ASSUME ProtocolInit PROVE AttemptInv
  OBVIOUS
<1>1. \A m \in Members : /\ phase[m] = "idle" /\ heard[m] = {} /\ party[m] = "none"
                         /\ got[m] = {}
  BY DEF ProtocolInit
<1>2. net = {}
  BY DEF ProtocolInit
<1> QED
  BY <1>1, <1>2 DEF AttemptInv, MemberOK, RoundFits, Exchanges

RoundsOK ==
    /\ \A msg \in net : RoundMessageOK(msg)
    /\ \A m \in Members : \A n \in Peers(m) : RoundFits(m, n)

\* Whatever happens before the parties run leaves the rounds alone.
LEMMA RoundsFrame ==
    ASSUME GroupTypes, NetTypes, RoundsOK, group' = group, UNCHANGED <<digest, got, spoiled>>,
           \A n \in Members : \/ phase'[n] = phase[n]
                              \/ ~Started(n) /\ phase'[n] \notin {"running", "done"},
           \A msg \in net' : msg \in net \/ msg.kind \in Exchanges
    PROVE  RoundsOK'
<1>1. Members' = Members /\ \A m \in Members : Peers(m)' = Peers(m)
  BY DEF Members, Peers
<1>2. \A n \in Members : /\ Started(n) <=> Started(n)'
                         /\ phase[n] = "done" <=> phase'[n] = "done"
                         /\ phase[n] = "running" <=> phase'[n] = "running"
  BY DEF Started
<1>3. \A n \in Members : Finished(n) <=> Finished(n)'
  BY <1>1, <1>2 DEF Finished, HasRound1, HasRound2
<1>4. ASSUME NEW msg \in net' PROVE RoundMessageOK(msg)'
  <2>1. CASE msg.kind \in Exchanges
    BY <2>1 DEF Exchanges, RoundMessageOK
  <2>2. CASE msg \in net
    BY <1>2, <2>2 DEF RoundsOK, RoundMessageOK, NetTypes
  <2> QED
    BY <2>1, <2>2
<1>5. ASSUME NEW m \in Members, NEW n \in Peers(m) PROVE RoundFits(m, n)'
  <2>1. OnItsWay("round1", m, n)' => OnItsWay("round1", m, n)
    BY DEF OnItsWay, Exchanges
  <2>2. RoundFits(m, n) /\ n \in Members
    BY DEF RoundsOK, Peers
  <2> QED
    BY <1>2, <1>3, <2>1, <2>2 DEF RoundFits
<1> QED
  BY <1>1, <1>4, <1>5 DEF RoundsOK

\* A step of m keeps what the other members are.
LEMMA OthersOK ==
    ASSUME GroupTypes, NEW m \in Members, NEW n \in Members, n # m, MemberOK(n),
           group' = group, phase'[n] = phase[n], heard'[n] = heard[n], box'[n] = box[n],
           party'[n] = party[n], got'[n] = got[n], spoiled'[n] = spoiled[n]
    PROVE  MemberOK(n)'
BY DEF MemberOK, Members, job, Stages, HasRound1, HasRound2, Peers

LEMMA PoolAttempt ==
    ASSUME GroupTypes, NetTypes, AttemptInv, NEW m \in Members, pumpPool(m) \/ Refill(m)
    PROVE  AttemptInv'
<1>1. UNCHANGED <<group, attemptVars, address, net, faults>>
  BY DEF pumpPool, Refill
<1>2. \A n \in Members : box'[n] = box[n] \/ phase[n] = "idle"
  BY DEF pumpPool, Refill, GroupTypes
<1>3. RoundsOK'
  BY <1>1, RoundsFrame DEF AttemptInv, RoundsOK, attemptVars
<1>4. \A n \in Members : MemberOK(n)'
  BY <1>1, <1>2 DEF AttemptInv, MemberOK, Members, job, Stages, HasRound1, HasRound2, Peers,
                    attemptVars
<1> QED
  BY <1>1, <1>3, <1>4 DEF AttemptInv, RoundsOK, Members

LEMMA LoseAttempt ==
    ASSUME GroupTypes, NetTypes, AttemptInv, NEW msg \in net, Lose(msg)
    PROVE  AttemptInv'
<1>1. UNCHANGED <<group, attemptVars, paramsVars, address>> /\ net' \subseteq net
  BY DEF Lose
<1>2. RoundsOK'
  BY <1>1, RoundsFrame DEF AttemptInv, RoundsOK, attemptVars
<1>3. \A n \in Members : MemberOK(n)'
  BY <1>1 DEF AttemptInv, MemberOK, Members, job, Stages, HasRound1, HasRound2, Peers,
              attemptVars, paramsVars
<1> QED
  BY <1>1, <1>2, <1>3 DEF AttemptInv, RoundsOK, Members

LEMMA AttemptAttempt ==
    ASSUME GroupTypes, NetTypes, AttemptInv, NEW m \in Members, Attempt(m)
    PROVE  AttemptInv'
<1>1. UNCHANGED <<group, info, party, digest, got, spoiled, paramsVars, address>>
      /\ Enter(m, First) /\ net' \subseteq net /\ phase[m] = "idle"
      /\ (job = "keygen" => box[m] = "params")
  BY DEF Attempt, IsEmpty, GroupTypes
<1>2. First = IF job = "signing" THEN "connecting" ELSE "announcing"
  BY DEF First
<1>3. /\ \A n \in Members \ {m} : phase'[n] = phase[n] /\ heard'[n] = heard[n]
      /\ phase'[m] = First
      /\ heard'[m] = IF First \in Exchanges THEN {m} ELSE {}
  BY <1>1 DEF Enter, GroupTypes
<1>4. RoundsOK'
  BY <1>1, <1>2, <1>3, RoundsFrame DEF AttemptInv, RoundsOK, Started
<1>5. \A n \in Members \ {m} : MemberOK(n)'
  BY <1>1, <1>3, OthersOK DEF AttemptInv, paramsVars
<1>6. MemberOK(m)'
  BY <1>1, <1>2, <1>3 DEF AttemptInv, MemberOK, Members, job, Stages, Exchanges, GroupTypes,
                          paramsVars
<1> QED
  BY <1>1, <1>4, <1>5, <1>6 DEF AttemptInv, RoundsOK, Members

LEMMA HearAttempt ==
    ASSUME GroupTypes, NetTypes, AttemptInv, NEW m \in Members, NEW n \in Peers(m), Hear(m, n)
    PROVE  AttemptInv'
<1>1. /\ heard' = [heard EXCEPT ![m] = @ \cup {n}] /\ net' \subseteq net
      /\ UNCHANGED <<group, phase, party, digest, got, spoiled, paramsVars, address, faults>>
      /\ phase[m] \in Exchanges
  BY DEF Hear
<1>2. RoundsOK'
  BY <1>1, RoundsFrame DEF AttemptInv, RoundsOK
<1>3. \A p \in Members \ {m} : MemberOK(p)'
  BY <1>1, OthersOK DEF AttemptInv, paramsVars, GroupTypes
<1>4. MemberOK(m)'
  BY <1>1 DEF AttemptInv, MemberOK, Members, job, Stages, Exchanges, GroupTypes, paramsVars
<1> QED
  BY <1>1, <1>2, <1>3, <1>4 DEF AttemptInv, RoundsOK, Members

LEMMA AnnounceAttempt ==
    ASSUME GroupTypes, NetTypes, AttemptInv, NEW m \in Members, AnnounceProtocol(m)
    PROVE  AttemptInv'
<1> DEFINE next == After("announcing")
<1>1. /\ UNCHANGED <<group, info, party, digest, got, spoiled, paramsVars, faults>>
      /\ phase[m] = "announcing" /\ Enter(m, next)
      /\ net' = net \cup LastCopies(m, "announcing")
  BY DEF AnnounceProtocol, Leave
<1>2. next = IF job = "recovery" THEN "exchanging" ELSE "connecting"
  BY AfterIs
<1> HIDE DEF next
<1>3. /\ \A n \in Members \ {m} : phase'[n] = phase[n] /\ heard'[n] = heard[n]
      /\ phase'[m] = next
      /\ heard'[m] = IF next \in Exchanges THEN {m} ELSE {}
  BY <1>1 DEF Enter, GroupTypes
<1>4. \A msg \in net' : msg \in net \/ msg.kind \in Exchanges
  BY <1>1, CopiesGo
<1>5. RoundsOK'
  BY <1>1, <1>2, <1>3, <1>4, RoundsFrame DEF AttemptInv, RoundsOK, Started
<1>6. \A n \in Members \ {m} : MemberOK(n)'
  BY <1>1, <1>3, OthersOK DEF AttemptInv, paramsVars
<1>7. MemberOK(m)'
  BY <1>1, <1>2, <1>3 DEF AttemptInv, MemberOK, Members, job, Stages, Exchanges, GroupTypes,
                          paramsVars
<1> QED
  BY <1>1, <1>5, <1>6, <1>7 DEF AttemptInv, RoundsOK, Members

LEMMA ConnectAttempt ==
    ASSUME GroupTypes, NetTypes, AttemptInv, NEW m \in Members, connect(m)
    PROVE  AttemptInv'
<1>1. /\ UNCHANGED <<group, info, digest, got, spoiled, paramsVars, address, net, faults>>
      /\ phase[m] = "connecting" /\ Enter(m, "readying")
      /\ party' = [party EXCEPT ![m] = IF job = "keygen" THEN box[m] ELSE "key"]
  BY AfterIs DEF connect, initializeKeyGenerationParty, initializeSigningParty
<1>2. /\ \A n \in Members \ {m} : /\ phase'[n] = phase[n] /\ heard'[n] = heard[n]
                                  /\ party'[n] = party[n]
      /\ phase'[m] = "readying" /\ heard'[m] = {m}
      /\ party'[m] = IF job = "keygen" THEN box[m] ELSE "key"
  BY <1>1 DEF Enter, GroupTypes, Exchanges
<1>3. RoundsOK'
  BY <1>1, <1>2, RoundsFrame DEF AttemptInv, RoundsOK, Started
<1>4. \A n \in Members \ {m} : MemberOK(n)'
  BY <1>1, <1>2, OthersOK DEF AttemptInv, paramsVars
<1>5. MemberOK(m)'
  BY <1>1, <1>2 DEF AttemptInv, MemberOK, Members, job, Stages, Exchanges, GroupTypes,
                    paramsVars
<1> QED
  BY <1>1, <1>3, <1>4, <1>5 DEF AttemptInv, RoundsOK, Members

LEMMA ExchangeAttempt ==
    ASSUME GroupTypes, NetTypes, AttemptInv, NEW m \in Members, ExchangeRecoveryInfo(m)
    PROVE  AttemptInv'
<1>1. /\ UNCHANGED <<group, address, party, got, spoiled, paramsVars, faults>>
      /\ phase[m] = "exchanging" /\ Enter(m, "connecting")
      /\ net' = net \cup LastCopies(m, "exchanging")
      /\ \E order \in Orders :
            digest' = [digest EXCEPT ![m] = BroadcastRecoveryAddress(m, order)]
  BY AfterIs DEF ExchangeRecoveryInfo, Leave
<1>2. /\ \A n \in Members \ {m} : /\ phase'[n] = phase[n] /\ heard'[n] = heard[n]
                                  /\ digest'[n] = digest[n]
      /\ phase'[m] = "connecting" /\ heard'[m] = {}
  BY <1>1 DEF Enter, GroupTypes, Exchanges
<1>3. /\ Members' = Members /\ \A n \in Members : Peers(n)' = Peers(n)
      /\ ~Started(m) /\ ~Started(m)' /\ got[m] = {}
  BY <1>1, <1>2 DEF Members, Peers, Started, AttemptInv, MemberOK
<1>4. \A n \in Members : /\ Started(n) <=> Started(n)'
                         /\ phase[n] = "done" <=> phase'[n] = "done"
                         /\ Finished(n) <=> Finished(n)'
  BY <1>1, <1>2, <1>3 DEF Started, Finished, HasRound1, HasRound2
<1>5. ASSUME NEW msg \in net' PROVE RoundMessageOK(msg)'
  <2>1. CASE msg \in LastCopies(m, "exchanging")
    BY <2>1, CopiesGo DEF Exchanges, RoundMessageOK
  <2>2. CASE msg \in net
    <3>1. RoundMessageOK(msg) /\ msg.from \in Members
      BY <2>2 DEF AttemptInv, NetTypes
    <3>2. msg.kind \in {"round1", "round2"} => Started(msg.from)
      BY <3>1 DEF RoundMessageOK, Started
    <3> QED
      BY <1>2, <1>3, <1>4, <3>1, <3>2 DEF RoundMessageOK
  <2> QED
    BY <1>1, <2>1, <2>2
<1>6. ASSUME NEW p \in Members, NEW n \in Peers(p) PROVE RoundFits(p, n)'
  <2>1. OnItsWay("round1", p, n)' => OnItsWay("round1", p, n)
    BY <1>1, CopiesGo DEF OnItsWay, Exchanges
  <2>2. RoundFits(p, n) /\ n \in Members
    BY DEF AttemptInv, Peers
  <2>3. CASE p = m
    BY <1>1, <1>3, <2>3 DEF RoundFits
  <2>4. CASE p # m
    <3>1. digest'[p] = digest[p] /\ (Started(n) => digest'[n] = digest[n])
      BY <1>2, <1>3, <2>2, <2>4
    <3> QED
      BY <1>1, <1>4, <2>1, <2>2, <3>1 DEF RoundFits
  <2> QED
    BY <2>3, <2>4
<1>7. \A n \in Members \ {m} : MemberOK(n)'
  BY <1>1, <1>2, OthersOK DEF AttemptInv, paramsVars
<1>8. MemberOK(m)'
  BY <1>1, <1>2 DEF AttemptInv, MemberOK, Members, job, Stages, Exchanges, GroupTypes,
                    paramsVars
<1> QED
  BY <1>3, <1>5, <1>6, <1>7, <1>8 DEF AttemptInv

LEMMA RunAttempt ==
    ASSUME GroupTypes, NetTypes, AttemptInv, NEW m \in Members, Run(m)
    PROVE  AttemptInv'
<1> DEFINE opening == {Message("round1", m, n, digest[m]) : n \in Peers(m)}
<1>1. /\ UNCHANGED <<group, info, party, digest, got, spoiled, pool, address, faults>>
      /\ phase[m] = "readying" /\ Enter(m, "running") /\ StartParty(m)
      /\ net' = net \cup (LastCopies(m, "readying") \cup opening)
  BY AfterIs DEF Run, readyProtocol
<1>2. /\ \A n \in Members \ {m} : /\ phase'[n] = phase[n] /\ heard'[n] = heard[n]
                                  /\ box'[n] = box[n]
      /\ phase'[m] = "running" /\ heard'[m] = {}
  BY <1>1 DEF Enter, StartParty, DestroyContent, GroupTypes, Exchanges
<1>3. /\ Members' = Members /\ \A n \in Members : Peers(n)' = Peers(n)
      /\ ~Started(m) /\ Started(m)' /\ ~Finished(m) /\ phase[m] # "done"
  BY <1>1, <1>2 DEF Members, Peers, Started, Finished
<1>4. \A n \in Members : /\ Started(n) => Started(n)'
                         /\ phase[n] = "done" <=> phase'[n] = "done"
                         /\ Finished(n) => Finished(n)'
  BY <1>1, <1>2, <1>3 DEF Started, Finished, HasRound1, HasRound2
<1>5. \A msg \in opening : msg.kind = "round1" /\ msg.from = m /\ msg.content = digest[m]
  BY DEF Message
<1>6. ASSUME NEW msg \in net' PROVE RoundMessageOK(msg)'
  <2>1. CASE msg \in LastCopies(m, "readying")
    BY <2>1, CopiesGo DEF Exchanges, RoundMessageOK
  <2>2. CASE msg \in net
    BY <1>1, <1>4, <2>2 DEF AttemptInv, NetTypes, RoundMessageOK
  <2>3. CASE msg \in opening
    BY <1>1, <1>3, <1>5, <2>3 DEF RoundMessageOK
  <2> QED
    BY <1>1, <2>1, <2>2, <2>3
<1>7. ASSUME NEW p \in Members, NEW n \in Peers(p) PROVE RoundFits(p, n)'
  <2>1. RoundFits(p, n) /\ n \in Members
    BY DEF AttemptInv, Peers
  <2>2. p # m /\ OnItsWay("round1", p, n)' => OnItsWay("round1", p, n)
    <3>1. \A msg \in LastCopies(m, "readying") : msg.from = m
      BY CopiesGo
    <3> QED
      BY <1>1, <1>5, <3>1 DEF OnItsWay
  <2> QED
    BY <1>1, <1>3, <1>4, <2>1, <2>2 DEF RoundFits
<1>8. \A n \in Members \ {m} : MemberOK(n)'
  BY <1>1, <1>2, OthersOK DEF AttemptInv
<1>9. MemberOK(m)'
  BY <1>1, <1>2 DEF AttemptInv, MemberOK, Members, job, Stages, Exchanges, GroupTypes
<1> QED
  BY <1>3, <1>6, <1>7, <1>8, <1>9 DEF AttemptInv

LEMMA FinishAttempt ==
    ASSUME GroupTypes, NetTypes, AttemptInv, NEW m \in Members, Finish(m)
    PROVE  AttemptInv'
<1> DEFINE closing == {Message("round2", m, n, digest[m]) :
                         n \in {p \in Peers(m) : <<m, 2>> \notin got[p]}}
<1>1. /\ UNCHANGED <<group, info, party, digest, got, spoiled, paramsVars, address, faults>>
      /\ Finished(m) /\ Enter(m, "done") /\ net' = net \cup closing
  BY DEF Finish
<1>2. /\ \A n \in Members \ {m} : phase'[n] = phase[n] /\ heard'[n] = heard[n]
      /\ phase'[m] = "done" /\ heard'[m] = {} /\ phase[m] = "running"
  BY <1>1 DEF Enter, GroupTypes, Exchanges, Finished
<1>3. Members' = Members /\ \A n \in Members : Peers(n)' = Peers(n)
  BY <1>1 DEF Members, Peers
<1>4. \A n \in Members : /\ Started(n) <=> Started(n)'
                         /\ phase[n] = "done" => phase'[n] = "done"
                         /\ Finished(n) => Finished(n)' \/ phase'[n] = "done"
  BY <1>1, <1>2, <1>3 DEF Started, Finished, HasRound1, HasRound2
<1>5. \A msg \in closing : msg.kind = "round2" /\ msg.from = m /\ msg.content = digest[m]
  BY DEF Message
<1>6. ASSUME NEW msg \in net' PROVE RoundMessageOK(msg)'
  <2>1. CASE msg \in net
    BY <1>1, <1>4, <2>1 DEF AttemptInv, NetTypes, RoundMessageOK
  <2>2. CASE msg \in closing
    BY <1>1, <1>2, <1>5, <2>2 DEF RoundMessageOK
  <2> QED
    BY <1>1, <2>1, <2>2
<1>7. ASSUME NEW p \in Members, NEW n \in Peers(p) PROVE RoundFits(p, n)'
  <2>1. RoundFits(p, n) /\ n \in Members
    BY DEF AttemptInv, Peers
  <2>2. OnItsWay("round1", p, n)' => OnItsWay("round1", p, n)
    BY <1>1, <1>5 DEF OnItsWay
  <2> QED
    BY <1>1, <1>4, <2>1, <2>2 DEF RoundFits
<1>8. \A n \in Members \ {m} : MemberOK(n)'
  BY <1>1, <1>2, OthersOK DEF AttemptInv, paramsVars
<1>9. MemberOK(m)'
  BY <1>1, <1>2, <1>3 DEF AttemptInv, MemberOK, Members, job, Stages, Exchanges, GroupTypes,
                          paramsVars, Finished, HasRound1, HasRound2
<1> QED
  BY <1>3, <1>6, <1>7, <1>8, <1>9 DEF AttemptInv

\* A message of a round that can arrive is of the attempt of its sender.
LEMMA RoundOffer ==
    ASSUME GroupTypes, NetTypes, AttemptInv, NEW n \in Members, NEW m \in Members,
           NEW kind \in {"round1", "round2"}, NEW msg \in Offers(kind, n, m)
    PROVE  /\ Started(n) /\ msg.content = digest[n]
           /\ msg.kind = kind /\ msg.from = n /\ msg.to = m
           /\ kind = "round1" => msg \in net
<1>1. kind \notin Exchanges
  BY DEF Exchanges
<1>2. CASE msg \in net
  <2>1. msg.kind = kind /\ msg.from = n /\ msg.to = m
    BY <1>1, <1>2 DEF Offers, Message
  <2>2. RoundMessageOK(msg)
    BY <1>2 DEF AttemptInv
  <2> QED
    BY <1>2, <2>1, <2>2 DEF RoundMessageOK, Started
<1>3. CASE msg \notin net
  <2>1. /\ kind = "round2" /\ phase[n] = "running"
        /\ msg = Message(kind, n, m, digest[n])
    BY <1>1, <1>3 DEF Offers
  <2> QED
    BY <2>1 DEF Message, Started
<1> QED
  BY <1>2, <1>3

LEMMA UpdateAttempt ==
    ASSUME GroupTypes, NetTypes, AttemptInv, NEW m \in Members, NEW n \in Peers(m),
           NEW r \in {1, 2}, Update(m, n, r)
    PROVE  AttemptInv'
<1> DEFINE kind == IF r = 1 THEN "round1" ELSE "round2"
<1>1. PICK msg \in Offers(kind, n, m) :
                 /\ got' = [got EXCEPT ![m] = @ \cup {<<n, r>>}]
                 /\ spoiled' = [spoiled EXCEPT ![m] = @ \/ msg.content # digest[m]]
                 /\ net' = net \ {msg}
                 /\ UNCHANGED <<group, phase, heard, info, party, digest, paramsVars,
                                address, faults>>
  BY DEF Update
<1>2. party[m] # "none" /\ phase[m] # "done" /\ <<n, r>> \notin got[m] /\ n \in Members
  BY DEF Update, Peers
<1>3. /\ Started(n) /\ msg.content = digest[n] /\ (r = 1 => OnItsWay("round1", n, m))
  <2>1. kind \in {"round1", "round2"} /\ (r = 1 => kind = "round1")
    OBVIOUS
  <2> HIDE DEF kind
  <2>2. /\ Started(n) /\ msg.content = digest[n]
        /\ msg.kind = kind /\ msg.from = n /\ msg.to = m
        /\ kind = "round1" => msg \in net
    BY <1>2, <2>1, RoundOffer
  <2> QED
    BY <2>1, <2>2 DEF OnItsWay
<1> HIDE DEF kind
<1>4. /\ Members' = Members /\ \A p \in Members : Peers(p)' = Peers(p)
      /\ \A p \in Members : Started(p)' <=> Started(p)
      /\ ~Finished(m)
  BY <1>1, <1>2 DEF Members, Peers, Started, Finished, HasRound1, HasRound2
<1>5. /\ \A p \in Members \ {m} : got'[p] = got[p] /\ spoiled'[p] = spoiled[p]
      /\ got'[m] = got[m] \cup {<<n, r>>}
      /\ spoiled'[m] = (spoiled[m] \/ msg.content # digest[m])
  BY <1>1 DEF GroupTypes
<1>6. \A p \in Members \ {m} : Finished(p)' <=> Finished(p)
  BY <1>1, <1>4, <1>5 DEF Finished, HasRound1, HasRound2
<1>7. \A x \in net' : RoundMessageOK(x)'
  BY <1>1, <1>4 DEF AttemptInv, NetTypes, RoundMessageOK
<1>8. ASSUME NEW p \in Members, NEW q \in Peers(p) PROVE RoundFits(p, q)'
  <2>1. RoundFits(p, q) /\ q \in Members /\ p # q
    BY DEF AttemptInv, Peers
  <2>2. OnItsWay("round1", p, q)' => OnItsWay("round1", p, q)
    BY <1>1 DEF OnItsWay
  <2>3. CASE p = m
    <3>1. CASE q = n
      <4>1. Started(n)' /\ digest' = digest
        BY <1>1, <1>2, <1>3, <1>4
      <4>2. digest[n] # digest[m] => spoiled'[m]
        BY <1>3, <1>5
      <4> QED
        BY <2>3, <3>1, <4>1, <4>2 DEF RoundFits
    <3>2. CASE q # n
      <4>1. \A s \in {1, 2} : <<q, s>> \in got'[m] <=> <<q, s>> \in got[m]
        BY <1>5, <3>2
      <4> QED
        BY <1>1, <1>2, <1>4, <1>5, <2>1, <2>3, <4>1 DEF RoundFits
    <3> QED
      BY <3>1, <3>2
  <2>4. CASE p # m
    <3>1. CASE q = m /\ p = n
      <4>1. <<p, 1>> \in got'[q] => <<p, 1>> \in got[q] \/ OnItsWay("round1", p, q)
        BY <1>3, <1>5, <3>1
      <4> QED
        BY <1>1, <1>4, <1>5, <1>6, <2>1, <2>2, <2>4, <4>1 DEF RoundFits
    <3>2. CASE ~(q = m /\ p = n)
      <4>1. <<p, 1>> \in got'[q] <=> <<p, 1>> \in got[q]
        BY <1>5, <2>1, <3>2
      <4> QED
        BY <1>1, <1>4, <1>5, <1>6, <2>1, <2>2, <2>4, <4>1 DEF RoundFits
    <3> QED
      BY <3>1, <3>2
  <2> QED
    BY <2>3, <2>4
<1>9. \A p \in Members \ {m} : MemberOK(p)'
  BY <1>1, <1>5, OthersOK DEF AttemptInv, paramsVars
<1>10. MemberOK(m)'
  BY <1>1, <1>2, <1>5 DEF AttemptInv, MemberOK, Members, job, Stages, Exchanges, GroupTypes,
                          paramsVars
<1> QED
  BY <1>4, <1>7, <1>8, <1>9, <1>10 DEF AttemptInv

LEMMA FailAttempt ==
    ASSUME GroupTypes, NetTypes, AttemptInv, NEW m \in Members, Fail(m)
    PROVE  AttemptInv'
<1>0. /\ phase' = [phase EXCEPT ![m] = "idle"]
      /\ heard' = [heard EXCEPT ![m] = {}]
      /\ party' = [party EXCEPT ![m] = "none"]
      /\ digest' = [digest EXCEPT ![m] = NoDigest]
  BY FailIs
<1>1. /\ UNCHANGED <<group, paramsVars, address>>
      /\ phase'[m] = "idle" /\ heard'[m] = {} /\ party'[m] = "none"
      /\ got'[m] = {} /\ spoiled'[m] = FALSE
  <2>1. got'[m] = Kept(m, m) /\ spoiled'[m] = FALSE /\ UNCHANGED <<group, paramsVars, address>>
    BY FailIs
  <2> QED
    BY <1>0, <2>1 DEF GroupTypes, Kept
<1>2. \A n \in Members \ {m} :
        /\ phase'[n] = phase[n] /\ heard'[n] = heard[n] /\ party'[n] = party[n]
        /\ digest'[n] = digest[n]
  BY <1>0 DEF GroupTypes
<1>3. \A n \in Members \ {m} :
        /\ got'[n] \subseteq got[n] /\ (Started(n) => got'[n] = got[n])
        /\ ~Started(n) => \A r \in {1, 2} : <<m, r>> \notin got'[n]
        /\ \A p \in Members \ {m} : \A r \in {1, 2} : <<p, r>> \in got[n] => <<p, r>> \in got'[n]
  <2>1. got' = [n \in Members |-> Kept(m, n)]
    BY FailIs
  <2> QED
    BY <2>1 DEF Kept
<1>4. \A n \in Members \ {m} :
        spoiled'[n] <=> spoiled[n] \/ (phase[n] = "running" /\ ~Finished(n))
  <2>1. spoiled' = [n \in Members |-> IF n = m THEN FALSE
                       ELSE spoiled[n] \/ (phase[n] = "running" /\ ~Finished(n))]
    BY FailIs
  <2> QED
    BY <2>1
<1>5. \A msg \in net' : /\ msg.kind \in Exchanges \/ msg \in net
                        /\ msg.kind \notin Exchanges => msg.from # m /\ msg.to # m
  <2>1. \A msg \in LastCopies(m, phase[m]) : msg.kind \in Exchanges
    BY CopiesGo
  <2> QED
    BY <2>1, FailIs
<1>6. /\ Members' = Members /\ \A n \in Members : Peers(n)' = Peers(n)
      /\ \A n \in Members \ {m} : Started(n)' <=> Started(n)
  BY <1>1, <1>2 DEF Members, Peers, Started
<1>7. \A n \in Members \ {m} : Finished(n) => Finished(n)'
  <2> SUFFICES ASSUME NEW n \in Members \ {m}, Finished(n) PROVE Finished(n)'
    OBVIOUS
  <2>1. phase[n] = "running" /\ ~spoiled[n] /\ HasRound1(n) /\ HasRound2(n) /\ Started(n)
    BY DEF Finished, Started
  <2>2. ~spoiled'[n] /\ got'[n] = got[n] /\ phase'[n] = "running"
    BY <1>2, <1>3, <1>4, <2>1
  <2> QED
    BY <1>6, <2>1, <2>2 DEF Finished, HasRound1, HasRound2
<1>8. ASSUME NEW msg \in net' PROVE RoundMessageOK(msg)'
  <2>1. CASE msg.kind \in Exchanges
    BY <2>1 DEF Exchanges, RoundMessageOK
  <2>2. CASE msg.kind \notin Exchanges
    <3>1. msg \in net /\ msg.from \in Members \ {m} /\ RoundMessageOK(msg)
      BY <1>5, <2>2 DEF NetTypes, AttemptInv
    <3> QED
      BY <1>2, <1>6, <3>1 DEF RoundMessageOK
  <2> QED
    BY <2>1, <2>2
<1>9. ASSUME NEW p \in Members, NEW q \in Peers(p) PROVE RoundFits(p, q)'
  <2>1. RoundFits(p, q) /\ q \in Members /\ p # q
    BY DEF AttemptInv, Peers
  <2>2. OnItsWay("round1", p, q)' => OnItsWay("round1", p, q) /\ p # m /\ q # m
    BY <1>5 DEF OnItsWay, Exchanges
  <2>3. CASE p = m
    BY <1>1, <2>3 DEF RoundFits
  <2>4. CASE p # m /\ q = m
    <3> SUFFICES ASSUME NEW r \in {1, 2}, <<m, r>> \in got'[p], ~spoiled'[p]
                 PROVE  RoundFits(p, m)'
      BY <2>4 DEF RoundFits
    <3>1. Started(p)
      BY <1>3, <2>4
    <3>2. Finished(p)' \/ phase'[p] = "done"
      BY <1>2, <1>4, <1>7, <2>4, <3>1 DEF Started
    <3> QED
      BY <1>1, <2>2, <2>4, <3>2 DEF RoundFits
  <2>5. CASE p # m /\ q # m
    <3>1. /\ got'[p] \subseteq got[p] /\ got'[q] \subseteq got[q]
          /\ spoiled[p] => spoiled'[p]
          /\ digest'[p] = digest[p] /\ digest'[q] = digest[q]
          /\ Started(q) => Started(q)'
          /\ Finished(p) \/ phase[p] = "done" => Finished(p)' \/ phase'[p] = "done"
      BY <1>2, <1>3, <1>4, <1>6, <1>7, <2>1, <2>5
    <3> QED
      BY <2>1, <2>2, <3>1 DEF RoundFits
  <2> QED
    BY <2>3, <2>4, <2>5
<1>10. ASSUME NEW n \in Members \ {m} PROVE MemberOK(n)'
  <2>1. MemberOK(n)
    BY DEF AttemptInv
  <2>2. phase[n] = "done" => ~spoiled'[n] /\ HasRound1(n)' /\ HasRound2(n)'
    <3> SUFFICES ASSUME phase[n] = "done"
                 PROVE  ~spoiled'[n] /\ HasRound1(n)' /\ HasRound2(n)'
      OBVIOUS
    <3>1. Started(n) /\ ~spoiled[n] /\ HasRound1(n) /\ HasRound2(n)
      BY <2>1 DEF Started, MemberOK
    <3>2. got'[n] = got[n] /\ ~spoiled'[n]
      BY <1>3, <1>4, <3>1
    <3> QED
      BY <1>6, <3>1, <3>2 DEF HasRound1, HasRound2
  <2>3. got'[n] # {} => got[n] # {}
    BY <1>3
  <2> QED
    BY <1>1, <1>2, <2>1, <2>2, <2>3 DEF MemberOK, Members, job, Stages, paramsVars
<1>11. MemberOK(m)'
  BY <1>1 DEF MemberOK, Exchanges
<1> QED
  BY <1>6, <1>8, <1>9, <1>10, <1>11 DEF AttemptInv

\* Going through a set in one order or in another visits the same elements.
LEMMA Reordered ==
    ASSUME NEW D, NEW S, NEW a \in Bijection(D, S), NEW b \in Bijection(D, S),
           NEW at \in Bijection(D, D)
    PROVE  \E bt \in Bijection(D, D) : \A i \in D : b[bt[i]] = a[at[i]]
<1> DEFINE bt == [i \in D |-> CHOOSE j \in D : b[j] = a[at[i]]]
<1> USE DEF Bijection, Injection, Surjection, IsInjective
<1>1. ASSUME NEW i \in D PROVE bt[i] \in D /\ b[bt[i]] = a[at[i]]
  <2>1. a[at[i]] \in S
    OBVIOUS
  <2>2. \E j \in D : b[j] = a[at[i]]
    BY <2>1
  <2>3. bt[i] = CHOOSE j \in D : b[j] = a[at[i]]
    OBVIOUS
  <2> QED
    BY <2>2, <2>3
<1>2. bt \in [D -> D]
  BY <1>1
<1> HIDE DEF bt
<1>3. DOMAIN a = D /\ DOMAIN b = D /\ DOMAIN at = D /\ DOMAIN bt = D
  BY <1>2
<1>4. \A i, j \in D : bt[i] = bt[j] => i = j
  <2> SUFFICES ASSUME NEW i \in D, NEW j \in D, bt[i] = bt[j] PROVE i = j
    OBVIOUS
  <2>1. a[at[i]] = a[at[j]] /\ at[i] \in D /\ at[j] \in D
    BY <1>1
  <2>2. at[i] = at[j]
    BY <1>3, <2>1
  <2> QED
    BY <1>3, <2>2
<1>5. \A k \in D : \E i \in D : bt[i] = k
  <2> SUFFICES ASSUME NEW k \in D PROVE \E i \in D : bt[i] = k
    OBVIOUS
  <2>1. PICK l \in D : a[l] = b[k]
    OBVIOUS
  <2>2. PICK i \in D : at[i] = l
    OBVIOUS
  <2>3. b[bt[i]] = b[k] /\ bt[i] \in D
    BY <1>1, <2>1, <2>2
  <2> QED
    BY <1>3, <2>3
<1>6. bt \in Bijection(D, D)
  BY <1>2, <1>3, <1>4, <1>5
<1> QED
  BY <1>1, <1>6

\* Sorting the addresses that the members offer gives one list, whatever the order
\* in which they were gathered.
LEMMA SortedAlike ==
    ASSUME NEW a \in Orders, NEW b \in Orders
    PROVE  sortStrings(OfferedIn(a)) = sortStrings(OfferedIn(b))
<1> DEFINE D == 1..Cardinality(Members)
           Offered(order, at) == [i \in D |-> OfferedIn(order)[at[i]]]
<1>1. \A order : DOMAIN OfferedIn(order) = D
  BY DEF OfferedIn
<1>2. \A order :
         Rearrangements(OfferedIn(order)) = {Offered(order, at) : at \in Bijection(D, D)}
  BY <1>1 DEF Rearrangements
<1> HIDE DEF D
<1>3. ASSUME NEW c \in Orders, NEW d \in Orders, NEW at \in Bijection(D, D)
      PROVE  \E bt \in Bijection(D, D) : Offered(d, bt) = Offered(c, at)
  <2>1. c \in Bijection(D, Members) /\ d \in Bijection(D, Members)
    BY DEF Orders, D
  <2>2. PICK bt \in Bijection(D, D) : \A i \in D : d[bt[i]] = c[at[i]]
    BY <2>1, Reordered
  <2>3. \A i \in D : at[i] \in D /\ bt[i] \in D
    BY DEF Bijection, Injection
  <2>4. \A i \in D : OfferedIn(d)[bt[i]] = OfferedIn(c)[at[i]]
    BY <2>2, <2>3 DEF OfferedIn, D
  <2> QED
    BY <2>4
<1> HIDE DEF Offered
<1>4. ASSUME NEW c \in Orders, NEW d \in Orders
      PROVE  Rearrangements(OfferedIn(c)) \subseteq Rearrangements(OfferedIn(d))
  <2> SUFFICES ASSUME NEW list \in Rearrangements(OfferedIn(c))
               PROVE  list \in Rearrangements(OfferedIn(d))
    OBVIOUS
  <2>1. PICK at \in Bijection(D, D) : list = Offered(c, at)
    BY <1>2
  <2>2. PICK bt \in Bijection(D, D) : Offered(d, bt) = Offered(c, at)
    BY <1>3
  <2> QED
    BY <1>2, <2>1, <2>2
<1>5. Rearrangements(OfferedIn(a)) = Rearrangements(OfferedIn(b))
  BY <1>4
<1> QED
  BY <1>1, <1>5 DEF sortStrings

\* A step that leaves the members and their addresses alone leaves what they agree on.
LEMMA AgreedKept ==
    ASSUME group' = group, address' = address
    PROVE  Agreed' = Agreed
<1>1. Members' = Members
  BY DEF Members
<1> QED
  BY <1>1 DEF Agreed, OfferedIn, Orders

LEMMA StutterInv ==
    ASSUME ProtocolInv, UNCHANGED protocolVars
    PROVE  ProtocolInv'
<1>1. UNCHANGED <<group, phase, heard, info, party, digest, got, spoiled, pool, box, shown, address, net, faults>>
  BY DEF protocolVars, attemptVars, paramsVars
<1>2. GroupTypes' /\ NetTypes'
  BY <1>1 DEF ProtocolInv, GroupTypes, NetTypes, Members, MaxFaults
<1>3. AttemptInv'
  <2>1. Members' = Members /\ Stages' = Stages /\ job' = job
    BY <1>1 DEF Members, Stages, job
  <2>2. ASSUME NEW m \in Members
        PROVE  /\ (HasRound1(m)' <=> HasRound1(m)) /\ (HasRound2(m)' <=> HasRound2(m))
               /\ (Started(m)' <=> Started(m)) /\ Peers(m)' = Peers(m)
    BY <1>1, <2>1 DEF HasRound1, HasRound2, Peers, Started
  <2>3. ASSUME NEW m \in Members PROVE MemberOK(m)' <=> MemberOK(m)
    BY <1>1, <2>1, <2>2 DEF MemberOK
  <2>4. ASSUME NEW m \in Members PROVE Finished(m)' <=> Finished(m)
    BY <1>1, <2>2 DEF Finished
  <2>5. ASSUME NEW m \in Members, NEW n \in Members PROVE RoundFits(m, n)' <=> RoundFits(m, n)
    BY <1>1, <2>2, <2>4 DEF RoundFits, OnItsWay
  <2>6. ASSUME NEW msg PROVE RoundMessageOK(msg)' <=> RoundMessageOK(msg)
    BY <1>1 DEF RoundMessageOK, Started
  <2>7. net' = net /\ \A m \in Members : Peers(m) \subseteq Members
    BY <1>1 DEF Peers
  <2> QED
    BY <2>1, <2>2, <2>3, <2>5, <2>6, <2>7 DEF ProtocolInv, AttemptInv
<1>4. Calm' <=> Calm
  BY <1>1, AgreedKept
     DEF Calm, AgreementOK, InStep, Supplied, RoundsSupplied, CopyOK, Members, Peers, Started, OnItsWay,
         Stages, job, Past, Reached, OwnInfo
<1> QED
  BY <1>1, <1>2, <1>3, <1>4 DEF ProtocolInv

----------------------------------------------------------------------------
(* Groups that nothing has disturbed. *)

LEMMA RankNat == \A p \in Phases : Rank(p) \in Nat
BY RankIs DEF Phases, Exchanges

LEMMA ProtocolInitCalm == ProtocolInit => Calm
<1> SUFFICES ASSUME ProtocolInit PROVE Calm
  OBVIOUS
<1>1. \A m \in Members : /\ phase[m] = "idle" /\ heard[m] = {} /\ digest[m] = NoDigest
                         /\ ~spoiled[m]
  BY DEF ProtocolInit
<1>2. net = {}
  BY DEF ProtocolInit
<1>3. \A m \in Members : \A k \in Exchanges : ~Past(m, k)
  BY <1>1, RankIs DEF Past, Exchanges
<1>4. "idle" \notin Exchanges /\ "exchanging" \in Exchanges /\ Stages \subseteq Exchanges
  BY DEF Exchanges, Stages
<1>5. \A m \in Members : AgreementOK(m)
  BY <1>1, <1>3, <1>4 DEF AgreementOK
<1>6. \A m \in Members : \A n \in Peers(m) :
         InStep(m, n) /\ Supplied(m, n) /\ RoundsSupplied(m, n)
  BY <1>1, <1>3, <1>4 DEF InStep, Supplied, RoundsSupplied, Peers, Started
<1> QED
  BY <1>2, <1>5, <1>6 DEF Calm

InStepInv == \A m \in Members : \A n \in Peers(m) : InStep(m, n) /\ Supplied(m, n)
RoundsInv == \A m \in Members : \A n \in Peers(m) : RoundsSupplied(m, n)

\* A member that goes on to the next phase stays in step with the others, and
\* leaves a copy for those that have not heard from it.
LEMMA PhaseStep ==
    ASSUME GroupTypes, AttemptInv, InStepInv, group' = group,
           NEW m \in Members, NEW b \in Phases,
           Enter(m, b), b \in Exchanges => b \in Stages,
           phase[m] \in Exchanges => phase[m] \in Stages /\ heard[m] = Members,
           Rank(phase[m]) < Rank(b),
           \A k \in Stages : Rank(k) > Rank(phase[m]) => Rank(k) >= Rank(b),
           net \subseteq net', LastCopies(m, phase[m]) \subseteq net'
    PROVE  InStepInv'
<1>1. PICK a \in Phases : a = phase[m]
  BY DEF GroupTypes
<1>2. /\ phase'[m] = b /\ heard'[m] \subseteq {m}
      /\ \A n \in Members \ {m} : phase'[n] = phase[n] /\ heard'[n] = heard[n]
  BY DEF Enter, GroupTypes
<1>3. /\ Members' = Members /\ Stages' = Stages /\ Stages \subseteq Exchanges
      /\ \A n \in Members : Peers(n)' = Peers(n)
  BY DEF Members, Peers, Stages, job
<1>4. /\ Rank(a) \in Nat /\ Rank(b) \in Nat
      /\ \A n \in Members : Rank(phase[n]) \in Nat
      /\ \A k \in Stages : k \in Phases /\ Rank(k) \in Nat
  BY RankNat DEF GroupTypes, Stages, Phases
<1>5. \A k \in Stages : Past(m, k)' => Past(m, k) \/ (k = a /\ heard[m] = Members)
  <2> SUFFICES ASSUME NEW k \in Stages, Rank(b) > Rank(k), ~(Rank(a) > Rank(k))
               PROVE  k = a /\ heard[m] = Members
    BY <1>1, <1>2 DEF Past
  <2>1. Rank(k) = Rank(a)
    BY <1>1, <1>4
  <2>2. k = a
    BY <1>1, <2>1, RankIs DEF Stages, Exchanges, Phases
  <2> QED
    BY <1>1, <1>3, <2>2
<1>6. \A n \in Members : \A k \in Stages : Reached(n, k) => Reached(n, k)'
  BY <1>1, <1>2, <1>4 DEF Reached
<1>7. \A k \in Stages : \A n \in Members \ {m} : Past(n, k)' <=> Past(n, k)
  BY <1>2 DEF Past
<1>8. ASSUME NEW x \in Members, NEW y \in Peers(x) PROVE InStep(x, y)'
  <2>1. InStep(x, y) /\ y \in Members /\ x # y
    BY DEF InStepInv, Peers
  <2>2. ASSUME NEW k \in Stages, Past(x, k)' PROVE Reached(y, k)'
    <3>1. CASE Past(x, k)
      BY <1>6, <2>1, <3>1 DEF InStep
    <3>2. CASE ~Past(x, k)
      <4>1. x = m /\ k = a /\ heard[m] = Members
        BY <1>5, <1>7, <2>2, <3>2
      <4>2. Reached(y, k)
        BY <1>1, <1>3, <2>1, <4>1 DEF InStep
      <4> QED
        BY <1>6, <2>1, <4>2
    <3> QED
      BY <3>1, <3>2
  <2>3. ASSUME phase'[x] \in Exchanges, y \in heard'[x] PROVE Reached(y, phase[x])'
    <3>1. x # m
      BY <1>2, <2>1, <2>3
    <3>2. phase'[x] = phase[x] /\ heard'[x] = heard[x] /\ Reached(y, phase[x])
      BY <1>2, <2>1, <2>3, <3>1 DEF InStep
    <3>3. Rank(phase'[y]) >= Rank(phase[y]) /\ Rank(phase'[y]) \in Nat
      BY <1>1, <1>2, <1>4, <2>1
    <3> QED
      BY <1>4, <2>1, <3>2, <3>3 DEF Reached
  <2> QED
    BY <1>3, <2>2, <2>3 DEF InStep
<1>9. ASSUME NEW x \in Members, NEW y \in Peers(x) PROVE Supplied(x, y)'
  <2> SUFFICES ASSUME phase'[x] \in Exchanges, y \notin heard'[x], Past(y, phase[x])'
               PROVE  OnItsWay(phase[x], y, x)'
    BY DEF Supplied
  <2>1. y \in Members /\ x # y /\ Supplied(x, y) /\ InStep(y, x)
    BY DEF InStepInv, Peers
  <2>2. CASE x = m
    <3>1. b \in Stages /\ Past(y, b)
      BY <1>2, <2>1, <2>2 DEF Past
    <3>2. Reached(m, b)
      BY <2>1, <2>2, <3>1 DEF InStep
    <3> QED
      BY <1>1, <1>4, <3>2 DEF Reached
  <2>3. CASE x # m
    <3>1. phase'[x] = phase[x] /\ heard'[x] = heard[x]
      BY <1>2, <2>3
    <3>2. CASE Past(y, phase[x])
      <4>1. OnItsWay(phase[x], y, x)
        BY <2>1, <3>1, <3>2 DEF Supplied
      <4> QED
        BY <3>1, <4>1 DEF OnItsWay
    <3>3. CASE ~Past(y, phase[x])
      <4>1. y = m /\ phase[x] \in Stages
        BY <1>2, <2>1, <3>1, <3>3 DEF Past, AttemptInv, MemberOK
      <4>2. phase[x] = a
        BY <1>5, <3>1, <3>3, <4>1 DEF Past
      <4>3. x \in Peers(m) /\ m \notin heard[x] /\ a \in Exchanges
        BY <2>1, <3>1, <4>1, <4>2 DEF Peers
      <4>4. Rank(phase[x]) <= Rank(a)
        BY <1>4, <4>2
      <4>5. IsNews(Message(a, m, x, Content(a, m)))
        BY <4>3, MessageIs DEF IsNews
      <4>6. Message(a, m, x, Content(a, m)) \in LastCopies(m, a)
        BY <4>3, <4>4, <4>5 DEF LastCopies
      <4>7. Message(a, m, x, Content(a, m)) \in net'
        BY <1>1, <4>6
      <4> QED
        BY <3>1, <4>1, <4>2, <4>7, MessageIs DEF OnItsWay
    <3> QED
      BY <3>2, <3>3
  <2> QED
    BY <2>2, <2>3
<1> QED
  BY <1>3, <1>8, <1>9 DEF InStepInv

LEMMA RoundsKept ==
    ASSUME RoundsInv, group' = group, got' = got,
           \A n \in Members : /\ Started(n)' => Started(n)
                              /\ phase'[n] = "done" => phase[n] = "done",
           \A msg \in net : msg.kind \in {"round1", "round2"} => msg \in net'
    PROVE  RoundsInv'
<1>1. Members' = Members /\ \A n \in Members : Peers(n)' = Peers(n)
  BY DEF Members, Peers
<1>2. \A a, b : /\ OnItsWay("round1", a, b) => OnItsWay("round1", a, b)'
                /\ OnItsWay("round2", a, b) => OnItsWay("round2", a, b)'
  BY DEF OnItsWay
<1>3. ASSUME NEW m \in Members, NEW n \in Peers(m) PROVE RoundsSupplied(m, n)'
  <2>1. RoundsSupplied(m, n) /\ n \in Members
    BY DEF RoundsInv, Peers
  <2> QED
    BY <1>2, <2>1 DEF RoundsSupplied
<1> QED
  BY <1>1, <1>3 DEF RoundsInv

CopiesInv == \A msg \in net : CopyOK(msg)

LEMMA CopiesKept ==
    ASSUME NetTypes, CopiesInv, group' = group,
           \A n \in Members : \A k \in Stages : Past(n, k) => Past(n, k)',
           \A n \in Members : Past(n, "exchanging") => address'[n] = address[n],
           \A msg \in net' : msg \in net \/ CopyOK(msg)'
    PROVE  CopiesInv'
<1>1. Stages' = Stages
  BY DEF Stages, job
<1>2. ASSUME NEW msg \in net PROVE CopyOK(msg)'
  <2>1. CopyOK(msg) /\ msg.from \in Members
    BY DEF CopiesInv, NetTypes
  <2> QED
    BY <1>1, <2>1 DEF CopyOK, OwnInfo
<1> QED
  BY <1>2 DEF CopiesInv

AgreementInv == \A m \in Members : AgreementOK(m)

LEMMA AgreementKept ==
    ASSUME AgreementInv, group' = group, UNCHANGED <<digest, address, info, spoiled>>,
           \A n \in Members :
              /\ job = "recovery" => (Past(n, "exchanging")' <=> Past(n, "exchanging"))
              /\ phase'[n] = "exchanging" =>
                    \A p \in heard'[n] : p # n => phase[n] = "exchanging" /\ p \in heard[n]
    PROVE  AgreementInv'
<1>1. Members' = Members /\ job' = job /\ Agreed' = Agreed /\ \A p : OwnInfo(p)' = OwnInfo(p)
  BY AgreedKept DEF Members, job, OwnInfo
<1>2. ASSUME NEW m \in Members PROVE AgreementOK(m)'
  <2>1. AgreementOK(m)
    BY DEF AgreementInv
  <2> QED
    BY <1>1, <2>1 DEF AgreementOK
<1> QED
  BY <1>1, <1>2 DEF AgreementInv

LEMMA CalmParts == Calm <=> AgreementInv /\ InStepInv /\ RoundsInv /\ CopiesInv
BY DEF Calm, AgreementInv, InStepInv, RoundsInv, CopiesInv

LEMMA StagesAre ==
    ASSUME group \in Groups
    PROVE  Stages = CASE job = "keygen" -> {"announcing", "readying"}
                      [] job = "signing" -> {"readying"}
                      [] job = "recovery" -> {"announcing", "exchanging", "readying"}
BY GroupFacts DEF Stages, Exchanges

LEMMA AttemptCalm ==
    ASSUME GroupTypes, NetTypes, AttemptInv, Calm, NEW m \in Members, Attempt(m), NoFault
    PROVE  Calm'
<1>1. /\ UNCHANGED <<group, info, party, digest, got, spoiled, paramsVars, address>>
      /\ Enter(m, First) /\ phase[m] = "idle"
  BY DEF Attempt
<1>2. \A msg \in net : msg.from # m
  <2> SUFFICES ASSUME NEW msg \in net, msg.from = m PROVE FALSE
    OBVIOUS
  <2>1. CopyOK(msg) /\ RoundMessageOK(msg) /\ msg.kind \in Exchanges \cup {"round1", "round2"}
    BY DEF Calm, AttemptInv, NetTypes
  <2>2. msg.kind \in Exchanges
    BY <1>1, <2>1 DEF RoundMessageOK, Started
  <2>3. Rank("idle") > Rank(msg.kind)
    BY <1>1, <2>1, <2>2 DEF CopyOK, Past
  <2> QED
    BY <2>2, <2>3, RankIs DEF Exchanges
<1>3. net' = net
  BY <1>2 DEF Attempt
<1>4. /\ First = IF job = "signing" THEN "connecting" ELSE "announcing"
      /\ First \in Phases /\ (First \in Exchanges => First \in Stages)
      /\ \A k \in Stages : Rank(k) >= Rank(First) /\ ~(Rank(First) > Rank(k))
  <2>1. job \in {"keygen", "signing", "recovery"}
    BY GroupFacts DEF GroupTypes
  <2>2. CASE job = "signing"
    BY <2>2, RankIs DEF First, Phases, Exchanges, Stages
  <2>3. CASE job # "signing"
    BY <2>3, RankIs DEF First, Phases, Exchanges, Stages
  <2> QED
    BY <2>2, <2>3 DEF First
<1>5. /\ phase'[m] = First /\ heard'[m] \subseteq {m}
      /\ \A n \in Members \ {m} : phase'[n] = phase[n] /\ heard'[n] = heard[n]
  BY <1>1 DEF Enter, GroupTypes
<1>6. InStepInv'
  <2>1. "idle" \notin Exchanges /\ LastCopies(m, phase[m]) = {}
    BY <1>1 DEF LastCopies, Exchanges
  <2>2. Rank(phase[m]) < Rank(First)
    BY <1>1, <1>4, RankIs
  <2> QED
    BY <1>1, <1>3, <1>4, <2>1, <2>2, CalmParts, PhaseStep
<1>7. RoundsInv'
  BY <1>1, <1>3, <1>4, <1>5, CalmParts, RoundsKept DEF Started
<1>8. \A n \in Members : \A k \in Stages : Past(n, k)' <=> Past(n, k)
  <2>1. \A k \in Stages : ~(Rank("idle") > Rank(k))
    BY RankIs DEF Stages, Exchanges
  <2> QED
    BY <1>1, <1>4, <1>5, <2>1 DEF Past
<1>9. CopiesInv'
  <2>1. \A n \in Members : \A k \in Stages : Past(n, k) => Past(n, k)'
    BY <1>8
  <2> QED
    BY <1>1, <1>3, <2>1, CalmParts, CopiesKept
<1>10. AgreementInv'
  <2>1. job = "recovery" => "exchanging" \in Stages
    BY DEF Stages, Exchanges
  <2>2. \A n \in Members : job = "recovery" => (Past(n, "exchanging")' <=> Past(n, "exchanging"))
    BY <1>8, <2>1
  <2>3. \A n \in Members : phase'[n] = "exchanging" =>
                    \A p \in heard'[n] : p # n => phase[n] = "exchanging" /\ p \in heard[n]
    BY <1>4, <1>5
  <2> QED
    BY <1>1, <2>2, <2>3, CalmParts, AgreementKept
<1> QED
  BY <1>6, <1>7, <1>9, <1>10, CalmParts, PTL

\* The last copies of an exchange say what the exchange says.
LEMMA CopiesOK ==
    ASSUME NEW m \in Members, NEW kind \in Stages, group' = group,
           kind = "exchanging" => address'[m] = address[m],
           Past(m, kind)'
    PROVE  \A msg \in LastCopies(m, kind) : CopyOK(msg)'
<1> SUFFICES ASSUME NEW msg \in LastCopies(m, kind) PROVE CopyOK(msg)'
  OBVIOUS
<1>1. msg.kind = kind /\ msg.from = m /\ msg.content = Content(kind, m)
  BY CopiesGo
<1>2. Stages' = Stages
  BY DEF Stages, job
<1>3. kind = "exchanging" => msg.content = OwnInfo(m)'
  BY <1>1 DEF Content, OwnInfo
<1> QED
  BY <1>1, <1>2, <1>3 DEF CopyOK

LEMMA AnnounceCalm ==
    ASSUME GroupTypes, NetTypes, AttemptInv, Calm, NEW m \in Members, AnnounceProtocol(m)
    PROVE  Calm'
<1> DEFINE next == After("announcing")
<1>1. /\ UNCHANGED <<group, info, party, digest, got, spoiled, paramsVars, faults>>
      /\ phase[m] = "announcing" /\ Enter(m, next) /\ heard[m] = Members
      /\ net' = net \cup LastCopies(m, "announcing")
      /\ address' = [address EXCEPT ![m] = IF job = "recovery"
                                           THEN (@ + 1) % AddressCount ELSE @]
  BY DEF AnnounceProtocol, Leave
<1>2. /\ next = IF job = "recovery" THEN "exchanging" ELSE "connecting"
      /\ next \in Phases /\ (next \in Exchanges => next \in Stages)
  BY AfterIs DEF Phases, Exchanges, Stages
<1> HIDE DEF next
<1>3. /\ \A n \in Members \ {m} : phase'[n] = phase[n] /\ heard'[n] = heard[n]
      /\ phase'[m] = next /\ heard'[m] \subseteq {m}
      /\ \A n \in Members \ {m} : address'[n] = address[n]
      /\ job # "recovery" => address' = address
  BY <1>1 DEF Enter, GroupTypes
<1>4. /\ "announcing" \in Stages
      /\ \A k \in Stages : Rank(k) > Rank("announcing") => Rank(k) >= Rank(next)
      /\ Rank("announcing") < Rank(next)
      /\ \A k \in Stages : Rank("announcing") > Rank(k) => Rank(next) > Rank(k)
  <2>1. "announcing" \in Stages
    BY <1>1 DEF AttemptInv, MemberOK, Exchanges
  <2>2. CASE job = "recovery"
    BY <1>2, <2>1, <2>2, RankIs DEF Stages, Exchanges
  <2>3. CASE job # "recovery"
    BY <1>2, <2>1, <2>3, RankIs DEF Stages, Exchanges
  <2> QED
    BY <2>1, <2>2, <2>3
<1>5. InStepInv'
  BY <1>1, <1>2, <1>4, CalmParts, PhaseStep
<1>6. RoundsInv'
  BY <1>1, <1>2, <1>3, CalmParts, RoundsKept DEF Started
<1>7. ~Past(m, "exchanging") /\ ~Reached(m, "exchanging") /\ Past(m, "announcing")'
  BY <1>1, <1>3, <1>4, RankIs DEF Past, Reached
<1>8. CopiesInv'
  <2>1. \A n \in Members : \A k \in Stages : Past(n, k) => Past(n, k)'
    BY <1>1, <1>3, <1>4 DEF Past
  <2>2. \A msg \in net' : msg \in net \/ CopyOK(msg)'
    BY <1>1, <1>4, <1>7, CopiesOK
  <2> QED
    BY <1>1, <1>3, <1>7, <2>1, <2>2, CalmParts, CopiesKept
<1>9. AgreementInv'
  <2>1. CASE job # "recovery"
    BY <1>1, <1>2, <1>3, <2>1, CalmParts, AgreementKept
  <2>2. CASE job = "recovery"
    <3>1. "exchanging" \in Stages /\ job' = job /\ Members' = Members
      BY <1>1, <2>2 DEF Stages, Exchanges, job, Members
    <3>2. \A n \in Members \ {m} : /\ InStep(n, m) /\ AgreementOK(n)
      BY DEF Calm, Peers
    <3>3. \A n \in Members \ {m} : ~Past(n, "exchanging") /\ ~Past(n, "exchanging")'
      BY <1>3, <1>7, <3>1, <3>2 DEF InStep, Past
    <3>4. \A n \in Members \ {m} : phase[n] = "exchanging" => m \notin heard[n]
      BY <1>7, <3>2 DEF InStep, Exchanges
    <3>5. \A n \in Members \ {m} : OwnInfo(n)' = OwnInfo(n)
      BY <1>3 DEF OwnInfo
    <3>6. ASSUME NEW n \in Members \ {m} PROVE AgreementOK(n)'
      <4>1. \A p \in heard[n] : p \in Members
        BY DEF GroupTypes
      <4> QED
        BY <1>1, <1>3, <3>1, <3>2, <3>3, <3>4, <3>5, <4>1 DEF AgreementOK
    <3>7. AgreementOK(m)'
      <4>1. ~Past(m, "exchanging")'
        BY <1>2, <1>3, <2>2, RankIs DEF Past
      <4>2. AgreementOK(m)
        BY DEF Calm
      <4> QED
        BY <1>1, <1>3, <1>7, <4>1, <4>2 DEF AgreementOK
    <3> QED
      BY <3>1, <3>6, <3>7 DEF AgreementInv
  <2> QED
    BY <2>1, <2>2
<1> QED
  BY <1>5, <1>6, <1>8, <1>9, CalmParts, PTL

\* A member that heard from everyone builds the transaction of all.
LEMMA GatheredIs ==
    ASSUME GroupTypes, Calm, NEW m \in Members, phase[m] = "exchanging", heard[m] = Members,
           NEW order \in Orders
    PROVE  BroadcastRecoveryAddress(m, order) = Agreed
<1> DEFINE infos == [info[m] EXCEPT ![m] = OwnInfo(m)]
           D == 1..Cardinality(Members)
<1>1. \A n \in Members : infos[n] = OwnInfo(n)
  <2>1. info[m] = [n \in Members |-> info[m][n]]
    BY DEF GroupTypes
  <2>2. \A n \in Members \ {m} : info[m][n] = OwnInfo(n)
    BY DEF Calm, AgreementOK
  <2> QED
    BY <2>1, <2>2
<1>2. Gathered(m, order) = [outputs |-> [i \in D |-> infos[order[i]].address],
                            fee |-> Min({infos[n].fee : n \in Members} \cup {MaxInt32})]
  BY DEF Gathered
<1> HIDE DEF infos
<1>3. \A n \in Members : infos[n].address = Address[n][address[n]] /\ infos[n].fee = Fee[n]
  <2>1. \A n \in Members : OwnInfo(n).address = Address[n][address[n]] /\ OwnInfo(n).fee = Fee[n]
    BY DEF OwnInfo
  <2> QED
    BY <1>1, <2>1
<1>4. [i \in D |-> infos[order[i]].address] = OfferedIn(order)
  <2>1. \A i \in D : order[i] \in Members
    BY DEF Orders, Bijection, Injection
  <2>2. \A i \in D : infos[order[i]].address = Address[order[i]][address[order[i]]]
    BY <1>3, <2>1
  <2> QED
    BY <2>2 DEF OfferedIn
<1>5. {infos[n].fee : n \in Members} = {Fee[n] : n \in Members}
  BY <1>3
<1>6. sortStrings(OfferedIn(order)) = sortStrings(OfferedIn(CHOOSE o \in Orders : TRUE))
  BY SortedAlike
<1>7. BroadcastRecoveryAddress(m, order) =
         [outputs |-> sortStrings(Gathered(m, order).outputs), fee |-> Gathered(m, order).fee]
  BY <1>2 DEF BroadcastRecoveryAddress
<1>8. Gathered(m, order).outputs = OfferedIn(order)
  BY <1>2, <1>4
<1>9. Gathered(m, order).fee = Min({Fee[n] : n \in Members} \cup {MaxInt32})
  <2>1. Gathered(m, order).fee = Min({infos[n].fee : n \in Members} \cup {MaxInt32})
    BY <1>2
  <2> QED
    BY <1>5, <2>1, Zenon
<1> QED
  BY <1>6, <1>7, <1>8, <1>9, Zenon DEF Agreed

LEMMA ExchangeCalm ==
    ASSUME GroupTypes, NetTypes, AttemptInv, Calm, NEW m \in Members, ExchangeRecoveryInfo(m)
    PROVE  Calm'
<1>1. /\ UNCHANGED <<group, address, party, got, spoiled, paramsVars, faults>>
      /\ phase[m] = "exchanging" /\ Enter(m, "connecting") /\ heard[m] = Members
      /\ net' = net \cup LastCopies(m, "exchanging")
      /\ digest' = [digest EXCEPT ![m] = Agreed]
      /\ info' = [info EXCEPT ![m] = [n \in Members |-> NoInfo]]
  <2>1. PICK order \in Orders :
            digest' = [digest EXCEPT ![m] = BroadcastRecoveryAddress(m, order)]
    BY DEF ExchangeRecoveryInfo
  <2>2. BroadcastRecoveryAddress(m, order) = Agreed
    BY GatheredIs DEF ExchangeRecoveryInfo, Leave
  <2> QED
    BY AfterIs, <2>1, <2>2 DEF ExchangeRecoveryInfo, Leave
<1>2. /\ \A n \in Members \ {m} : /\ phase'[n] = phase[n] /\ heard'[n] = heard[n]
                                  /\ digest'[n] = digest[n] /\ info'[n] = info[n]
      /\ phase'[m] = "connecting" /\ heard'[m] = {} /\ digest'[m] = Agreed
  BY <1>1 DEF Enter, GroupTypes, Exchanges
<1>3. /\ "exchanging" \in Stages /\ "connecting" \notin Exchanges /\ "connecting" \in Phases
      /\ \A k \in Stages : Rank(k) > Rank("exchanging") => Rank(k) >= Rank("connecting")
      /\ Rank("exchanging") < Rank("connecting")
      /\ \A k \in Stages : Rank("exchanging") > Rank(k) => Rank("connecting") > Rank(k)
  <2>1. "exchanging" \in Stages
    BY <1>1 DEF AttemptInv, MemberOK, Exchanges
  <2> QED
    BY <2>1, RankIs DEF Stages, Exchanges, Phases
<1>4. InStepInv'
  BY <1>1, <1>3, CalmParts, PhaseStep
<1>5. RoundsInv'
  BY <1>1, <1>2, CalmParts, RoundsKept DEF Started
<1>6. Past(m, "exchanging")'
  BY <1>2, <1>3, RankIs DEF Past
<1>7. CopiesInv'
  <2>1. \A n \in Members : \A k \in Stages : Past(n, k) => Past(n, k)'
    BY <1>1, <1>2, <1>3 DEF Past
  <2>2. \A msg \in net' : msg \in net \/ CopyOK(msg)'
    BY <1>1, <1>3, <1>6, CopiesOK
  <2> QED
    BY <1>1, <2>1, <2>2, CalmParts, CopiesKept
<1>8. AgreementInv'
  <2>1. /\ Members' = Members /\ job' = job /\ Agreed' = Agreed /\ job = "recovery"
        /\ \A p : OwnInfo(p)' = OwnInfo(p)
    BY <1>1, <1>3, AgreedKept DEF Members, job, OwnInfo, Stages
  <2>2. ASSUME NEW n \in Members \ {m} PROVE AgreementOK(n)'
    <3>1. AgreementOK(n) /\ (Past(n, "exchanging")' <=> Past(n, "exchanging"))
      BY <1>2 DEF Calm, Past
    <3> QED
      BY <1>1, <1>2, <2>1, <3>1 DEF AgreementOK
  <2>3. AgreementOK(m)'
    BY <1>1, <1>2, <1>6, <2>1 DEF AgreementOK, Calm
  <2> QED
    BY <2>1, <2>2, <2>3 DEF AgreementInv
<1> QED
  BY <1>4, <1>5, <1>7, <1>8, CalmParts, PTL

LEMMA ConnectCalm ==
    ASSUME GroupTypes, NetTypes, AttemptInv, Calm, NEW m \in Members, connect(m)
    PROVE  Calm'
<1>1. /\ UNCHANGED <<group, info, digest, got, spoiled, paramsVars, address, net, faults>>
      /\ phase[m] = "connecting" /\ Enter(m, "readying")
  BY AfterIs DEF connect
<1>2. /\ \A n \in Members \ {m} : phase'[n] = phase[n] /\ heard'[n] = heard[n]
      /\ phase'[m] = "readying" /\ heard'[m] = {m}
  BY <1>1 DEF Enter, GroupTypes, Exchanges
<1>3. /\ "connecting" \notin Exchanges /\ "readying" \in Phases /\ "readying" \in Stages
      /\ \A k \in Stages : Rank(k) > Rank("connecting") => Rank(k) >= Rank("readying")
      /\ Rank("connecting") < Rank("readying")
      /\ \A k \in Stages : Rank("connecting") > Rank(k) => Rank("readying") > Rank(k)
  BY RankIs DEF Stages, Exchanges, Phases
<1>4. InStepInv'
  <2>1. LastCopies(m, phase[m]) = {}
    BY <1>1, <1>3 DEF LastCopies
  <2> QED
    BY <1>1, <1>3, <2>1, CalmParts, PhaseStep
<1>5. RoundsInv'
  BY <1>1, <1>2, CalmParts, RoundsKept DEF Started
<1>6. CopiesInv'
  <2>1. \A n \in Members : \A k \in Stages : Past(n, k) => Past(n, k)'
    BY <1>1, <1>2, <1>3 DEF Past
  <2> QED
    BY <1>1, <2>1, CalmParts, CopiesKept
<1>7. AgreementInv'
  <2>1. \A n \in Members : Past(n, "exchanging")' <=> Past(n, "exchanging")
    BY <1>1, <1>2, RankIs DEF Past
  <2> QED
    BY <1>1, <1>2, <2>1, CalmParts, AgreementKept
<1> QED
  BY <1>4, <1>5, <1>6, <1>7, CalmParts, PTL

LEMMA RunCalm ==
    ASSUME GroupTypes, NetTypes, AttemptInv, Calm, NEW m \in Members, Run(m)
    PROVE  Calm'
<1> DEFINE opening == {Message("round1", m, n, digest[m]) : n \in Peers(m)}
<1>1. /\ UNCHANGED <<group, info, party, digest, got, spoiled, pool, address, faults>>
      /\ phase[m] = "readying" /\ Enter(m, "running") /\ heard[m] = Members
      /\ net' = net \cup (LastCopies(m, "readying") \cup opening)
  BY AfterIs DEF Run, readyProtocol
<1>2. /\ \A n \in Members \ {m} : phase'[n] = phase[n] /\ heard'[n] = heard[n]
      /\ phase'[m] = "running" /\ heard'[m] = {}
  BY <1>1 DEF Enter, GroupTypes, Exchanges
<1>3. /\ "running" \notin Exchanges /\ "running" \in Phases /\ "readying" \in Stages
      /\ \A k \in Stages : Rank(k) > Rank("readying") => Rank(k) >= Rank("running")
      /\ Rank("readying") < Rank("running")
      /\ \A k \in Stages : Rank("readying") > Rank(k) => Rank("running") > Rank(k)
  BY RankIs DEF Stages, Exchanges, Phases
<1>4. InStepInv'
  BY <1>1, <1>3, CalmParts, PhaseStep
<1>5. RoundsInv'
  <2>1. Members' = Members /\ \A n \in Members : Peers(n)' = Peers(n)
    BY <1>1 DEF Members, Peers
  <2>2. ASSUME NEW x \in Members, NEW y \in Peers(x) PROVE RoundsSupplied(x, y)'
    <3>1. RoundsSupplied(x, y) /\ y \in Members /\ x # y
      BY DEF Calm, Peers
    <3>2. \A kind : OnItsWay(kind, y, x) => OnItsWay(kind, y, x)'
      BY <1>1 DEF OnItsWay
    <3>3. CASE y = m
      <4>1. Message("round1", m, x, digest[m]) \in net'
        BY <1>1, <3>1, <3>3 DEF Peers
      <4>2. OnItsWay("round1", y, x)'
        BY <3>3, <4>1, MessageIs DEF OnItsWay
      <4> QED
        BY <1>2, <3>3, <4>2 DEF RoundsSupplied
    <3>4. CASE y # m
      BY <1>1, <1>2, <3>1, <3>2, <3>4 DEF RoundsSupplied, Started
    <3> QED
      BY <3>3, <3>4
  <2> QED
    BY <2>1, <2>2 DEF RoundsInv
<1>6. CopiesInv'
  <2>1. \A n \in Members : \A k \in Stages : Past(n, k) => Past(n, k)'
    BY <1>1, <1>2, <1>3 DEF Past
  <2>2. \A msg \in LastCopies(m, "readying") : CopyOK(msg)'
    <3>1. Past(m, "readying")'
      BY <1>2, RankIs DEF Past
    <3> QED
      BY <1>1, <1>3, <3>1, CopiesOK
  <2>3. \A msg \in opening : CopyOK(msg)'
    BY DEF CopyOK, Message, Exchanges
  <2> QED
    BY <1>1, <2>1, <2>2, <2>3, CalmParts, CopiesKept
<1>7. AgreementInv'
  <2>1. \A n \in Members : Past(n, "exchanging")' <=> Past(n, "exchanging")
    BY <1>1, <1>2, RankIs DEF Past
  <2> QED
    BY <1>1, <1>2, <2>1, CalmParts, AgreementKept
<1> QED
  BY <1>4, <1>5, <1>6, <1>7, CalmParts, PTL

LEMMA FinishCalm ==
    ASSUME GroupTypes, NetTypes, AttemptInv, Calm, NEW m \in Members, Finish(m)
    PROVE  Calm'
<1> DEFINE closing == {Message("round2", m, n, digest[m]) :
                         n \in {p \in Peers(m) : <<m, 2>> \notin got[p]}}
<1>1. /\ UNCHANGED <<group, info, party, digest, got, spoiled, paramsVars, address, faults>>
      /\ phase[m] = "running" /\ Enter(m, "done") /\ net' = net \cup closing
  BY DEF Finish, Finished
<1>2. /\ \A n \in Members \ {m} : phase'[n] = phase[n] /\ heard'[n] = heard[n]
      /\ phase'[m] = "done" /\ heard'[m] = {}
  BY <1>1 DEF Enter, GroupTypes, Exchanges
<1>3. /\ "running" \notin Exchanges /\ "done" \notin Exchanges /\ "done" \in Phases
      /\ \A k \in Stages : Rank(k) > Rank("running") => Rank(k) >= Rank("done")
      /\ Rank("running") < Rank("done")
      /\ \A k \in Stages : Rank("running") > Rank(k) => Rank("done") > Rank(k)
  BY RankIs DEF Stages, Exchanges, Phases
<1>4. InStepInv'
  <2>1. LastCopies(m, phase[m]) = {}
    BY <1>1, <1>3 DEF LastCopies
  <2> QED
    BY <1>1, <1>3, <2>1, CalmParts, PhaseStep
<1>5. RoundsInv'
  <2>1. Members' = Members /\ \A n \in Members : Peers(n)' = Peers(n)
    BY <1>1 DEF Members, Peers
  <2>2. ASSUME NEW x \in Members, NEW y \in Peers(x) PROVE RoundsSupplied(x, y)'
    <3>1. RoundsSupplied(x, y) /\ y \in Members /\ x # y
      BY DEF Calm, Peers
    <3>2. \A kind : OnItsWay(kind, y, x) => OnItsWay(kind, y, x)'
      BY <1>1 DEF OnItsWay
    <3>3. CASE y = m
      <4>1. <<m, 2>> \notin got[x] => Message("round2", m, x, digest[m]) \in net'
        BY <1>1, <3>1, <3>3 DEF Peers
      <4>2. <<m, 2>> \notin got[x] => OnItsWay("round2", y, x)'
        BY <3>3, <4>1, MessageIs DEF OnItsWay
      <4> QED
        BY <1>1, <3>1, <3>2, <3>3, <4>2 DEF RoundsSupplied, Started
    <3>4. CASE y # m
      BY <1>1, <1>2, <3>1, <3>2, <3>4 DEF RoundsSupplied, Started
    <3> QED
      BY <3>3, <3>4
  <2> QED
    BY <2>1, <2>2 DEF RoundsInv
<1>6. CopiesInv'
  <2>1. \A n \in Members : \A k \in Stages : Past(n, k) => Past(n, k)'
    BY <1>1, <1>2, <1>3 DEF Past
  <2>2. \A msg \in closing : CopyOK(msg)'
    BY DEF CopyOK, Message, Exchanges
  <2> QED
    BY <1>1, <2>1, <2>2, CalmParts, CopiesKept
<1>7. AgreementInv'
  <2>1. \A n \in Members : Past(n, "exchanging")' <=> Past(n, "exchanging")
    BY <1>1, <1>2, RankIs DEF Past
  <2> QED
    BY <1>1, <1>2, <2>1, CalmParts, AgreementKept
<1> QED
  BY <1>4, <1>5, <1>6, <1>7, CalmParts, PTL

\* A broadcast that can arrive is of a member that has come that far.
LEMMA ExchangeOffer ==
    ASSUME GroupTypes, Calm, NEW n \in Members, NEW m \in Members,
           NEW kind \in Exchanges, NEW msg \in Offers(kind, n, m)
    PROVE  /\ Reached(n, kind)
           /\ msg.kind = kind /\ msg.from = n /\ msg.to = m
           /\ kind = "exchanging" => msg.content = OwnInfo(n)
<1>1. kind # "round2" /\ kind \in Phases
  BY DEF Exchanges, Phases
<1>2. CASE msg \in net /\ msg.kind = kind /\ msg.from = n /\ msg.to = m
  <2>1. CopyOK(msg)
    BY <1>2 DEF Calm
  <2>2. Rank(kind) \in Nat /\ Rank(phase[n]) \in Nat
    BY <1>1, RankNat DEF GroupTypes
  <2> QED
    BY <1>2, <2>1, <2>2 DEF CopyOK, Past, Reached
<1>3. CASE ~(msg \in net /\ msg.kind = kind /\ msg.from = n /\ msg.to = m)
  <2>1. phase[n] = kind /\ msg = Message(kind, n, m, Content(kind, n))
    BY <1>1, <1>3 DEF Offers
  <2>2. Rank(kind) >= Rank(kind)
    BY <1>1, RankNat
  <2> QED
    BY <2>1, <2>2 DEF Reached, Message, Content
<1> QED
  BY <1>2, <1>3

LEMMA HearCalm ==
    ASSUME GroupTypes, NetTypes, AttemptInv, Calm, NEW m \in Members, NEW n \in Peers(m),
           Hear(m, n)
    PROVE  Calm'
<1>1. PICK msg \in Offers(phase[m], n, m) :
                 /\ heard' = [heard EXCEPT ![m] = @ \cup {n}]
                 /\ info' = [info EXCEPT ![m][n] =
                                IF phase[m] = "exchanging" THEN msg.content ELSE @]
                 /\ net' = net \ {msg}
                 /\ UNCHANGED <<group, phase, party, digest, got, spoiled, paramsVars,
                                address, faults>>
  BY DEF Hear, News
<1>2. phase[m] \in Exchanges /\ n \in Members /\ n # m
  BY DEF Hear, Peers
<1>3. /\ Reached(n, phase[m])
      /\ msg.kind = phase[m] /\ msg.from = n /\ msg.to = m
      /\ phase[m] = "exchanging" => msg.content = OwnInfo(n)
  BY <1>2, ExchangeOffer
<1>4. /\ Members' = Members /\ Stages' = Stages /\ \A x \in Members : Peers(x)' = Peers(x)
      /\ \A x, k : (Past(x, k)' <=> Past(x, k)) /\ (Reached(x, k)' <=> Reached(x, k))
  BY <1>1 DEF Members, Stages, job, Peers, Past, Reached
<1>5. /\ \A x \in Members \ {m} : heard'[x] = heard[x] /\ info'[x] = info[x]
      /\ heard'[m] = heard[m] \cup {n}
      /\ \A p \in Members \ {n} : info'[m][p] = info[m][p]
      /\ phase[m] = "exchanging" => info'[m][n] = OwnInfo(n)
  BY <1>1, <1>2, <1>3 DEF GroupTypes
<1>6. InStepInv'
  <2>1. ASSUME NEW x \in Members, NEW y \in Peers(x) PROVE InStep(x, y)'
    <3>1. InStep(x, y)
      BY DEF Calm
    <3>2. \A k \in Stages : Past(x, k)' => Reached(y, k)'
      BY <1>4, <3>1 DEF InStep
    <3>3. phase[x] \in Exchanges /\ y \in heard'[x] => Reached(y, phase[x])
      BY <1>3, <1>5, <3>1 DEF InStep
    <3>4. phase'[x] \in Exchanges /\ y \in heard'[x] => Reached(y, phase[x])'
      BY <1>1, <3>3 DEF Reached
    <3> QED
      BY <1>4, <3>2, <3>4 DEF InStep
  <2>2. ASSUME NEW x \in Members, NEW y \in Peers(x) PROVE Supplied(x, y)'
    <3> SUFFICES ASSUME phase[x] \in Exchanges, y \notin heard'[x], Past(y, phase[x])
                 PROVE  \E k \in net' : k.kind = phase[x] /\ k.from = y /\ k.to = x
      BY <1>1 DEF Supplied, OnItsWay, Past
    <3>1. y \notin heard[x] /\ Supplied(x, y) /\ (x # m \/ y # n)
      BY <1>5 DEF Calm
    <3>2. PICK k \in net : k.kind = phase[x] /\ k.from = y /\ k.to = x
      BY <3>1 DEF Supplied, OnItsWay
    <3> QED
      BY <1>1, <1>3, <3>1, <3>2
  <2> QED
    BY <1>4, <2>1, <2>2 DEF InStepInv
<1>7. RoundsInv'
  <2>1. \A k \in net : k.kind \in {"round1", "round2"} => k \in net'
    BY <1>1, <1>2, <1>3 DEF Exchanges
  <2> QED
    BY <1>1, <2>1, CalmParts, RoundsKept DEF Started
<1>8. CopiesInv'
  BY <1>1, <1>4, CalmParts, CopiesKept
<1>9. AgreementInv'
  <2>1. job' = job /\ Agreed' = Agreed /\ \A p : OwnInfo(p)' = OwnInfo(p)
    BY <1>1, AgreedKept DEF Members, job, OwnInfo
  <2>2. ASSUME NEW x \in Members PROVE AgreementOK(x)'
    <3>1. AgreementOK(x) /\ \A p \in heard[x] : p \in Members
      BY DEF Calm, GroupTypes
    <3>2. phase[x] = "exchanging" => \A p \in heard'[x] : p # x => info'[x][p] = OwnInfo(p)
      <4>1. CASE x = m
        BY <1>5, <3>1, <4>1 DEF AgreementOK
      <4>2. CASE x # m
        BY <1>5, <3>1, <4>2 DEF AgreementOK
      <4> QED
        BY <4>1, <4>2
    <3> QED
      BY <1>1, <1>4, <2>1, <3>1, <3>2 DEF AgreementOK
  <2> QED
    BY <1>4, <2>2 DEF AgreementInv
<1> QED
  BY <1>6, <1>7, <1>8, <1>9, CalmParts, PTL

\* Members whose parties are connected build on the same digest.
LEMMA SameDigest ==
    ASSUME GroupTypes, AttemptInv, Calm, NEW m \in Members, NEW n \in Members,
           party[m] # "none", party[n] # "none"
    PROVE  digest[m] = digest[n]
<1>1. \A x \in {m, n} : phase[x] \in {"readying", "running", "done"}
  BY DEF AttemptInv, MemberOK
<1>2. \A x \in {m, n} : Past(x, "exchanging")
  BY <1>1, RankIs DEF Past
<1> QED
  BY <1>2 DEF Calm, AgreementOK

LEMMA StartedConnected ==
    ASSUME GroupTypes, AttemptInv, Calm, NEW m \in Members, NEW n \in Members, Started(n)
    PROVE  /\ party[n] # "none" /\ party[m] # "none"
           /\ phase[m] \in {"readying", "running", "done"}
<1>1. MemberOK(m) /\ MemberOK(n)
  BY DEF AttemptInv
<1>2. Past(n, "readying") /\ "readying" \in Stages
  BY RankIs DEF Started, Past, Stages, Exchanges
<1>3. m # n => Reached(m, "readying")
  BY <1>2 DEF Calm, InStep, Peers
<1>4. phase[n] \in {"readying", "running", "done"}
  BY DEF Started
<1>5. CASE m = n
  BY <1>1, <1>4, <1>5 DEF MemberOK
<1>6. CASE m # n
  <2>1. Rank(phase[m]) >= 4
    BY <1>3, <1>6, RankIs DEF Reached
  <2> QED
    <3>1. phase[m] \in {"readying", "running", "done"}
      BY <2>1, RankIs DEF GroupTypes, Phases, Exchanges
    <3> QED
      BY <1>1, <1>4, <3>1 DEF MemberOK
<1> QED
  BY <1>5, <1>6

LEMMA UpdateCalm ==
    ASSUME GroupTypes, NetTypes, AttemptInv, Calm, NEW m \in Members, NEW n \in Peers(m),
           NEW r \in {1, 2}, Update(m, n, r)
    PROVE  Calm'
<1> DEFINE kind == IF r = 1 THEN "round1" ELSE "round2"
<1>1. PICK msg \in Offers(kind, n, m) :
                 /\ got' = [got EXCEPT ![m] = @ \cup {<<n, r>>}]
                 /\ spoiled' = [spoiled EXCEPT ![m] = @ \/ msg.content # digest[m]]
                 /\ net' = net \ {msg}
                 /\ UNCHANGED <<group, phase, heard, info, party, digest, paramsVars,
                                address, faults>>
  BY DEF Update
<1>2. party[m] # "none" /\ n \in Members /\ n # m
  BY DEF Update, Peers
<1>3. /\ kind \in {"round1", "round2"} /\ (r = 1 <=> kind = "round1")
      /\ kind \notin Exchanges
  BY DEF Exchanges
<1> HIDE DEF kind
<1>4. /\ Started(n) /\ msg.content = digest[n]
      /\ msg.kind = kind /\ msg.from = n /\ msg.to = m
  BY <1>2, <1>3, RoundOffer
<1>5. msg.content = digest[m]
  BY <1>2, <1>4, StartedConnected, SameDigest
<1>6. spoiled' = spoiled
  BY <1>1, <1>5 DEF Calm, AgreementOK, GroupTypes
<1>7. /\ Members' = Members /\ Stages' = Stages /\ \A x \in Members : Peers(x)' = Peers(x)
      /\ \A x, k : (Past(x, k)' <=> Past(x, k)) /\ (Reached(x, k)' <=> Reached(x, k))
  BY <1>1 DEF Members, Stages, job, Peers, Past, Reached
<1>8. InStepInv'
  <2>1. ASSUME NEW x \in Members, NEW y \in Peers(x) PROVE InStep(x, y)'
    BY <1>1, <1>7 DEF Calm, InStep, Reached
  <2>2. ASSUME NEW x \in Members, NEW y \in Peers(x) PROVE Supplied(x, y)'
    <3> SUFFICES ASSUME phase[x] \in Exchanges, y \notin heard[x], Past(y, phase[x])
                 PROVE  \E k \in net' : k.kind = phase[x] /\ k.from = y /\ k.to = x
      BY <1>1 DEF Supplied, OnItsWay, Past
    <3>1. PICK k \in net : k.kind = phase[x] /\ k.from = y /\ k.to = x
      BY DEF Calm, Supplied, OnItsWay
    <3> QED
      BY <1>1, <1>3, <1>4, <3>1
  <2> QED
    BY <1>7, <2>1, <2>2 DEF InStepInv
<1>9. RoundsInv'
  <2>1. ASSUME NEW x \in Members, NEW y \in Peers(x) PROVE RoundsSupplied(x, y)'
    <3>1. RoundsSupplied(x, y) /\ (Started(y)' <=> Started(y))
      BY <1>1 DEF Calm, Started
    <3>2. /\ got[x] \subseteq got'[x]
          /\ x = m /\ y = n => <<y, r>> \in got'[x]
      BY <1>1 DEF GroupTypes
    <3>3. \A k \in {"round1", "round2"} :
             OnItsWay(k, y, x) => OnItsWay(k, y, x)' \/ (x = m /\ y = n /\ k = kind)
      BY <1>1, <1>4 DEF OnItsWay
    <3>4. Started(y) /\ <<y, 1>> \notin got'[x] => OnItsWay("round1", y, x)'
      BY <1>3, <3>1, <3>2, <3>3 DEF RoundsSupplied
    <3>5. phase[y] = "done" /\ <<y, 2>> \notin got'[x] => OnItsWay("round2", y, x)'
      BY <1>3, <3>1, <3>2, <3>3 DEF RoundsSupplied
    <3> QED
      BY <1>1, <3>1, <3>4, <3>5 DEF RoundsSupplied
  <2> QED
    BY <1>7, <2>1 DEF RoundsInv
<1>10. CopiesInv'
  BY <1>1, <1>7, CalmParts, CopiesKept
<1>11. AgreementInv'
  BY <1>1, <1>6, <1>7, CalmParts, AgreementKept
<1> QED
  BY <1>8, <1>9, <1>10, <1>11, CalmParts, PTL

\* What is lost without a fault was of no use to its receiver.
LEMMA LoseCalm ==
    ASSUME GroupTypes, NetTypes, AttemptInv, Calm, NEW msg \in net, Lose(msg), NoFault
    PROVE  Calm'
<1>1. UNCHANGED <<group, attemptVars, paramsVars, address>> /\ net' = net \ {msg}
  BY DEF Lose
<1>2. ~UseOf(msg)
  BY DEF Lose, Fault, NoFault, GroupTypes
<1>3. /\ Members' = Members /\ Stages' = Stages /\ \A x \in Members : Peers(x)' = Peers(x)
      /\ \A x, k : (Past(x, k)' <=> Past(x, k)) /\ (Reached(x, k)' <=> Reached(x, k))
  BY <1>1 DEF Members, Stages, job, Peers, Past, Reached, attemptVars
<1>4. InStepInv'
  <2>1. ASSUME NEW x \in Members, NEW y \in Peers(x) PROVE InStep(x, y)'
    BY <1>1, <1>3 DEF Calm, InStep, Reached, attemptVars
  <2>2. ASSUME NEW x \in Members, NEW y \in Peers(x) PROVE Supplied(x, y)'
    <3> SUFFICES ASSUME phase[x] \in Exchanges, y \notin heard[x], Past(y, phase[x])
                 PROVE  \E k \in net' : k.kind = phase[x] /\ k.from = y /\ k.to = x
      BY <1>1 DEF Supplied, OnItsWay, Past, attemptVars
    <3>1. PICK k \in net : k.kind = phase[x] /\ k.from = y /\ k.to = x
      BY DEF Calm, Supplied, OnItsWay
    <3>2. k # msg
      BY <1>2, <3>1 DEF UseOf, IsNews
    <3> QED
      BY <1>1, <3>1, <3>2
  <2> QED
    BY <1>3, <2>1, <2>2 DEF InStepInv
<1>5. RoundsInv'
  <2>1. ASSUME NEW x \in Members, NEW y \in Peers(x) PROVE RoundsSupplied(x, y)'
    <3>1. /\ RoundsSupplied(x, y) /\ MemberOK(x) /\ y \in Members
          /\ "round1" \notin Exchanges /\ "round2" \notin Exchanges
      BY DEF Calm, AttemptInv, Peers, Exchanges
    <3>2. ASSUME Started(y), <<y, 1>> \notin got[x]
          PROVE  \E k \in net' : k.kind = "round1" /\ k.from = y /\ k.to = x
      <4>1. PICK k \in net : k.kind = "round1" /\ k.from = y /\ k.to = x
        BY <3>1, <3>2 DEF RoundsSupplied, OnItsWay
      <4>2. party[x] # "none" /\ phase[x] # "done"
        BY <3>1, <3>2, StartedConnected DEF MemberOK, HasRound1
      <4>3. k # msg
        BY <1>2, <3>1, <3>2, <4>1, <4>2 DEF UseOf
      <4> QED
        BY <1>1, <4>1, <4>3
    <3>3. ASSUME phase[y] = "done", <<y, 2>> \notin got[x]
          PROVE  \E k \in net' : k.kind = "round2" /\ k.from = y /\ k.to = x
      <4>1. PICK k \in net : k.kind = "round2" /\ k.from = y /\ k.to = x
        BY <3>1, <3>3 DEF RoundsSupplied, OnItsWay
      <4>2. party[x] # "none" /\ phase[x] # "done"
        BY <3>1, <3>3, StartedConnected DEF MemberOK, HasRound2, Started
      <4>3. k # msg
        BY <1>2, <3>1, <3>3, <4>1, <4>2 DEF UseOf
      <4> QED
        BY <1>1, <4>1, <4>3
    <3> QED
      BY <1>1, <3>2, <3>3 DEF RoundsSupplied, OnItsWay, attemptVars, Started
  <2> QED
    BY <1>3, <2>1 DEF RoundsInv
<1>6. CopiesInv'
  BY <1>1, <1>3, CalmParts, CopiesKept DEF attemptVars
<1>7. AgreementInv'
  BY <1>1, <1>3, CalmParts, AgreementKept DEF attemptVars
<1> QED
  BY <1>4, <1>5, <1>6, <1>7, CalmParts, PTL

LEMMA PoolCalm ==
    ASSUME Calm, NEW m \in Members, pumpPool(m) \/ Refill(m)
    PROVE  Calm'
<1>1. UNCHANGED <<group, phase, heard, info, digest, got, spoiled, address, net>>
  BY DEF pumpPool, Refill, attemptVars
<1>2. Calm' <=> Calm
  BY <1>1, AgreedKept
     DEF Calm, AgreementOK, InStep, Supplied, RoundsSupplied, CopyOK, Members, Peers,
         Started, OnItsWay, Stages, job, Past, Reached, OwnInfo
<1> QED
  BY <1>2

\* Whatever a member that was not heard from offers is news.
LEMMA NewsAre ==
    ASSUME NEW m \in Members, NEW n \in Peers(m), phase[m] \in Exchanges, n \notin heard[m]
    PROVE  News(m, n) = Offers(phase[m], n, m)
<1>1. ASSUME NEW msg \in Offers(phase[m], n, m) PROVE msg.from = n /\ msg.to = m
  BY DEF Offers, Message, Exchanges
<1> QED
  BY <1>1 DEF News, IsNews

\* As long as nothing has failed somebody can go on: no attempt times out.
LEMMA NoCalmTimeout ==
    ASSUME GroupTypes, AttemptInv, Calm, Quiet, NEW m \in Members, Timeout(m)
    PROVE  FALSE
<1>1. /\ net = {}
      /\ \A p \in Members :
            /\ phase[p] \notin {"idle", "connecting"}
            /\ ~(phase[p] \in Exchanges /\ heard[p] = Members)
            /\ \A n \in Peers(p) :
                  phase[p] \in Exchanges /\ n \notin heard[p] => Offers(phase[p], n, p) = {}
  BY NewsAre DEF Quiet
<1>2. ASSUME NEW p \in Members, phase[p] \in Exchanges,
             \A n \in Members : Rank(phase[n]) >= Rank(phase[p])
      PROVE  FALSE
  <2>1. PICK n \in Members : n \notin heard[p]
    BY <1>1, <1>2 DEF GroupTypes
  <2>2. n \in Peers(p)
    BY <1>2, <2>1 DEF AttemptInv, MemberOK, Peers
  <2>3. phase[n] # phase[p]
    <3>1. Offers(phase[p], n, p) = {}
      BY <1>1, <1>2, <2>1, <2>2
    <3> QED
      BY <1>2, <3>1 DEF Offers
  <2>4. Past(n, phase[p])
    BY <1>2, <2>3, RankIs DEF Past, GroupTypes, Phases, Exchanges
  <2>5. OnItsWay(phase[p], n, p)
    BY <1>2, <2>1, <2>2, <2>4 DEF Calm, Supplied
  <2> QED
    BY <1>1, <2>5 DEF OnItsWay
<1>3. \A p \in Members : phase[p] \notin Exchanges
  <2>1. \A p \in Members : phase[p] # "announcing"
    BY <1>1, <1>2, RankIs DEF GroupTypes, Phases, Exchanges
  <2>2. \A p \in Members : phase[p] # "exchanging"
    BY <1>1, <1>2, <2>1, RankIs DEF GroupTypes, Phases, Exchanges
  <2>3. \A p \in Members : phase[p] # "readying"
    BY <1>1, <1>2, <2>1, <2>2, RankIs DEF GroupTypes, Phases, Exchanges
  <2> QED
    BY <2>1, <2>2, <2>3 DEF Exchanges
<1>4. \A p \in Members : phase[p] \in {"running", "done"} /\ Started(p)
  BY <1>1, <1>3 DEF GroupTypes, Phases, Started
<1>5. \A p \in Members : HasRound1(p)
  BY <1>1, <1>4 DEF HasRound1, Calm, RoundsSupplied, OnItsWay, Peers
<1>6. phase[m] = "running" /\ ~Finished(m) /\ ~spoiled[m] /\ party[m] # "none"
  BY <1>3, <1>4, StartedConnected DEF Timeout, Calm, AgreementOK
<1>7. HasRound2(m)
  <2> SUFFICES ASSUME NEW n \in Peers(m), <<n, 2>> \notin got[m] PROVE FALSE
    BY DEF HasRound2
  <2>1. Offers("round2", n, m) = {} /\ n \in Members
    BY <1>6 DEF Quiet, Peers
  <2>2. phase[n] # "running"
    BY <1>5, <2>1 DEF Offers
  <2>3. phase[n] = "done"
    BY <1>4, <2>1, <2>2
  <2> QED
    BY <1>1, <2>3 DEF Calm, RoundsSupplied, OnItsWay
<1> QED
  BY <1>5, <1>6, <1>7 DEF Finished

----------------------------------------------------------------------------
(* The inductive invariant. *)

LEMMA ProtocolInitInv == ProtocolInit => ProtocolInv
BY ProtocolInitTypes, ProtocolInitAttempt, ProtocolInitCalm DEF ProtocolInv

LEMMA FaultsCount ==
    ASSUME GroupTypes, Fault \/ NoFault, faults' = 0
    PROVE  faults = 0 /\ NoFault
BY GroupFacts DEF GroupTypes, Fault, NoFault

LEMMA FailInv ==
    ASSUME ProtocolInv, NEW m \in Members, Timeout(m) \/ Fails(m)
    PROVE  ProtocolInv'
<1>1. Fail(m) /\ (Fault \/ NoFault) /\ (Fails(m) => Fault) /\ (Timeout(m) => Quiet \/ Fault)
  BY DEF Timeout, Fails
<1>2. GroupTypes' /\ NetTypes'
  BY <1>1, FailTypes DEF ProtocolInv
<1>3. AttemptInv'
  BY <1>1, FailAttempt DEF ProtocolInv
<1>4. faults' # 0
  <2> SUFFICES ASSUME faults' = 0 PROVE FALSE
    OBVIOUS
  <2>1. faults = 0 /\ NoFault
    BY <1>1, FaultsCount DEF ProtocolInv
  <2>2. ~Fault
    BY <2>1 DEF Fault, NoFault
  <2> QED
    BY <1>1, <2>1, <2>2, NoCalmTimeout DEF ProtocolInv
<1> QED
  BY <1>2, <1>3, <1>4 DEF ProtocolInv

LEMMA ProgressInv ==
    ASSUME ProtocolInv, NEW m \in Members, Progress(m)
    PROVE  ProtocolInv'
<1> USE DEF ProtocolInv
<1>1. CASE Refill(m)
  <2>1. faults' = faults
    BY <1>1 DEF Refill
  <2> QED
    BY <1>1, <2>1, PoolTypes, PoolAttempt, PoolCalm
<1>2. CASE Attempt(m)
  <2>1. Fault \/ NoFault
    BY <1>2 DEF Attempt
  <2>2. faults' = 0 => faults = 0 /\ NoFault
    BY <2>1, FaultsCount
  <2> QED
    BY <1>2, <2>2, AttemptTypes, AttemptAttempt, AttemptCalm
<1>3. CASE AnnounceProtocol(m)
  <2>1. faults' = faults
    BY <1>3 DEF AnnounceProtocol
  <2> QED
    BY <1>3, <2>1, AnnounceTypes, AnnounceAttempt, AnnounceCalm
<1>4. CASE ExchangeRecoveryInfo(m)
  <2>1. faults' = faults
    BY <1>4 DEF ExchangeRecoveryInfo
  <2> QED
    BY <1>4, <2>1, ExchangeTypes, ExchangeAttempt, ExchangeCalm
<1>5. CASE connect(m)
  <2>1. faults' = faults /\ MemberOK(m)
    BY <1>5 DEF connect, AttemptInv
  <2> QED
    BY <1>5, <2>1, ConnectTypes, ConnectAttempt, ConnectCalm
<1>6. CASE Run(m)
  <2>1. faults' = faults
    BY <1>6 DEF Run
  <2> QED
    BY <1>6, <2>1, RunTypes, RunAttempt, RunCalm
<1>7. CASE Finish(m)
  <2>1. faults' = faults
    BY <1>7 DEF Finish
  <2> QED
    BY <1>7, <2>1, FinishTypes, FinishAttempt, FinishCalm
<1>8. ASSUME NEW n \in Peers(m), Hear(m, n) PROVE ProtocolInv'
  <2>1. faults' = faults
    BY <1>8 DEF Hear
  <2> QED
    BY <1>8, <2>1, HearTypes, HearAttempt, HearCalm
<1>9. ASSUME NEW n \in Peers(m), NEW r \in {1, 2}, Update(m, n, r) PROVE ProtocolInv'
  <2>1. faults' = faults
    BY <1>9 DEF Update
  <2> QED
    BY <1>9, <2>1, UpdateTypes, UpdateAttempt, UpdateCalm
<1> HIDE DEF ProtocolInv
<1> QED
  BY <1>1, <1>2, <1>3, <1>4, <1>5, <1>6, <1>7, <1>8, <1>9 DEF Progress

LEMMA ProtocolStepInv == ProtocolInv /\ [ProtocolNext]_protocolVars => ProtocolInv'
<1> SUFFICES ASSUME ProtocolInv, [ProtocolNext]_protocolVars PROVE ProtocolInv'
  OBVIOUS
<1>1. ASSUME NEW m \in Members, pumpPool(m) PROVE ProtocolInv'
  <2>1. faults' = faults
    BY <1>1 DEF pumpPool
  <2> QED
    BY <1>1, <2>1, PoolTypes, PoolAttempt, PoolCalm DEF ProtocolInv
<1>2. ASSUME NEW msg \in net, Lose(msg) PROVE ProtocolInv'
  <2>1. Fault \/ NoFault
    BY <1>2 DEF Lose
  <2>2. faults' = 0 => faults = 0 /\ NoFault
    BY <2>1, FaultsCount DEF ProtocolInv
  <2> QED
    BY <1>2, <2>2, LoseTypes, LoseAttempt, LoseCalm DEF ProtocolInv
<1> QED
  BY <1>1, <1>2, ProgressInv, FailInv, StutterInv DEF ProtocolNext

\* A party takes the content of the box along, the box is emptied when it starts, and
\* the next attempt finds another one.
LEMMA BoxStep == ProtocolInv /\ BoxInv /\ [ProtocolNext]_protocolVars => BoxInv'
<1> SUFFICES ASSUME ProtocolInv, BoxInv, [ProtocolNext]_protocolVars PROVE BoxInv'
  OBVIOUS
<1> USE DEF BoxInv
<1>1. ASSUME UNCHANGED <<group, box, shown, party>> PROVE BoxInv'
  BY <1>1 DEF BoxOK, Members, job
<1>2. ASSUME NEW m \in Members, Refill(m) PROVE BoxInv'
  BY <1>2 DEF Refill, BoxOK, Members, job, attemptVars, ProtocolInv, GroupTypes
<1>3. ASSUME NEW m \in Members, connect(m) PROVE BoxInv'
  <2>1. /\ UNCHANGED <<group, box, shown>> /\ phase[m] = "connecting"
        /\ party' = [party EXCEPT ![m] = IF job = "keygen" THEN box[m] ELSE "key"]
    BY <1>3 DEF connect, initializeKeyGenerationParty, initializeSigningParty, paramsVars
  <2>2. job = "keygen" => box[m] = "params"
    BY <2>1 DEF ProtocolInv, AttemptInv, MemberOK
  <2> QED
    BY <2>1, <2>2 DEF BoxOK, Members, job, ProtocolInv, GroupTypes
<1>4. ASSUME NEW m \in Members, Run(m) PROVE BoxInv'
  <2>1. /\ UNCHANGED <<group, party>> /\ phase[m] = "readying"
        /\ box' = [box EXCEPT ![m] = IF job = "keygen" THEN "empty" ELSE @]
        /\ shown' = [shown EXCEPT ![m] = IF party[m] = "params" THEN @ + 1 ELSE @]
    BY <1>4 DEF Run, readyProtocol, StartParty, DestroyContent
  <2>2. /\ job = "keygen" => box[m] = "params"
        /\ party[m] # "none"
    BY <2>1 DEF ProtocolInv, AttemptInv, MemberOK
  <2> QED
    BY <2>1, <2>2 DEF BoxOK, Members, job, ProtocolInv, GroupTypes
<1>5. ASSUME NEW m \in Members, Timeout(m) \/ Fails(m) PROVE BoxInv'
  <2>1. UNCHANGED <<group, box, shown>> /\ party' = [party EXCEPT ![m] = "none"]
    BY <1>5 DEF Timeout, Fails, Fail, paramsVars
  <2> QED
    BY <2>1 DEF BoxOK, Members, job, ProtocolInv, GroupTypes
<1>6. ASSUME NEW m \in Members, NEW n \in Peers(m),
             Hear(m, n) \/ \E r \in {1, 2} : Update(m, n, r)
      PROVE  UNCHANGED <<group, box, shown, party>>
  BY <1>6 DEF Hear, Update, paramsVars
<1>7. ASSUME NEW m \in Members,
             \/ pumpPool(m) \/ Attempt(m) \/ AnnounceProtocol(m)
             \/ ExchangeRecoveryInfo(m) \/ Finish(m)
      PROVE  UNCHANGED <<group, box, shown, party>>
  BY <1>7 DEF pumpPool, Attempt, AnnounceProtocol, ExchangeRecoveryInfo, Finish, paramsVars,
              attemptVars
<1>8. ASSUME NEW msg \in net, Lose(msg) PROVE UNCHANGED <<group, box, shown, party>>
  BY <1>8 DEF Lose, paramsVars, attemptVars
<1>9. CASE UNCHANGED protocolVars
  BY <1>1, <1>9 DEF protocolVars, paramsVars, attemptVars
<1> HIDE DEF BoxInv
<1> QED
  BY <1>1, <1>2, <1>3, <1>4, <1>5, <1>6, <1>7, <1>8, <1>9 DEF ProtocolNext, Progress

----------------------------------------------------------------------------
(* Theorems. *)

\* The state of the members and the messages between them keep their types.
THEOREM ProtocolTypeCorrect == ProtocolSpec => []ProtocolTypeOK
<1>1. ProtocolInv => ProtocolTypeOK
  <2> SUFFICES ASSUME ProtocolInv PROVE ProtocolTypeOK
    OBVIOUS
  <2>1. \A msg \in net : msg.from # msg.to
    BY DEF ProtocolInv, NetTypes
  <2> QED
    BY <2>1 DEF ProtocolInv, GroupTypes, ProtocolTypeOK
<1> QED
  BY <1>1, ProtocolInitInv, ProtocolStepInv, PTL DEF ProtocolSpec

\* Whatever is lost, fails or times out, a member starts at most one party with what
\* it took from its pool, and throws nothing of it away before.
THEOREM ShownOnce == ProtocolSpec => []PreParamsShownOnce
<1>1. ProtocolInv /\ BoxInv => PreParamsShownOnce
  BY DEF ProtocolInv, GroupTypes, BoxInv, BoxOK, PreParamsShownOnce
<1>2. ProtocolInit => BoxInv
  BY DEF ProtocolInit, BoxInv, BoxOK
<1> QED
  BY <1>1, <1>2, BoxStep, ProtocolInitInv, ProtocolStepInv, PTL DEF ProtocolSpec

\* As long as nothing failed, no member of a group of any size starts its party
\* before the parties of all members are connected.
THEOREM NobodyStartsEarly == ProtocolSpec => []NoEarlyStart
<1>1. ProtocolInv => NoEarlyStart
  BY StartedConnected DEF ProtocolInv, NoEarlyStart, Started
<1> QED
  BY <1>1, ProtocolInitInv, ProtocolStepInv, PTL DEF ProtocolSpec

\* Members that recover a keep build the same transaction when nothing disturbed
\* them, and the ones that signed always signed the same.
THEOREM RecoveriesAgree == ProtocolSpec => []RecoveryAgreement
<1>1. ProtocolInv => RecoveryAgreement
  <2> SUFFICES ASSUME ProtocolInv, NEW m \in Members, NEW n \in Members, job = "recovery",
                      digest[m] # NoDigest, digest[n] # NoDigest,
                      faults = 0 \/ {phase[m], phase[n]} = {"done"}
               PROVE  digest[m] = digest[n]
    BY DEF RecoveryAgreement
  <2>1. CASE faults = 0
    <3>1. AgreementOK(m) /\ AgreementOK(n)
      BY <2>1 DEF ProtocolInv, Calm
    <3> QED
      BY <3>1 DEF AgreementOK
  <2>2. CASE phase[m] = "done" /\ phase[n] = "done" /\ m # n
    <3>1. MemberOK(m) /\ MemberOK(n) /\ RoundFits(m, n) /\ n \in Peers(m) /\ m \in Peers(n)
      BY <2>2 DEF ProtocolInv, AttemptInv, Peers
    <3>2. ~spoiled[m] /\ <<n, 1>> \in got[m] /\ <<m, 1>> \in got[n]
      BY <2>2, <3>1 DEF MemberOK, HasRound1
    <3> QED
      BY <3>1, <3>2 DEF RoundFits
  <2> QED
    BY <2>1, <2>2
<1> QED
  BY <1>1, ProtocolInitInv, ProtocolStepInv, PTL DEF ProtocolSpec

\* Without a fault no attempt is given up: somebody can always go on until all are
\* done, so no timeout passes while the members wait for each other.
THEOREM UndisturbedAttemptsGoOn ==
    ProtocolSpec =>
        [][\A m \in Members : faults' = 0 /\ phase[m] # "idle" => phase'[m] # "idle"]_protocolVars
<1> DEFINE Goes == \A m \in Members : faults' = 0 /\ phase[m] # "idle" => phase'[m] # "idle"
<1>1. ASSUME ProtocolInv, NEW m \in Members, NEW p \in Phases \ {"idle"}, Enter(m, p)
      PROVE  Goes
  BY <1>1 DEF Enter, ProtocolInv, GroupTypes
<1>2. ASSUME ProtocolInv, NEW m \in Members, Progress(m) PROVE Goes
  <2>1. CASE \/ Refill(m)
             \/ \E n \in Peers(m) : Hear(m, n) \/ \E r \in {1, 2} : Update(m, n, r)
    <3>1. phase' = phase
      BY <2>1 DEF Refill, Hear, Update, attemptVars
    <3> QED
      BY <3>1
  <2>2. CASE \/ Attempt(m) \/ AnnounceProtocol(m) \/ ExchangeRecoveryInfo(m)
             \/ connect(m) \/ Run(m) \/ Finish(m)
    <3>1. \E p \in Phases \ {"idle"} : Enter(m, p)
      BY <2>2, AfterIs DEF Attempt, AnnounceProtocol, ExchangeRecoveryInfo, Leave, connect, Run,
                           readyProtocol, Finish, First, Phases, Exchanges
    <3> QED
      BY <1>1, <1>2, <3>1
  <2> QED
    BY <1>2, <2>1, <2>2 DEF Progress
<1>3. ASSUME ProtocolInv, NEW m \in Members, Timeout(m) \/ Fails(m) PROVE Goes
  <2>1. (Fault \/ NoFault) /\ (Fails(m) => Fault) /\ (Timeout(m) => Quiet \/ Fault)
    BY <1>3 DEF Timeout, Fails
  <2>2. faults' # 0
    <3> SUFFICES ASSUME faults' = 0 PROVE FALSE
      OBVIOUS
    <3>1. faults = 0 /\ NoFault
      BY <1>3, <2>1, FaultsCount DEF ProtocolInv
    <3>2. ~Fault
      BY <3>1 DEF Fault, NoFault
    <3> QED
      BY <1>3, <2>1, <3>1, <3>2, NoCalmTimeout DEF ProtocolInv
  <2> QED
    BY <2>2
<1>4. ASSUME NEW m \in Members, pumpPool(m) PROVE Goes
  BY <1>4 DEF pumpPool, attemptVars
<1>5. ASSUME NEW msg \in net, Lose(msg) PROVE Goes
  BY <1>5 DEF Lose, attemptVars
<1>6. ProtocolInv /\ [ProtocolNext]_protocolVars => [Goes]_protocolVars
  BY <1>2, <1>3, <1>4, <1>5 DEF ProtocolNext
<1> QED
  BY <1>6, ProtocolInitInv, ProtocolStepInv, PTL DEF ProtocolSpec
=============================================================================
