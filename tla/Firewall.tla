------------------------------ MODULE Firewall ------------------------------
(***************************************************************************)
(* The firewall of the client: a peer may connect when it has the minimum  *)
(* stake or is a member of an active keep. Answers of the chain are cached *)
(* because they are asked for at every connection.                         *)
(*                                                                         *)
(* A validation is a goroutine. It takes no time to speak of: time passes  *)
(* between validations only. A time cache maps what it holds to its age;   *)
(* it is a library, which forgets what is older than its period when it is *)
(* swept and keeps the age of what is added again.                         *)
(***************************************************************************)
EXTENDS Naturals, Sequences, FiniteSets

CONSTANTS
    Peers, NoPeer,
    Validations,            \* goroutines
    FirewallCases,          \* [groups: the members of the keeps at the indexes 1..n,
                            \* peers that connect, goroutines that validate them]
    authorizationCachePeriod,
    activeKeepMemberCachePeriod

\* Not there: older than anything that is.
Never == 2 * activeKeepMemberCachePeriod + authorizationCachePeriod + 2

ASSUME FirewallAssumption ==
    /\ {authorizationCachePeriod, activeKeepMemberCachePeriod} \subseteq Nat
    /\ NoPeer \notin Peers
    /\ \A c \in FirewallCases : c.groups \in Seq(SUBSET Peers) /\ c.peers \subseteq Peers
                               /\ c.goroutines \subseteq Validations

VARIABLES
    peering,        \* the case; its keeps are opened in order
    authorized,     \* peer -> how long it has had the authorization, or Never
    opened,         \* keep -> how long ago it was opened, or Never
    ended,          \* keep -> how long ago it ended, or Never
    authorizedOperatorsCache, nonAuthorizedOperatorsCache,  \* peer -> age or Never
    activeKeepMembersCache, noActiveKeepMembersCache,       \* peer -> age or Never
    isActive,       \* keep -> age or Never
    isInactive,     \* keeps
    membersCache,   \* keeps whose members are cached
    validation,     \* goroutine -> [pc, peer, index]
    failure         \* age of the last failing call, or Never

chainState == <<peering, authorized, opened, ended>>
operatorCaches == <<authorizedOperatorsCache, nonAuthorizedOperatorsCache>>
memberCaches == <<activeKeepMembersCache, noActiveKeepMembersCache>>
keepInfoCache == <<isActive, isInactive, membersCache>>
firewallVars == <<chainState, operatorCaches, memberCaches, keepInfoCache, validation, failure>>

Keeps == DOMAIN peering.groups
None(S) == [s \in S |-> Never]
Holds(cache, e) == cache[e] # Never
Add(cache, S) == [e \in DOMAIN cache |-> IF e \in S /\ cache[e] = Never THEN 0 ELSE cache[e]]
Swept(cache, period) == [e \in DOMAIN cache |-> IF cache[e] > period THEN Never ELSE cache[e]]

\* An age that is above every period is not told apart from older ones.
Older(age, period) == IF age <= period THEN age + 1 ELSE age
Aged(ages, period) == [e \in DOMAIN ages |-> Older(ages[e], period)]

Idle == [pc |-> "idle", peer |-> NoPeer, index |-> 0]
Opened(k) == opened[k] # Never
Active(k) == Opened(k) /\ ended[k] = Never

CallFails == failure' = 0
CallWorks == failure' = failure

FirewallInit ==
    /\ peering \in FirewallCases
    /\ authorized = None(Peers)
    /\ opened = None(Keeps) /\ ended = None(Keeps)
    /\ authorizedOperatorsCache = None(Peers) /\ nonAuthorizedOperatorsCache = None(Peers)
    /\ activeKeepMembersCache = None(Peers) /\ noActiveKeepMembersCache = None(Peers)
    /\ isActive = None(Keeps) /\ isInactive = {} /\ membersCache = {}
    /\ validation = [v \in Validations |-> Idle]
    /\ failure = Never

----------------------------------------------------------------------------
(* A validation. *)

Peer(v) == validation[v].peer
Index(v) == validation[v].index
AtStep(v, pc) == validation[v].pc = pc
Proceed(v, pc) == validation' = [validation EXCEPT ![v].pc = pc]

\* Validate lets a peer in at once when the stake monitor says that it has the
\* minimum stake; this is a validation of any other peer.
Validate(v) ==
    /\ AtStep(v, "idle")
    /\ \E p \in peering.peers :
        validation' = [validation EXCEPT ![v] = [pc |-> "authorization", peer |-> p, index |-> 0]]
    /\ CallWorks /\ UNCHANGED <<operatorCaches, memberCaches, keepInfoCache>>

validateAuthorization(v) ==
    LET yes == Swept(authorizedOperatorsCache, authorizationCachePeriod)
        no == Swept(nonAuthorizedOperatorsCache, authorizationCachePeriod)
        known == Holds(yes, Peer(v)) \/ Holds(no, Peer(v))
        answer == authorized[Peer(v)] # Never
    IN  /\ AtStep(v, "authorization")
        /\ \/ /\ known /\ CallWorks
              /\ Proceed(v, IF Holds(yes, Peer(v)) THEN "membership" ELSE "notAuthorized")
              /\ authorizedOperatorsCache' = yes /\ nonAuthorizedOperatorsCache' = no
           \/ /\ ~known /\ CallWorks
              /\ Proceed(v, IF answer THEN "membership" ELSE "notAuthorized")
              /\ authorizedOperatorsCache' = Add(yes, IF answer THEN {Peer(v)} ELSE {})
              /\ nonAuthorizedOperatorsCache' = Add(no, IF answer THEN {} ELSE {Peer(v)})
           \/ /\ ~known /\ CallFails /\ Proceed(v, "refused")
              /\ authorizedOperatorsCache' = yes /\ nonAuthorizedOperatorsCache' = no
        /\ UNCHANGED <<memberCaches, keepInfoCache>>

\* Mutant of validateActiveKeepMembership: the cache of refusals is not swept.
validateActiveKeepMembershipStale(v) ==
    LET yes == Swept(activeKeepMembersCache, activeKeepMemberCachePeriod)
        no == noActiveKeepMembersCache
        last == Cardinality({k \in Keeps : Opened(k)})
    IN  /\ AtStep(v, "membership")
        /\ \/ Holds(yes, Peer(v)) /\ CallWorks /\ Proceed(v, "admitted")
           \/ ~Holds(yes, Peer(v)) /\ Holds(no, Peer(v)) /\ CallWorks /\ Proceed(v, "notMember")
           \/ /\ ~Holds(yes, Peer(v)) /\ ~Holds(no, Peer(v)) /\ CallWorks
              /\ validation' = [validation EXCEPT ![v].pc = "keep", ![v].index = last]
           \/ ~Holds(yes, Peer(v)) /\ ~Holds(no, Peer(v)) /\ CallFails /\ Proceed(v, "refused")
        /\ activeKeepMembersCache' = yes /\ noActiveKeepMembersCache' = no
        /\ UNCHANGED <<operatorCaches, keepInfoCache>>

\* The caches, and else the keeps from the last one the factory has opened on.
validateActiveKeepMembership(v) ==
    LET yes == Swept(activeKeepMembersCache, activeKeepMemberCachePeriod)
        no == Swept(noActiveKeepMembersCache, activeKeepMemberCachePeriod)
        last == Cardinality({k \in Keeps : Opened(k)})
    IN  /\ AtStep(v, "membership")
        /\ \/ Holds(yes, Peer(v)) /\ CallWorks /\ Proceed(v, "admitted")
           \/ ~Holds(yes, Peer(v)) /\ Holds(no, Peer(v)) /\ CallWorks /\ Proceed(v, "notMember")
           \/ /\ ~Holds(yes, Peer(v)) /\ ~Holds(no, Peer(v)) /\ CallWorks
              /\ validation' = [validation EXCEPT ![v].pc = "keep", ![v].index = last]
           \/ ~Holds(yes, Peer(v)) /\ ~Holds(no, Peer(v)) /\ CallFails /\ Proceed(v, "refused")
        /\ activeKeepMembersCache' = yes /\ noActiveKeepMembersCache' = no
        /\ UNCHANGED <<operatorCaches, keepInfoCache>>

NextKeep(v) == validation' = [validation EXCEPT ![v].pc = "keep", ![v].index = @ - 1]

\* A keep that cannot be had is skipped. The ID of a keep is cached, which saves
\* the chain a call; the handle is asked for either way.
getKeepAtIndex(v) ==
    /\ AtStep(v, "keep") /\ Index(v) > 0
    /\ (Proceed(v, "active") /\ CallWorks) \/ (NextKeep(v) /\ CallFails)
    /\ UNCHANGED <<operatorCaches, memberCaches, keepInfoCache>>

\* Mutant of isKeepActive: the cache of active keeps is not swept.
isKeepActiveStale(v) ==
    /\ AtStep(v, "active")
    /\ IF Index(v) \in isInactive \/ Holds(isActive, Index(v))
       THEN /\ IF Index(v) \in isInactive THEN NextKeep(v) ELSE Proceed(v, "members")
            /\ CallWorks /\ UNCHANGED <<isActive, isInactive>>
       ELSE \/ /\ Active(Index(v)) /\ Proceed(v, "members") /\ CallWorks
               /\ isActive' = Add(isActive, {Index(v)}) /\ UNCHANGED isInactive
            \/ /\ ~Active(Index(v)) /\ NextKeep(v) /\ CallWorks
               /\ isInactive' = isInactive \cup {Index(v)} /\ UNCHANGED isActive
            \/ NextKeep(v) /\ CallFails /\ UNCHANGED <<isActive, isInactive>>
    /\ UNCHANGED <<operatorCaches, memberCaches, membersCache>>

isKeepActive(v) ==
    LET swept == Swept(isActive, activeKeepMemberCachePeriod)
    IN  /\ AtStep(v, "active")
        /\ \/ Index(v) \in isInactive /\ NextKeep(v) /\ CallWorks /\ UNCHANGED <<isActive, isInactive>>
           \/ /\ Index(v) \notin isInactive /\ Holds(swept, Index(v))
              /\ Proceed(v, "members") /\ CallWorks /\ isActive' = swept /\ UNCHANGED isInactive
           \/ /\ Index(v) \notin isInactive /\ ~Holds(swept, Index(v))
              /\ \/ /\ Active(Index(v)) /\ Proceed(v, "members") /\ CallWorks
                    /\ isActive' = Add(swept, {Index(v)}) /\ UNCHANGED isInactive
                 \/ /\ ~Active(Index(v)) /\ NextKeep(v) /\ CallWorks
                    /\ isInactive' = isInactive \cup {Index(v)} /\ isActive' = swept
                 \/ NextKeep(v) /\ CallFails /\ isActive' = swept /\ UNCHANGED isInactive
        /\ UNCHANGED <<operatorCaches, memberCaches, membersCache>>

\* All members of the active keep are remembered. A failing call gives no
\* members and no error.
getKeepMembers(v) ==
    /\ AtStep(v, "members")
    /\ \E members \in {peering.groups[Index(v)], {}} :
        LET cache == Add(activeKeepMembersCache, members)
        IN  /\ \/ /\ members = peering.groups[Index(v)] /\ CallWorks
                  /\ membersCache' = membersCache \cup {Index(v)}
               \/ /\ members = {} /\ Index(v) \notin membersCache /\ CallFails
                  /\ UNCHANGED membersCache
            /\ activeKeepMembersCache' = cache
            /\ IF Holds(cache, Peer(v)) THEN Proceed(v, "admitted") ELSE NextKeep(v)
    /\ UNCHANGED <<operatorCaches, noActiveKeepMembersCache, isActive, isInactive>>

\* No keep was left.
NoActiveKeep(v) ==
    /\ AtStep(v, "keep") /\ Index(v) = 0
    /\ noActiveKeepMembersCache' = Add(noActiveKeepMembersCache, {Peer(v)})
    /\ Proceed(v, "notMember") /\ CallWorks
    /\ UNCHANGED <<operatorCaches, activeKeepMembersCache, keepInfoCache>>

Verdicts == {"admitted", "notAuthorized", "notMember", "refused"}

\* The connection is made or not.
EndValidation(v) ==
    /\ validation[v].pc \in Verdicts
    /\ validation' = [validation EXCEPT ![v] = Idle]
    /\ CallWorks /\ UNCHANGED <<operatorCaches, memberCaches, keepInfoCache>>

stakeOrActiveKeepPolicy(v) ==
    /\ \/ Validate(v) \/ validateAuthorization(v) \/ validateActiveKeepMembership(v)
       \/ getKeepAtIndex(v) \/ isKeepActive(v) \/ getKeepMembers(v) \/ NoActiveKeep(v)
       \/ EndValidation(v)
    /\ UNCHANGED chainState

----------------------------------------------------------------------------
(* The chain, and time. *)

\* An authorization cannot be revoked.
Authorize ==
    /\ \E p \in peering.peers \cup UNION {peering.groups[k] : k \in Keeps} :
        authorized[p] = Never /\ authorized' = [authorized EXCEPT ![p] = 0]
    /\ UNCHANGED <<peering, opened, ended>>

\* Only authorized operators are selected.
OpenKeep ==
    /\ \E k \in Keeps :
        /\ ~Opened(k) /\ \A j \in 1..(k - 1) : Opened(j)
        /\ \A p \in peering.groups[k] : authorized[p] # Never
        /\ opened' = [opened EXCEPT ![k] = 0]
    /\ UNCHANGED <<peering, authorized, ended>>

EndKeep ==
    /\ \E k \in Keeps : Active(k) /\ ended' = [ended EXCEPT ![k] = 0]
    /\ UNCHANGED <<peering, authorized, opened>>

ChainStep ==
    /\ Authorize \/ OpenKeep \/ EndKeep
    /\ UNCHANGED <<operatorCaches, memberCaches, keepInfoCache, validation, failure>>

Elapse ==
    /\ \A v \in Validations : AtStep(v, "idle")
    /\ authorized' = Aged(authorized, authorizationCachePeriod)
    /\ opened' = Aged(opened, activeKeepMemberCachePeriod)
    /\ ended' = Aged(ended, 2 * activeKeepMemberCachePeriod)
    /\ authorizedOperatorsCache' = Aged(authorizedOperatorsCache, authorizationCachePeriod)
    /\ nonAuthorizedOperatorsCache' = Aged(nonAuthorizedOperatorsCache, authorizationCachePeriod)
    /\ activeKeepMembersCache' = Aged(activeKeepMembersCache, activeKeepMemberCachePeriod)
    /\ noActiveKeepMembersCache' = Aged(noActiveKeepMembersCache, activeKeepMemberCachePeriod)
    /\ isActive' = Aged(isActive, activeKeepMemberCachePeriod)
    /\ failure' = Older(failure, activeKeepMemberCachePeriod)
    /\ UNCHANGED <<peering, isInactive, membersCache, validation>>

FirewallNext == (\E v \in peering.goroutines : stakeOrActiveKeepPolicy(v)) \/ ChainStep \/ Elapse

FirewallSpec == FirewallInit /\ [][FirewallNext]_firewallVars

----------------------------------------------------------------------------
(* Correctness. *)

\* A peer let in without the minimum stake has been a member of a keep that was
\* active within the last two periods: one for the answer that the keep is
\* active, and one for the membership concluded from it at the end of the first.
AdmissionIsRecent ==
    \A v \in Validations :
        AtStep(v, "admitted") =>
            \E k \in Keeps :
                /\ Peer(v) \in peering.groups[k] /\ Opened(k)
                /\ Active(k) \/ ended[k] <= 2 * activeKeepMemberCachePeriod

\* A peer is turned away only for a reason of the last period: it is a member of
\* no active keep but those opened since, or it was authorized since, or a call
\* failed (one failing call is enough, and is remembered for a whole period).
RefusalIsRecent ==
    \A v \in Validations :
        /\ AtStep(v, "notMember") =>
            \/ failure <= activeKeepMemberCachePeriod
            \/ \A k \in Keeps : Active(k) /\ Peer(v) \in peering.groups[k]
                                => opened[k] <= activeKeepMemberCachePeriod
        /\ AtStep(v, "notAuthorized") =>
            authorized[Peer(v)] = Never \/ authorized[Peer(v)] <= authorizationCachePeriod
=============================================================================
