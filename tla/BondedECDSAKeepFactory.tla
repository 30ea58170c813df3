----------------------- MODULE BondedECDSAKeepFactory -----------------------
(***************************************************************************)
(* The keep factory (BondedECDSAKeepFactory.sol with KeepCreator.sol and   *)
(* GroupSelectionSeed.sol) and the system it forms with the keeps and the  *)
(* bonding contract.                                                       *)
(*                                                                         *)
(* The sortition pool (external) selects some group of distinct operators  *)
(* with enough available unbonded value; the seed that makes the choice    *)
(* pseudo-random is left out, the money that pays for it is not.           *)
(***************************************************************************)
EXTENDS BondedECDSAKeep

CONSTANTS
    Factory,       \* the factory as a creator of bonds
    Pool,          \* the sortition pool of the application
    Owners,        \* accounts keeps are opened for
    GroupSizes,    \* group sizes asked for
    BondRequests,  \* total bonds asked for
    Fee            \* fee of a relay entry of the random beacon

ASSUME FactoryAssumption ==
    /\ Factory \in Creators
    /\ Pool \in Pools
    /\ Owners \subseteq Accounts
    /\ GroupSizes \subseteq Int
    /\ BondRequests \subseteq Nat
    /\ Fee \in Nat

VARIABLES
    reseedPool,     \* wei recorded for reseeding
    factoryBalance  \* wei the factory owns

vars == <<bondingVars, keepVars, reseedPool, factoryBalance>>

TypeOK ==
    /\ BondingTypeOK
    /\ KeepTypeOK
    /\ reseedPool \in Nat
    /\ factoryBalance \in Int

Init ==
    /\ BondingInit
    /\ KeepInit
    /\ reseedPool = 0
    /\ factoryBalance = 0

\* Bond per member, rounded up.
bondPerMember(bond, n) == (bond + n - 1) \div n

\* selectSetGroup (external): a group of n distinct operators.
Groups(n) == {g \in [1..n -> Operators] : \A i, j \in 1..n : g[i] = g[j] => i = j}

\* Mutant of BondedMembers: the loop stops before the last member.
BondedMembersButLast(g, n) == {g[i] : i \in 1..(n - 1)}

\* The members the loop of openKeep creates a bond for.
BondedMembers(g, n) == {g[i] : i \in 1..n}

\* openKeep, newGroupSelectionSeed, createKeep, initialize, lockMemberStakes and
\* createBond for every member.  `beaconOk`: the beacon accepted the request.
OpenKeep(a, k, n, own, bond, v, g, beaconOk) ==
    /\ Calling(a)
    /\ status[k] = "None"
    /\ n > 0 /\ n <= 16
    /\ bondPerMember(bond, n) > 0
    /\ v >= Fee /\ v <= wallet[a]
    /\ \A i \in 1..n :
         availableUnbondedValue(g[i], Factory, Pool) >= bondPerMember(bond, n)
    /\ \A i \in 1..n : lockedBonds[<<g[i], k, k>>] = 0
    /\ wallet' = [wallet EXCEPT ![a] = @ - v]
    /\ reseedPool' = IF beaconOk THEN reseedPool ELSE reseedPool + v
    /\ factoryBalance' = IF beaconOk THEN factoryBalance ELSE factoryBalance + v
    /\ status' = [status EXCEPT ![k] = "Active"]
    /\ owner' = [owner EXCEPT ![k] = own]
    /\ members' = [members EXCEPT ![k] = g]
    /\ memberBond' = [memberBond EXCEPT ![k] = bondPerMember(bond, n)]
    /\ lockedStakes' = [lockedStakes EXCEPT ![k] = {g[i] : i \in 1..n}]
    /\ unbondedValue' =
         [o \in Operators |-> IF o \in BondedMembers(g, n)
                              THEN unbondedValue[o] - bondPerMember(bond, n)
                              ELSE unbondedValue[o]]
    /\ lockedBonds' =
         [b \in BondIds |-> IF b[2] = k /\ b[3] = k /\ b[1] \in BondedMembers(g, n)
                            THEN lockedBonds[b] + bondPerMember(bond, n)
                            ELSE lockedBonds[b]]
    /\ UNCHANGED <<balance, authorizedPools, authorizedFor, stack, keyVars,
                   signingVars, rewardVars, fraudVars, seizeNext, now>>

\* The fallback function: the beacon's surplus and subsidy, or a donation.
ReceiveFunds(a, v) ==
    /\ Calling(a)
    /\ v <= wallet[a]
    /\ wallet' = [wallet EXCEPT ![a] = @ - v]
    /\ reseedPool' = reseedPool + v
    /\ factoryBalance' = factoryBalance + v
    /\ UNCHANGED <<balance, unbondedValue, lockedBonds, authorizedPools,
                   authorizedFor, stack, keepVars>>

\* Reverts when the beacon does.
RequestNewGroupSelectionSeed(a, v) ==
    /\ Calling(a)
    /\ v <= wallet[a]
    /\ reseedPool + v >= Fee
    /\ wallet' = [wallet EXCEPT ![a] = @ - v]
    /\ reseedPool' = reseedPool + v - Fee
    /\ factoryBalance' = factoryBalance + v - Fee
    /\ UNCHANGED <<balance, unbondedValue, lockedBonds, authorizedPools,
                   authorizedFor, stack, keepVars>>

factoryVars == <<reseedPool, factoryBalance>>

OpenNext ==
    \E a \in Accounts, own \in Owners, k \in Keeps, n \in GroupSizes, bond \in BondRequests,
       v \in {0} \cup Amounts, beaconOk \in BOOLEAN :
       \E g \in Groups(n) : OpenKeep(a, k, n, own, bond, v, g, beaconOk)

ReseedNext ==
    \E a \in Accounts, v \in {0} \cup Amounts :
       ReceiveFunds(a, v) \/ RequestNewGroupSelectionSeed(a, v)

\* Calls to the bonding contract by accounts; bonds are created, freed and
\* seized by the factory and the keeps only.  SetOperatorContract is left to
\* BondingSpec: on availableUnbondedValue, all that reads authorizedFor, it has
\* the effect of a deauthorized pool.
BondNext ==
    /\ \/ \E a \in Accounts, o \in Operators, v \in Amounts : Deposit(a, o, v)
       \/ \E a \in Accounts, o \in Operators, v \in Amounts : Withdraw(a, o, v)
       \/ \E o \in Operators, p \in Pools : AuthorizeSortitionPoolContract(o, p)
       \/ \E o \in Operators, p \in Pools : DeauthorizeSortitionPoolContract(o, p)
    /\ UNCHANGED <<keepVars, factoryVars>>

KeepNext ==
    /\ \/ \E o \in Operators, k \in Keeps, key \in Keys : SubmitPublicKey(o, k, key)
       \/ \E a \in Accounts, k \in Keeps, d \in Digests : Sign(a, k, d)
       \/ \E k \in Keeps, d \in Digests : GroupSigns(k, d)
       \/ \E o \in Operators, k \in Keeps : SubmitSignature(o, k)
       \/ \E k \in Keeps, d \in Digests, s \in BOOLEAN : SubmitSignatureFraud(k, d, s)
       \/ \E a \in Accounts, k \in Keeps, v \in Amounts : DistributeETHReward(a, k, v)
       \/ \E a \in Accounts, k \in Keeps, o \in Operators : WithdrawReward(a, k, o)
       \/ \E a \in Accounts, k \in Keeps, v \in Amounts : ReturnPartialSignerBonds(a, k, v)
       \/ \E a \in Accounts, k \in Keeps : CloseKeep(a, k)
       \/ \E a \in Accounts, k \in Keeps : SeizeSignerBonds(a, k)
       \/ ReturnToKeep
       \/ NextBlock
    /\ UNCHANGED factoryVars

Next == OpenNext \/ ReseedNext \/ BondNext \/ KeepNext

Spec == Init /\ [][Next]_vars

-----------------------------------------------------------------------------
(* Safety.                                                                 *)

\* Keep contracts and the factory own exactly the wei they owe: a keep owes its
\* members the rewards they have not withdrawn, the factory its reseed pool.
RewardsSolvency ==
    /\ \A k \in Keeps : keepBalance[k] = SumFunction(memberETHBalances[k])
    /\ factoryBalance = reseedPool

\* An active keep is backed: the whole bond it was opened with is locked for
\* every member, no other operator is bonded for it, and the stake of every
\* member is locked.  Nothing the members, the owner or a callback does in
\* between can take a part of it away.
ActiveKeepIsBacked ==
    \A k \in Keeps : isActive(k) =>
        /\ memberBond[k] > 0
        /\ \A o \in Operators :
             /\ bondAmount(o, k) = IF IsMember(k, o) THEN memberBond[k] ELSE 0
             /\ IsMember(k, o) <=> o \in lockedStakes[k]

\* When no transaction is in progress, nothing is left locked for a keep that
\* was closed or terminated: no bond (they were freed, or all were seized, the
\* ones after a callback of the owner too) and no stake.
EndedKeepHoldsNothing ==
    stack = << >> =>
        \A k \in Keeps : status[k] \in {"Closed", "Terminated"} =>
            /\ \A o \in Operators : bondAmount(o, k) = 0
            /\ lockedStakes[k] = {}

\* In the middle of seizeSignerBonds the next member still has a bond, so the
\* seizure (and the fraud handling of the owner with it) cannot revert on
\* "Requested amount should be greater than zero".
SeizureCanContinue ==
    \A i \in 1..Len(stack) :
        LET k == stack[i].resume
        IN  k # NoHolder /\ seizeNext[k] <= memberCount(k) =>
                bondAmount(members[k][seizeNext[k]], k) > 0

\* A published key is the key every member submitted.
PublicKeyAgreement ==
    \A k \in Keeps : publicKey[k] # NoKey =>
        \A i \in 1..memberCount(k) : submittedPublicKeys[k][members[k][i]] = publicKey[k]

\* Stakes are slashed at most once per fraudulent preimage, and only for a
\* digest the group signed before the owner ever requested it: a group that
\* signs only what was requested is never slashed, however late a fraud is
\* reported.
OnlyRogueGroupsSlashed ==
    \A k \in Keeps :
        /\ fraudulentPreimages[k] \subseteq rogue[k]
        /\ slashes[k] <= Cardinality(fraudulentPreimages[k])

\* The contracts implement the lifecycle a keep promises: closed and terminated
\* are final, the published key never changes, and there is at most one
\* signing request at a time.
Lifecycle == INSTANCE KeepLifecycle WITH
    phase <- status,
    key <- publicKey,
    request <- [k \in Keeps |-> IF isSigningInProgress(k) THEN digest[k] ELSE NoDigest]

ImplementsLifecycle == Lifecycle!LifecycleSpec
=============================================================================
