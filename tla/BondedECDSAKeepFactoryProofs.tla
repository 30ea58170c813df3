-------------------- MODULE BondedECDSAKeepFactoryProofs --------------------
(***************************************************************************)
(* Proofs about the factory, its keeps and the bonding contract, for any   *)
(* number of operators, keeps and members and any amounts.                 *)
(***************************************************************************)
EXTENDS BondedECDSAKeepFactory, FiniteSetTheorems, WellFoundedInduction, TLAPS

-----------------------------------------------------------------------------
(* The inductive invariant.  For every keep, the phase it is in determines *)
(* its bonds, its stake locks and the loop index of seizeSignerBonds.      *)

NeverOpened(k) ==
    /\ memberCount(k) = 0
    /\ \A o \in Operators : bondAmount(o, k) = 0
    /\ lockedStakes[k] = {}
    /\ seizeNext[k] = 1

Backed(k) ==
    /\ memberCount(k) > 0
    /\ memberBond[k] > 0
    /\ \A o \in Operators : bondAmount(o, k) = IF IsMember(k, o) THEN memberBond[k] ELSE 0
    /\ \A o \in Operators : IsMember(k, o) <=> o \in lockedStakes[k]
    /\ seizeNext[k] = 1

Released(k) ==
    /\ memberCount(k) > 0
    /\ \A o \in Operators : bondAmount(o, k) = 0
    /\ lockedStakes[k] = {}

\* The bonds of the members before seizeNext are gone, the others are whole.
Seized(k) ==
    /\ memberCount(k) > 0
    /\ memberBond[k] > 0
    /\ seizeNext[k] \in 1..memberCount(k) + 1
    /\ \A i \in 1..memberCount(k) :
         bondAmount(members[k][i], k) = IF i < seizeNext[k] THEN 0 ELSE memberBond[k]
    /\ \A o \in Operators : ~IsMember(k, o) => bondAmount(o, k) = 0
    /\ lockedStakes[k] = {}

Distinct(k) ==
    \A i, j \in 1..memberCount(k) : members[k][i] = members[k][j] => i = j

KeepInv(k) ==
    /\ Distinct(k)
    /\ status[k] = "None" => NeverOpened(k)
    /\ status[k] = "Active" => Backed(k)
    /\ status[k] = "Closed" => Released(k)
    /\ status[k] = "Terminated" => Seized(k)

\* Only terminated keeps wait for a callback, and a seizure that is not over has
\* a pending call that resumes it.
StackInv ==
    /\ \A i \in 1..Len(stack) :
         stack[i].resume # NoHolder => status[stack[i].resume] = "Terminated"
    /\ \A k \in Keeps :
         status[k] = "Terminated" /\ seizeNext[k] <= memberCount(k) =>
            \E i \in 1..Len(stack) : stack[i].resume = k

IInv ==
    /\ TypeOK
    /\ \A k \in Keeps : KeepInv(k)
    /\ StackInv

-----------------------------------------------------------------------------
(* Facts about the pieces.                                                 *)

\* Splitting wei between members gives natural numbers.
LEMMA ShareType ==
    ASSUME TypeOK, NEW k \in Keeps, memberCount(k) > 0, NEW v \in Nat, NEW o
    PROVE  ShareOf(k, v, o) \in Nat
  <1>1. memberCount(k) \in Nat \ {0}
    BY DEF TypeOK, KeepTypeOK, memberCount
  <1>2. /\ v \div memberCount(k) \in Nat
        /\ v % memberCount(k) \in Nat
    BY <1>1
  <1>3. QED
    BY <1>2 DEF ShareOf

\* The amounts the actions are called with.
LEMMA AmountsType == Amounts \subseteq Nat
  BY DEF Amounts

\* Adding to, and taking from, one entry of a ledger.
LEMMA AddAt ==
    ASSUME NEW S, NEW f \in [S -> Nat], NEW x, NEW v \in Nat
    PROVE  [f EXCEPT ![x] = @ + v] \in [S -> Nat]
  <1>1. CASE x \in S
    BY <1>1
  <1>2. CASE x \notin S
    BY <1>2
  <1>3. QED
    BY <1>1, <1>2

LEMMA SubAt ==
    ASSUME NEW S, NEW f \in [S -> Nat], NEW x \in S, NEW v \in Nat, v <= f[x]
    PROVE  [f EXCEPT ![x] = @ - v] \in [S -> Nat]
  <1>1. f[x] - v \in Nat
    OBVIOUS
  <1>2. QED
    BY <1>1

\* A pending call whose receiver is followed by nothing.
Pushed == \E c \in Accounts : stack' = <<[callee |-> c, resume |-> NoHolder]>> \o stack

\* A step that leaves the keep k and its bonds alone keeps KeepInv(k).
LEMMA KeepInvStable ==
    ASSUME TypeOK, NEW k \in Keeps, KeepInv(k),
           status'[k] = status[k], members'[k] = members[k],
           memberBond'[k] = memberBond[k], lockedStakes'[k] = lockedStakes[k],
           seizeNext'[k] = seizeNext[k],
           \A o \in Operators : lockedBonds'[<<o, k, k>>] = lockedBonds[<<o, k, k>>]
    PROVE  KeepInv(k)'
  <1>1. /\ members[k] \in Seq(Operators)
        /\ \A i \in 1..Len(members[k]) : members[k][i] \in Operators
    BY DEF TypeOK, KeepTypeOK
  <1>2. Distinct(k)'
    BY DEF KeepInv, Distinct, memberCount
  <1>3. status[k] = "None" => NeverOpened(k)'
    BY DEF KeepInv, NeverOpened, memberCount, bondAmount
  <1>4. status[k] = "Active" => Backed(k)'
    BY DEF KeepInv, Backed, memberCount, bondAmount, IsMember
  <1>5. status[k] = "Closed" => Released(k)'
    BY DEF KeepInv, Released, memberCount, bondAmount
  <1>6. status[k] = "Terminated" => Seized(k)'
    BY <1>1 DEF KeepInv, Seized, memberCount, bondAmount, IsMember
  <1>7. QED
    BY <1>2, <1>3, <1>4, <1>5, <1>6 DEF KeepInv

\* A call with nothing to resume, or the same stack, keeps StackInv when the
\* keeps do not change.
LEMMA StackInvStable ==
    ASSUME TypeOK, StackInv, UNCHANGED <<status, seizeNext, members>>,
           UNCHANGED stack \/ Pushed
    PROVE  StackInv'
  <1>1. CASE UNCHANGED stack
    BY <1>1 DEF StackInv, memberCount
  <1>2. CASE Pushed
    <2>1. PICK c \in Accounts : stack' = <<[callee |-> c, resume |-> NoHolder]>> \o stack
      BY <1>2 DEF Pushed
    <2>2. stack \in Seq(Frames)
      BY DEF TypeOK, BondingTypeOK
    <2>3. /\ Len(stack') = Len(stack) + 1
          /\ stack'[1].resume = NoHolder
          /\ \A i \in 1..Len(stack) : stack'[i + 1] = stack[i]
          /\ \A i \in 2..Len(stack') : stack'[i] = stack[i - 1] /\ i - 1 \in 1..Len(stack)
      BY <2>1, <2>2
    <2>4. ASSUME NEW i \in 1..Len(stack'), stack'[i].resume # NoHolder
          PROVE  status'[stack'[i].resume] = "Terminated"
      <3>1. i \in 2..Len(stack')
        BY <2>2, <2>3, <2>4
      <3>2. stack'[i] = stack[i - 1] /\ i - 1 \in 1..Len(stack)
        BY <3>1, <2>3
      <3>3. QED
        BY <3>2, <2>4 DEF StackInv
    <2>5. ASSUME NEW k \in Keeps, status'[k] = "Terminated",
                 seizeNext'[k] <= Len(members'[k])
          PROVE  \E i \in 1..Len(stack') : stack'[i].resume = k
      <3>1. PICK i \in 1..Len(stack) : stack[i].resume = k
        BY <2>5 DEF StackInv, memberCount
      <3>2. i + 1 \in 1..Len(stack') /\ stack'[i + 1].resume = k
        BY <3>1, <2>2, <2>3
      <3>3. QED
        BY <3>2
    <2>6. QED
      BY <2>4, <2>5 DEF StackInv, memberCount
  <1>3. QED
    BY <1>1, <1>2

-----------------------------------------------------------------------------
(* Type correctness.                                                       *)

\* The accounts' calls to the bonding contract keep the types.
LEMMA BondTypes ==
    ASSUME TypeOK, BondNext
    PROVE  TypeOK'
  <1>1. KeepTypeOK' /\ reseedPool' \in Nat /\ factoryBalance' \in Int
    BY DEF BondNext, TypeOK, KeepTypeOK, keepVars, keyVars, signingVars,
           rewardVars, fraudVars, lifeVars, groupVars, factoryVars
  <1> USE BondingAssumption DEF TypeOK, BondingTypeOK
  <1>2. ASSUME NEW a \in Accounts, NEW o \in Operators, NEW v \in Nat, Deposit(a, o, v)
        PROVE  BondingTypeOK'
    <2>1. wallet' \in [Accounts -> Nat]
      BY <1>2 DEF Deposit
    <2>2. unbondedValue' \in [Operators -> Nat]
      BY <1>2 DEF Deposit
    <2>3. QED
      BY <1>2, <2>1, <2>2 DEF Deposit
  <1>3. ASSUME NEW a \in Accounts, NEW o \in Operators, NEW v \in Nat, Withdraw(a, o, v)
        PROVE  BondingTypeOK'
    <2>1. wallet' \in [Accounts -> Nat]
      BY <1>3 DEF Withdraw
    <2>2. unbondedValue' \in [Operators -> Nat]
      BY <1>3 DEF Withdraw
    <2>3. stack' \in Seq(Frames)
      BY <1>3 DEF Withdraw, Enter, Frames
    <2>4. QED
      BY <1>3, <2>1, <2>2, <2>3 DEF Withdraw
  <1>4. ASSUME NEW o \in Operators, NEW p \in Pools, AuthorizeSortitionPoolContract(o, p)
        PROVE  BondingTypeOK'
    BY <1>4 DEF AuthorizeSortitionPoolContract
  <1>5. ASSUME NEW o \in Operators, NEW p \in Pools, DeauthorizeSortitionPoolContract(o, p)
        PROVE  BondingTypeOK'
    BY <1>5 DEF DeauthorizeSortitionPoolContract
  <1>6. QED
    BY <1>1, <1>2, <1>3, <1>4, <1>5, AmountsType DEF BondNext

\* The types of one turn of the seizure loop.
LEMMA SeizeTypes ==
    ASSUME TypeOK, NEW k \in Keeps, KeepInv(k), status[k] \in {"Active", "Terminated"},
           SeizeMemberBond(k)
    PROVE  /\ wallet' \in [Accounts -> Nat]
           /\ balance' \in Int
           /\ lockedBonds' \in [BondIds -> Nat]
           /\ seizeNext' \in [Keeps -> Nat]
           /\ UNCHANGED <<unbondedValue, authorizedPools, authorizedFor>>
  <1>1. seizeNext[k] \in 1..Len(members[k])
    BY DEF SeizeMemberBond, KeepInv, Backed, Seized, memberCount, TypeOK, KeepTypeOK
  <1>2. PICK o : o = members[k][seizeNext[k]]
    OBVIOUS
  <1>3. o \in Operators
    BY <1>1, <1>2 DEF TypeOK, KeepTypeOK
  <1>4. <<o, k, k>> \in BondIds
    BY <1>3, KeepAssumption DEF BondIds, Keeps
  <1>5. PICK v : v = lockedBonds[<<o, k, k>>]
    OBVIOUS
  <1>6. v \in Nat
    BY <1>4, <1>5 DEF TypeOK, BondingTypeOK
  <1>7. SeizeBondEffect(k, o, k, v, owner[k])
    BY <1>2, <1>5 DEF SeizeMemberBond, bondAmount
  <1>8. wallet' \in [Accounts -> Nat]
    <2>1. wallet' = [wallet EXCEPT ![owner[k]] = @ + v] /\ wallet \in [Accounts -> Nat]
      BY <1>7 DEF SeizeBondEffect, TypeOK, BondingTypeOK
    <2>2. QED
      BY <1>6, <2>1, AddAt
  <1>9. lockedBonds' \in [BondIds -> Nat]
    <2>1. /\ lockedBonds' = [lockedBonds EXCEPT ![<<o, k, k>>] = @ - v]
          /\ lockedBonds \in [BondIds -> Nat]
          /\ v <= lockedBonds[<<o, k, k>>]
      BY <1>6, <1>7 DEF SeizeBondEffect, TypeOK, BondingTypeOK
    <2>2. QED
      BY <1>4, <1>6, <2>1, SubAt
  <1>10. seizeNext' \in [Keeps -> Nat]
    BY DEF SeizeMemberBond, TypeOK, KeepTypeOK
  <1>11. balance' \in Int /\ UNCHANGED <<unbondedValue, authorizedPools, authorizedFor>>
    BY <1>6, <1>7 DEF SeizeBondEffect, TypeOK, BondingTypeOK
  <1>12. QED
    BY <1>8, <1>9, <1>10, <1>11

\* The operations of a keep keep the types.
LEMMA KeepTypes ==
    ASSUME IInv, KeepNext
    PROVE  TypeOK'
  <1> DEFINE Rest == /\ UNCHANGED <<reseedPool, factoryBalance>>
  <1>0. TypeOK /\ (\A k \in Keeps : KeepInv(k)) /\ Rest
    BY DEF IInv, KeepNext, factoryVars
  <1>a. ASSUME NEW k \in Keeps, status[k] # "None", NEW v \in Nat, NEW o \in Operators
        PROVE  ShareOf(k, v, o) \in Nat
    <2>1. status[k] \in {"Active", "Closed", "Terminated"}
      BY <1>0, <1>a DEF TypeOK, KeepTypeOK
    <2>2. memberCount(k) > 0
      BY <1>0, <2>1 DEF KeepInv, Backed, Released, Seized
    <2>3. QED
      BY <1>0, <2>2, ShareType
  <1> USE DEF TypeOK, BondingTypeOK, KeepTypeOK
  <1>1. ASSUME NEW o \in Operators, NEW k \in Keeps, NEW key \in Keys, SubmitPublicKey(o, k, key)
        PROVE  TypeOK'
    <2>1. submittedPublicKeys' \in [Keeps -> [Operators -> Keys \cup {NoKey}]]
      BY <1>0, <1>1 DEF SubmitPublicKey
    <2>2. publicKey' \in [Keeps -> Keys \cup {NoKey}]
      BY <1>0, <1>1 DEF SubmitPublicKey
    <2>3. QED
      BY <1>0, <1>1, <2>1, <2>2
      DEF SubmitPublicKey, signingVars, rewardVars, fraudVars, lifeVars, groupVars, bondingVars
  <1>2. ASSUME NEW a \in Accounts, NEW k \in Keeps, NEW d \in Digests, Sign(a, k, d)
        PROVE  TypeOK'
    BY <1>0, <1>2
    DEF Sign, keyVars, rewardVars, fraudVars, lifeVars, groupVars, bondingVars
  <1>3. ASSUME NEW k \in Keeps, NEW d \in Digests, GroupSigns(k, d)
        PROVE  TypeOK'
    BY <1>0, <1>3
    DEF GroupSigns, keyVars, signingVars, rewardVars, lifeVars, groupVars, bondingVars
  <1>4. ASSUME NEW o \in Operators, NEW k \in Keeps, SubmitSignature(o, k)
        PROVE  TypeOK'
    BY <1>0, <1>4
    DEF SubmitSignature, keyVars, rewardVars, fraudVars, lifeVars, groupVars, bondingVars
  <1>5. ASSUME NEW k \in Keeps, NEW d \in Digests, NEW s \in BOOLEAN, SubmitSignatureFraud(k, d, s)
        PROVE  TypeOK'
    BY <1>0, <1>5
    DEF SubmitSignatureFraud, keyVars, signingVars, rewardVars, lifeVars, groupVars, bondingVars
  <1>6. ASSUME NEW a \in Accounts, NEW k \in Keeps, NEW v \in Nat, DistributeETHReward(a, k, v)
        PROVE  TypeOK'
    <2>1. \A o \in Operators : ShareOf(k, v, o) \in Nat
      BY <1>a, <1>6 DEF DistributeETHReward
    <2>2. memberETHBalances' \in [Keeps -> [Operators -> Nat]]
      BY <1>0, <1>6, <2>1 DEF DistributeETHReward
    <2>3. /\ wallet' \in [Accounts -> Nat]
          /\ keepBalance' \in [Keeps -> Int]
      BY <1>0, <1>6 DEF DistributeETHReward
    <2>4. QED
      BY <1>0, <1>6, <2>2, <2>3
      DEF DistributeETHReward, keyVars, signingVars, fraudVars, lifeVars, groupVars
  <1>7. ASSUME NEW a \in Accounts, NEW k \in Keeps, NEW o \in Operators, WithdrawReward(a, k, o)
        PROVE  TypeOK'
    <2>1. stack' \in Seq(Frames)
      BY <1>0, <1>7, BondingAssumption DEF WithdrawReward, Enter, Frames
    <2>2. memberETHBalances' \in [Keeps -> [Operators -> Nat]]
      BY <1>0, <1>7 DEF WithdrawReward
    <2>3. memberETHBalances[k][o] \in Nat
      BY <1>0
    <2>4. wallet' \in [Accounts -> Nat]
      <3>1. wallet' = [wallet EXCEPT ![BeneficiaryOf[o]] = @ + memberETHBalances[k][o]]
        BY <1>7 DEF WithdrawReward
      <3>2. QED
        BY <1>0, <2>3, <3>1, AddAt
    <2>5. keepBalance' \in [Keeps -> Int]
      BY <1>0, <1>7, <2>3 DEF WithdrawReward
    <2>6. QED
      BY <1>0, <1>7, <2>1, <2>2, <2>4, <2>5
      DEF WithdrawReward, keyVars, signingVars, fraudVars, lifeVars, groupVars
  <1>8. ASSUME NEW a \in Accounts, NEW k \in Keeps, NEW v \in Nat, ReturnPartialSignerBonds(a, k, v)
        PROVE  TypeOK'
    <2>1. \A o \in Operators : ShareOf(k, v, o) \in Nat
      BY <1>a, <1>8 DEF ReturnPartialSignerBonds
    <2>a. wallet' \in [Accounts -> Nat]
      <3>1. /\ wallet' = [wallet EXCEPT ![a] = @ - v] /\ v <= wallet[a]
            /\ wallet \in [Accounts -> Nat]
        BY <1>0, <1>8 DEF ReturnPartialSignerBonds
      <3>2. QED
        BY <3>1, SubAt
    <2>b. unbondedValue' \in [Operators -> Nat]
      <3>1. unbondedValue' =
              [o \in Operators |-> IF IsMember(k, o) THEN unbondedValue[o] + ShareOf(k, v, o)
                                   ELSE unbondedValue[o]]
        BY <1>8 DEF ReturnPartialSignerBonds
      <3>2. \A o \in Operators : unbondedValue[o] \in Nat
        BY <1>0
      <3>3. QED
        BY <2>1, <3>1, <3>2
    <2>2. wallet' \in [Accounts -> Nat] /\ unbondedValue' \in [Operators -> Nat]
      BY <2>a, <2>b
    <2>3. BondingTypeOK'
      BY <1>0, <1>8, <2>2 DEF ReturnPartialSignerBonds
    <2>4. UNCHANGED keepVars
      BY <1>8 DEF ReturnPartialSignerBonds
    <2>5. KeepTypeOK'
      BY <1>0, <2>4 DEF keepVars, keyVars, signingVars, rewardVars, fraudVars, lifeVars,
         groupVars
    <2>6. QED
      BY <1>0, <2>3, <2>5
  <1>9. ASSUME NEW a \in Accounts, NEW k \in Keeps, CloseKeep(a, k)
        PROVE  TypeOK'
    <2>1. \A o \in Operators : bondAmount(o, k) \in Nat
      BY <1>0, KeepAssumption DEF bondAmount, BondIds, Keeps
    <2>2. /\ unbondedValue' \in [Operators -> Nat]
          /\ lockedBonds' \in [BondIds -> Nat]
      BY <1>0, <1>9, <2>1 DEF CloseKeep
    <2>3. /\ status' \in [Keeps -> {"None", "Active", "Closed", "Terminated"}]
          /\ lockedStakes' \in [Keeps -> SUBSET Operators]
      BY <1>0, <1>9 DEF CloseKeep
    <2>4. QED
      BY <1>0, <1>9, <2>2, <2>3
      DEF CloseKeep, keyVars, signingVars, rewardVars, fraudVars, groupVars
  <1>10. ASSUME NEW a \in Accounts, NEW k \in Keeps, SeizeSignerBonds(a, k)
         PROVE  TypeOK'
    <2>1. /\ wallet' \in [Accounts -> Nat]
          /\ balance' \in Int
          /\ lockedBonds' \in [BondIds -> Nat]
          /\ seizeNext' \in [Keeps -> Nat]
          /\ UNCHANGED <<unbondedValue, authorizedPools, authorizedFor>>
      BY <1>0, <1>10, SeizeTypes DEF SeizeSignerBonds, isActive
    <2>2. stack' \in Seq(Frames)
      BY <1>0, <1>10 DEF SeizeSignerBonds, Enter, Frames, Keeps
    <2>3. /\ status' \in [Keeps -> {"None", "Active", "Closed", "Terminated"}]
          /\ lockedStakes' \in [Keeps -> SUBSET Operators]
      BY <1>0, <1>10 DEF SeizeSignerBonds
    <2>4. QED
      BY <1>0, <1>10, <2>1, <2>2, <2>3
      DEF SeizeSignerBonds, keyVars, signingVars, rewardVars, fraudVars, groupVars
  <1>11. ASSUME ReturnToKeep
         PROVE  TypeOK'
    <2> DEFINE k == Head(stack).resume
    <2>1. stack # << >> /\ stack \in Seq(Frames) /\ Head(stack) \in Frames
      BY <1>0, <1>11 DEF ReturnToKeep
    <2>2. CASE k # NoHolder /\ seizeNext[k] <= memberCount(k)
      <3>1. k \in Keeps /\ status[k] = "Terminated"
        <4>1. k \in Keeps
          BY <2>1, <2>2 DEF Frames, Keeps
        <4>2. 1 \in 1..Len(stack) /\ Head(stack) = stack[1]
          BY <2>1
        <4>3. QED
          BY <2>2, <4>1, <4>2 DEF IInv, StackInv
      <3>2. SeizeMemberBond(k) /\ UNCHANGED <<stack, status, lockedStakes>>
        BY <1>11, <2>2 DEF ReturnToKeep
      <3>3. /\ wallet' \in [Accounts -> Nat]
            /\ balance' \in Int
            /\ lockedBonds' \in [BondIds -> Nat]
            /\ seizeNext' \in [Keeps -> Nat]
            /\ UNCHANGED <<unbondedValue, authorizedPools, authorizedFor>>
        BY <1>0, <3>1, <3>2, SeizeTypes
      <3>4. QED
        BY <1>0, <1>11, <3>2, <3>3
        DEF ReturnToKeep, keyVars, signingVars, rewardVars, fraudVars, groupVars
    <2>3. CASE ~(k # NoHolder /\ seizeNext[k] <= memberCount(k))
      <3>1. Return /\ UNCHANGED lifeVars
        BY <1>11, <2>3 DEF ReturnToKeep
      <3>2. stack' \in Seq(Frames)
        BY <2>1, <3>1 DEF Return
      <3>3. QED
        BY <1>0, <1>11, <3>1, <3>2
        DEF ReturnToKeep, Return, keyVars, signingVars, rewardVars, fraudVars, lifeVars, groupVars
    <2>4. QED
      BY <2>2, <2>3
  <1>12. ASSUME NextBlock
         PROVE  TypeOK'
    BY <1>0, <1>12 DEF NextBlock, keyVars, signingVars, rewardVars, fraudVars, lifeVars,
       groupVars, bondingVars
  <1>13. QED
    BY <1>1, <1>2, <1>3, <1>4, <1>5, <1>6, <1>7, <1>8, <1>9, <1>10, <1>11, <1>12,
       AmountsType DEF KeepNext

\* The bond per member of a group.
LEMMA BondPerMemberType ==
    ASSUME NEW n \in Nat \ {0}, NEW bond \in Nat
    PROVE  bondPerMember(bond, n) \in Nat
  <1>1. bond + n - 1 \in Nat
    OBVIOUS
  <1>2. QED
    BY <1>1 DEF bondPerMember

\* Opening a keep keeps the types.
LEMMA OpenTypes ==
    ASSUME TypeOK, NEW a \in Accounts, NEW own \in Owners, NEW k \in Keeps,
           NEW n \in GroupSizes, NEW bond \in BondRequests, NEW v \in Nat,
           NEW beaconOk \in BOOLEAN, NEW g \in Groups(n),
           OpenKeep(a, k, n, own, bond, v, g, beaconOk)
    PROVE  TypeOK'
  <1> USE DEF TypeOK, BondingTypeOK, KeepTypeOK
  <1>1. n \in Nat \ {0} /\ bond \in Nat /\ own \in Accounts
    BY FactoryAssumption DEF OpenKeep
  <1>2. PICK m : m = bondPerMember(bond, n)
    OBVIOUS
  <1>3. m \in Nat
    BY <1>1, <1>2, BondPerMemberType
  <1>4. g \in [1..n -> Operators] /\ g \in Seq(Operators)
    BY <1>1 DEF Groups
  <1>5. unbondedValue' \in [Operators -> Nat]
    <2>1. ASSUME NEW o \in Operators, \E i \in 1..n : g[i] = o
          PROVE  unbondedValue[o] - m \in Nat
      <3>1. m > 0 /\ availableUnbondedValue(o, Factory, Pool) >= m
        BY <1>2, <2>1 DEF OpenKeep, BondedMembers
      <3>2. unbondedValue[o] >= m
        BY <1>3, <3>1 DEF availableUnbondedValue
      <3>3. QED
        BY <1>3, <3>2
    <2>2. unbondedValue' = [o \in Operators |-> IF \E i \in 1..n : g[i] = o
                                               THEN unbondedValue[o] - m
                                               ELSE unbondedValue[o]]
      BY <1>2 DEF OpenKeep, BondedMembers
    <2>3. QED
      BY <2>1, <2>2
  <1>6. lockedBonds' \in [BondIds -> Nat]
    <2>1. lockedBonds \in [BondIds -> Nat]
      OBVIOUS
    <2>2. lockedBonds' =
            [b \in BondIds |-> IF b[2] = k /\ b[3] = k /\ b[1] \in BondedMembers(g, n)
                               THEN lockedBonds[b] + m ELSE lockedBonds[b]]
      BY <1>2 DEF OpenKeep
    <2>3. \A b \in BondIds : lockedBonds[b] \in Nat /\ lockedBonds[b] + m \in Nat
      BY <1>3, <2>1
    <2>4. QED
      BY <2>2, <2>3
  <1>7. /\ wallet' \in [Accounts -> Nat]
        /\ reseedPool' \in Nat
        /\ factoryBalance' \in Int
    <2>1. /\ v <= wallet[a]
          /\ wallet' = [wallet EXCEPT ![a] = @ - v]
          /\ reseedPool' = IF beaconOk THEN reseedPool ELSE reseedPool + v
          /\ factoryBalance' = IF beaconOk THEN factoryBalance ELSE factoryBalance + v
      BY DEF OpenKeep
    <2>2. QED
      BY <2>1
  <1>8. /\ status' \in [Keeps -> {"None", "Active", "Closed", "Terminated"}]
        /\ owner' \in [Keeps -> Accounts \cup {NoAccount}]
        /\ memberBond' \in [Keeps -> Nat]
    BY <1>1, <1>2, <1>3 DEF OpenKeep
  <1>9. members' \in [Keeps -> Seq(Operators)]
    BY <1>4 DEF OpenKeep
  <1>10. lockedStakes' \in [Keeps -> SUBSET Operators]
    BY <1>4 DEF OpenKeep
  <1>11. QED
    BY <1>5, <1>6, <1>7, <1>8, <1>9, <1>10
    DEF OpenKeep, keyVars, signingVars, rewardVars, fraudVars

\* Reseeding keeps the types.
LEMMA ReseedTypes ==
    ASSUME TypeOK, NEW a \in Accounts, NEW v \in Nat,
           ReceiveFunds(a, v) \/ RequestNewGroupSelectionSeed(a, v)
    PROVE  TypeOK'
  <1> USE DEF TypeOK, BondingTypeOK, KeepTypeOK
  <1>1. wallet' = [wallet EXCEPT ![a] = @ - v] /\ v <= wallet[a]
    BY DEF ReceiveFunds, RequestNewGroupSelectionSeed
  <1>2. wallet' \in [Accounts -> Nat]
    BY <1>1, SubAt
  <1>3. reseedPool' \in Nat
    BY FactoryAssumption DEF ReceiveFunds, RequestNewGroupSelectionSeed
  <1>4. factoryBalance' \in Int
    BY FactoryAssumption DEF ReceiveFunds, RequestNewGroupSelectionSeed
  <1>5. QED
    BY <1>2, <1>3, <1>4 DEF ReceiveFunds, RequestNewGroupSelectionSeed, keepVars, keyVars, signingVars,
       rewardVars, fraudVars, lifeVars, groupVars

-----------------------------------------------------------------------------
(* The backing of the keeps.                                               *)

\* The steps that touch neither a bond nor a keep's group and phase.
Neutral ==
    /\ UNCHANGED <<lockedBonds, status, members, memberBond, lockedStakes, seizeNext>>
    /\ UNCHANGED stack \/ Pushed

LEMMA NeutralStep ==
    ASSUME IInv, Neutral
    PROVE  (\A k \in Keeps : KeepInv(k)') /\ StackInv'
  <1>1. ASSUME NEW k \in Keeps
        PROVE  KeepInv(k)'
    BY KeepInvStable DEF IInv, Neutral
  <1>2. StackInv'
    BY StackInvStable DEF IInv, Neutral
  <1>3. QED
    BY <1>1, <1>2

LEMMA BondNeutral == ASSUME BondNext PROVE Neutral
  <1>1. UNCHANGED <<status, members, memberBond, lockedStakes, seizeNext>>
    BY DEF BondNext, keepVars, lifeVars, groupVars
  <1>2. ASSUME NEW a \in Accounts, NEW o \in Operators, NEW v \in Amounts, Withdraw(a, o, v)
        PROVE  UNCHANGED lockedBonds /\ Pushed
    <2>1. BeneficiaryOf[o] \in Accounts
      BY <1>2, BondingAssumption DEF Withdraw
    <2>2. stack' = <<[callee |-> BeneficiaryOf[o], resume |-> NoHolder]>> \o stack
      BY <1>2 DEF Withdraw, Enter
    <2>3. QED
      BY <1>2, <2>1, <2>2 DEF Withdraw, Pushed
  <1>3. UNCHANGED lockedBonds /\ (UNCHANGED stack \/ Pushed)
    BY <1>2 DEF BondNext, Deposit, AuthorizeSortitionPoolContract,
       DeauthorizeSortitionPoolContract
  <1>4. QED
    BY <1>1, <1>3 DEF Neutral

LEMMA ReseedNeutral == ASSUME ReseedNext PROVE Neutral
  BY DEF ReseedNext, ReceiveFunds, RequestNewGroupSelectionSeed, Neutral, keepVars,
     lifeVars, groupVars

\* The operations of a keep other than the ones that end it.
LEMMA KeepNeutral ==
    ASSUME KeepNext,
           ~ \E a \in Accounts, k \in Keeps : CloseKeep(a, k),
           ~ \E a \in Accounts, k \in Keeps : SeizeSignerBonds(a, k),
           ~ ReturnToKeep
    PROVE  Neutral
  <1> USE DEF Neutral, lifeVars, groupVars, bondingVars, keepVars
  <1>1. ASSUME NEW o \in Operators, NEW k \in Keeps, NEW key \in Keys, SubmitPublicKey(o, k, key)
        PROVE  Neutral
    BY <1>1 DEF SubmitPublicKey
  <1>2. ASSUME NEW a \in Accounts, NEW k \in Keeps, NEW d \in Digests, Sign(a, k, d)
        PROVE  Neutral
    BY <1>2 DEF Sign
  <1>3. ASSUME NEW k \in Keeps, NEW d \in Digests, GroupSigns(k, d)
        PROVE  Neutral
    BY <1>3 DEF GroupSigns
  <1>4. ASSUME NEW o \in Operators, NEW k \in Keeps, SubmitSignature(o, k)
        PROVE  Neutral
    BY <1>4 DEF SubmitSignature
  <1>5. ASSUME NEW k \in Keeps, NEW d \in Digests, NEW s \in BOOLEAN, SubmitSignatureFraud(k, d, s)
        PROVE  Neutral
    BY <1>5 DEF SubmitSignatureFraud
  <1>6. ASSUME NEW a \in Accounts, NEW k \in Keeps, NEW v \in Amounts, DistributeETHReward(a, k, v)
        PROVE  Neutral
    BY <1>6 DEF DistributeETHReward
  <1>7. ASSUME NEW a \in Accounts, NEW k \in Keeps, NEW o \in Operators, WithdrawReward(a, k, o)
        PROVE  Neutral
    BY <1>7, BondingAssumption DEF WithdrawReward, Enter, Pushed
  <1>8. ASSUME NEW a \in Accounts, NEW k \in Keeps, NEW v \in Amounts, ReturnPartialSignerBonds(a, k, v)
        PROVE  Neutral
    BY <1>8 DEF ReturnPartialSignerBonds
  <1>9. ASSUME NextBlock
        PROVE  Neutral
    BY <1>9 DEF NextBlock
  <1>10. QED
    BY <1>1, <1>2, <1>3, <1>4, <1>5, <1>6, <1>7, <1>8, <1>9 DEF KeepNext

\* Opening a keep backs it and leaves the other keeps alone.
LEMMA OpenStep ==
    ASSUME IInv, NEW a \in Accounts, NEW own \in Owners, NEW k \in Keeps,
           NEW n \in GroupSizes, NEW bond \in BondRequests, NEW v,
           NEW beaconOk \in BOOLEAN, NEW g \in Groups(n),
           OpenKeep(a, k, n, own, bond, v, g, beaconOk)
    PROVE  (\A j \in Keeps : KeepInv(j)') /\ StackInv'
  <1> USE DEF TypeOK, BondingTypeOK, KeepTypeOK
  <1>0. TypeOK /\ StackInv /\ \A j \in Keeps : KeepInv(j)
    BY DEF IInv
  <1>1. n \in Nat \ {0} /\ bond \in Nat
    BY FactoryAssumption DEF OpenKeep
  <1>2. PICK m : m = bondPerMember(bond, n)
    OBVIOUS
  <1>3. m \in Nat /\ m > 0
    BY <1>1, <1>2, BondPerMemberType DEF OpenKeep, BondedMembers
  <1>4. /\ g \in [1..n -> Operators]
        /\ \A i, j \in 1..n : g[i] = g[j] => i = j
        /\ Len(g) = n
    BY <1>1 DEF Groups
  <1>5. /\ status[k] = "None"
        /\ status' = [status EXCEPT ![k] = "Active"]
        /\ members' = [members EXCEPT ![k] = g]
        /\ memberBond' = [memberBond EXCEPT ![k] = m]
        /\ lockedStakes' = [lockedStakes EXCEPT ![k] = {g[i] : i \in 1..n}]
        /\ UNCHANGED <<seizeNext, stack>>
    BY <1>2 DEF OpenKeep, BondedMembers
  <1>6. ASSUME NEW j \in Keeps, NEW o \in Operators
        PROVE  lockedBonds'[<<o, j, j>>] = IF j = k /\ \E i \in 1..n : g[i] = o
                                           THEN lockedBonds[<<o, j, j>>] + m
                                           ELSE lockedBonds[<<o, j, j>>]
    <2>1. <<o, j, j>> \in BondIds
      BY KeepAssumption DEF BondIds, Keeps
    <2>2. QED
      BY <1>2, <2>1 DEF OpenKeep, BondedMembers
  <1>7. KeepInv(k)'
    <2>1. NeverOpened(k)
      BY <1>0, <1>5 DEF KeepInv
    <2>2. members'[k] = g /\ memberBond'[k] = m /\ status'[k] = "Active"
      BY <1>0, <1>5
    <2>3. \A o \in Operators : IsMember(k, o)' <=> \E i \in 1..n : g[i] = o
      BY <2>2, <1>4 DEF IsMember, memberCount
    <2>4. \A o \in Operators :
             lockedBonds'[<<o, k, k>>] = IF \E i \in 1..n : g[i] = o THEN m ELSE 0
      BY <1>3, <1>6, <2>1 DEF NeverOpened, bondAmount
    <2>5. \A o \in Operators : o \in lockedStakes'[k] <=> \E i \in 1..n : g[i] = o
      BY <1>0, <1>5
    <2>6. Backed(k)'
      BY <1>1, <1>3, <1>4, <1>5, <2>1, <2>2, <2>3, <2>4, <2>5
      DEF Backed, NeverOpened, memberCount, bondAmount
    <2>7. Distinct(k)'
      BY <1>4, <2>2 DEF Distinct, memberCount
    <2>8. QED
      BY <2>2, <2>6, <2>7 DEF KeepInv
  <1>8. ASSUME NEW j \in Keeps, j # k
        PROVE  KeepInv(j)'
    <2>1. /\ status'[j] = status[j] /\ members'[j] = members[j]
          /\ memberBond'[j] = memberBond[j] /\ lockedStakes'[j] = lockedStakes[j]
          /\ seizeNext'[j] = seizeNext[j]
      BY <1>0, <1>5, <1>8
    <2>2. \A o \in Operators : lockedBonds'[<<o, j, j>>] = lockedBonds[<<o, j, j>>]
      BY <1>6, <1>8
    <2>3. KeepInv(j)
      BY <1>0
    <2> HIDE DEF TypeOK
    <2>4. QED
      BY <1>0, <2>1, <2>2, <2>3, KeepInvStable
  <1>9. StackInv'
    <2>1. ASSUME NEW j \in Keeps, status[j] = "Terminated"
          PROVE  status'[j] = "Terminated" /\ j # k
      BY <1>0, <1>5, <2>1
    <2>2. ASSUME NEW i \in 1..Len(stack), stack[i].resume # NoHolder
          PROVE  status'[stack[i].resume] = "Terminated"
      <3>1. stack[i].resume \in Keeps
        <4>1. stack[i] \in Frames
          BY <1>0
        <4>2. QED
          BY <2>2, <4>1 DEF Frames, Keeps
      <3>2. status[stack[i].resume] = "Terminated"
        BY <1>0, <2>2 DEF StackInv
      <3>3. QED
        BY <2>1, <3>1, <3>2
    <2>3. ASSUME NEW j \in Keeps, status'[j] = "Terminated", seizeNext[j] <= Len(members'[j])
          PROVE  \E i \in 1..Len(stack) : stack[i].resume = j
      <3>1. j # k /\ status[j] = "Terminated" /\ members'[j] = members[j]
        BY <1>0, <1>5, <2>3
      <3>2. QED
        BY <1>0, <2>3, <3>1 DEF StackInv, memberCount
    <2>4. QED
      BY <1>5, <2>2, <2>3 DEF StackInv, memberCount
  <1>10. QED
    BY <1>7, <1>8, <1>9

\* Every pending call resumes a keep or nothing.
LEMMA ResumeType ==
    ASSUME TypeOK, NEW i \in 1..Len(stack), stack[i].resume # NoHolder
    PROVE  stack[i].resume \in Keeps
  <1>1. stack[i] \in Frames
    BY DEF TypeOK, BondingTypeOK
  <1>2. QED
    BY <1>1 DEF Frames, Keeps

\* Closing a keep releases its bonds and leaves the other keeps alone.
LEMMA CloseStep ==
    ASSUME IInv, NEW a \in Accounts, NEW k \in Keeps, CloseKeep(a, k)
    PROVE  (\A j \in Keeps : KeepInv(j)') /\ StackInv'
  <1>0. TypeOK /\ StackInv /\ \A j \in Keeps : KeepInv(j)
    BY DEF IInv
  <1>1. /\ status[k] = "Active"
        /\ status' = [status EXCEPT ![k] = "Closed"]
        /\ lockedStakes' = [lockedStakes EXCEPT ![k] = {o \in @ : ~IsMember(k, o)}]
        /\ UNCHANGED <<seizeNext, stack, members, memberBond>>
    BY DEF CloseKeep, isActive, groupVars
  <1>2. ASSUME NEW j \in Keeps, NEW o \in Operators
        PROVE  lockedBonds'[<<o, j, j>>] = IF j = k /\ IsMember(k, o)
                                           THEN 0 ELSE lockedBonds[<<o, j, j>>]
    <2>1. <<o, j, j>> \in BondIds
      BY KeepAssumption DEF BondIds, Keeps
    <2>2. QED
      BY <2>1 DEF CloseKeep
  <1>3. KeepInv(k)'
    <2>1. Backed(k) /\ Distinct(k)
      BY <1>0, <1>1 DEF KeepInv
    <2>2. \A o \in Operators : bondAmount(o, k)' = 0
      BY <1>2, <2>1 DEF Backed, bondAmount
    <2>3. lockedStakes'[k] = {}
      <3>1. lockedStakes[k] \subseteq Operators
        BY <1>0 DEF TypeOK, KeepTypeOK
      <3>2. lockedStakes'[k] = {o \in lockedStakes[k] : ~IsMember(k, o)}
        BY <1>0, <1>1 DEF TypeOK, KeepTypeOK
      <3>3. QED
        BY <2>1, <3>1, <3>2 DEF Backed
    <2>4. status'[k] = "Closed"
      BY <1>0, <1>1 DEF TypeOK, KeepTypeOK
    <2>5. Released(k)'
      BY <1>1, <2>1, <2>2, <2>3 DEF Released, Backed, memberCount
    <2>6. QED
      BY <1>1, <2>1, <2>4, <2>5 DEF KeepInv, Distinct, memberCount
  <1>4. ASSUME NEW j \in Keeps, j # k
        PROVE  KeepInv(j)'
    <2>1. status'[j] = status[j] /\ lockedStakes'[j] = lockedStakes[j]
      BY <1>0, <1>1, <1>4 DEF TypeOK, KeepTypeOK
    <2>2. \A o \in Operators : lockedBonds'[<<o, j, j>>] = lockedBonds[<<o, j, j>>]
      BY <1>2, <1>4
    <2>3. QED
      BY <1>0, <1>1, <2>1, <2>2, KeepInvStable
  <1>5. StackInv'
    <2>1. ASSUME NEW j \in Keeps
          PROVE  status'[j] = "Terminated" <=> status[j] = "Terminated"
      BY <1>0, <1>1 DEF TypeOK, KeepTypeOK
    <2>2. ASSUME NEW i \in 1..Len(stack), stack[i].resume # NoHolder
          PROVE  status'[stack[i].resume] = "Terminated"
      BY <1>0, <2>1, <2>2, ResumeType DEF StackInv
    <2>3. QED
      BY <1>0, <1>1, <2>1, <2>2 DEF StackInv, memberCount
  <1>6. QED
    BY <1>3, <1>4, <1>5

\* What one turn of the seizure loop does to the bonds.
LEMMA SeizeBonds ==
    ASSUME TypeOK, NEW k \in Keeps, KeepInv(k), status[k] \in {"Active", "Terminated"},
           SeizeMemberBond(k)
    PROVE  /\ seizeNext[k] \in 1..Len(members[k])
           /\ seizeNext' = [seizeNext EXCEPT ![k] = seizeNext[k] + 1]
           /\ \A j \in Keeps, o \in Operators :
                lockedBonds'[<<o, j, j>>] =
                  IF j = k /\ o = members[k][seizeNext[k]] THEN 0 ELSE lockedBonds[<<o, j, j>>]
  <1>1. seizeNext[k] \in 1..Len(members[k])
    BY DEF SeizeMemberBond, KeepInv, Backed, Seized, memberCount, TypeOK, KeepTypeOK
  <1>2. PICK m : m = members[k][seizeNext[k]]
    OBVIOUS
  <1>3. m \in Operators /\ <<m, k, k>> \in BondIds
    BY <1>1, <1>2, KeepAssumption DEF TypeOK, KeepTypeOK, BondIds, Keeps
  <1>4. lockedBonds' = [lockedBonds EXCEPT ![<<m, k, k>>] = @ - lockedBonds[<<m, k, k>>]]
    BY <1>2 DEF SeizeMemberBond, SeizeBondEffect, bondAmount
  <1>5. lockedBonds \in [BondIds -> Nat]
    BY DEF TypeOK, BondingTypeOK
  <1>6. lockedBonds[<<m, k, k>>] - lockedBonds[<<m, k, k>>] = 0
    BY <1>3, <1>5
  <1>7. ASSUME NEW j \in Keeps, NEW o \in Operators
        PROVE  lockedBonds'[<<o, j, j>>] = IF j = k /\ o = m THEN 0 ELSE lockedBonds[<<o, j, j>>]
    <2>1. <<o, j, j>> \in BondIds
      BY KeepAssumption DEF BondIds, Keeps
    <2>2. CASE j = k /\ o = m
      BY <1>3, <1>4, <1>5, <1>6, <2>2
    <2>3. CASE ~(j = k /\ o = m)
      <3>1. <<o, j, j>> # <<m, k, k>>
        BY <2>3
      <3>2. QED
        BY <1>4, <1>5, <2>1, <2>3, <3>1
    <2>4. QED
      BY <2>2, <2>3
  <1>8. seizeNext' = [seizeNext EXCEPT ![k] = seizeNext[k] + 1]
    BY DEF SeizeMemberBond
  <1>9. QED
    BY <1>1, <1>2, <1>7, <1>8

\* One turn of the seizure loop of k, whether the first or a later one, leaves k
\* terminated with one more bond gone, and the other keeps alone.
LEMMA SeizeTurn ==
    ASSUME IInv, NEW k \in Keeps, status[k] \in {"Active", "Terminated"},
           SeizeMemberBond(k), UNCHANGED <<members, memberBond>>,
           status' = [status EXCEPT ![k] = "Terminated"],
           lockedStakes'[k] = {},
           \A j \in Keeps \ {k} : lockedStakes'[j] = lockedStakes[j]
    PROVE  \A j \in Keeps : KeepInv(j)'
  <1>0. TypeOK /\ \A j \in Keeps : KeepInv(j)
    BY DEF IInv
  <1>1. /\ seizeNext[k] \in 1..Len(members[k])
        /\ seizeNext' = [seizeNext EXCEPT ![k] = seizeNext[k] + 1]
        /\ \A j \in Keeps, o \in Operators :
             lockedBonds'[<<o, j, j>>] =
               IF j = k /\ o = members[k][seizeNext[k]] THEN 0 ELSE lockedBonds[<<o, j, j>>]
    BY <1>0, SeizeBonds
  <1>2. /\ members[k] \in Seq(Operators)
        /\ seizeNext \in [Keeps -> Nat]
        /\ status \in [Keeps -> {"None", "Active", "Closed", "Terminated"}]
        /\ memberBond[k] \in Nat
    BY <1>0 DEF TypeOK, KeepTypeOK
  <1>3. KeepInv(k)'
    <2>1. /\ Distinct(k)
          /\ memberBond[k] > 0
          /\ \A i \in 1..Len(members[k]) :
               lockedBonds[<<members[k][i], k, k>>] = IF i < seizeNext[k] THEN 0 ELSE memberBond[k]
          /\ \A o \in Operators : ~IsMember(k, o) => lockedBonds[<<o, k, k>>] = 0
      <3>1. CASE status[k] = "Active"
        BY <1>0, <1>2, <3>1 DEF KeepInv, Backed, IsMember, memberCount, bondAmount
      <3>2. CASE status[k] = "Terminated"
        BY <1>0, <3>2 DEF KeepInv, Seized, memberCount, bondAmount
      <3>3. QED
        BY <3>1, <3>2
    <2>2. ASSUME NEW i \in 1..Len(members[k])
          PROVE  lockedBonds'[<<members[k][i], k, k>>] =
                    IF i < seizeNext[k] + 1 THEN 0 ELSE memberBond[k]
      <3>1. members[k][i] \in Operators
        BY <1>2
      <3>2. CASE i = seizeNext[k]
        BY <1>1, <3>1, <3>2
      <3>3. CASE i # seizeNext[k]
        <4>1. members[k][i] # members[k][seizeNext[k]]
          BY <1>1, <2>1, <3>3 DEF Distinct, memberCount
        <4>2. lockedBonds'[<<members[k][i], k, k>>] = lockedBonds[<<members[k][i], k, k>>]
          BY <1>1, <3>1, <4>1
        <4>3. i < seizeNext[k] + 1 <=> i < seizeNext[k]
          BY <1>2, <3>3
        <4>4. QED
          BY <2>1, <4>2, <4>3
      <3>4. QED
        BY <3>2, <3>3
    <2>3. ASSUME NEW o \in Operators, ~IsMember(k, o)
          PROVE  lockedBonds'[<<o, k, k>>] = 0
      BY <1>1, <2>1, <2>3
    <2>4. seizeNext'[k] = seizeNext[k] + 1 /\ status'[k] = "Terminated"
      BY <1>1, <1>2
    <2>5. Seized(k)'
      BY <1>1, <1>2, <2>1, <2>2, <2>3, <2>4 DEF Seized, memberCount, bondAmount, IsMember
    <2>6. QED
      BY <2>1, <2>4, <2>5 DEF KeepInv, Distinct, memberCount
  <1>4. ASSUME NEW j \in Keeps, j # k
        PROVE  KeepInv(j)'
    <2>1. /\ status'[j] = status[j] /\ seizeNext'[j] = seizeNext[j]
          /\ lockedStakes'[j] = lockedStakes[j]
          /\ members'[j] = members[j] /\ memberBond'[j] = memberBond[j]
      BY <1>1, <1>2, <1>4
    <2>2. \A o \in Operators : lockedBonds'[<<o, j, j>>] = lockedBonds[<<o, j, j>>]
      BY <1>1, <1>4
    <2>3. KeepInv(j)
      BY <1>0
    <2>4. QED
      BY <1>0, <2>1, <2>2, <2>3, KeepInvStable
  <1>5. QED
    BY <1>3, <1>4

\* seizeSignerBonds up to the first call of the owner.
LEMMA SeizeStep ==
    ASSUME IInv, NEW a \in Accounts, NEW k \in Keeps, SeizeSignerBonds(a, k)
    PROVE  (\A j \in Keeps : KeepInv(j)') /\ StackInv'
  <1>0. TypeOK /\ StackInv /\ KeepInv(k)
    BY DEF IInv
  <1>1. /\ status[k] = "Active"
        /\ status' = [status EXCEPT ![k] = "Terminated"]
        /\ lockedStakes' = [lockedStakes EXCEPT ![k] = {o \in @ : ~IsMember(k, o)}]
        /\ SeizeMemberBond(k)
        /\ stack' = <<[callee |-> owner[k], resume |-> k]>> \o stack
        /\ UNCHANGED <<members, memberBond>>
    BY DEF SeizeSignerBonds, isActive, groupVars, Enter
  <1>2. lockedStakes'[k] = {} /\ \A j \in Keeps \ {k} : lockedStakes'[j] = lockedStakes[j]
    <2>1. lockedStakes[k] \subseteq Operators
      BY <1>0 DEF TypeOK, KeepTypeOK
    <2>2. \A o \in lockedStakes[k] : IsMember(k, o)
      BY <1>0, <1>1, <2>1 DEF KeepInv, Backed
    <2>3. lockedStakes'[k] = {o \in lockedStakes[k] : ~IsMember(k, o)}
      BY <1>0, <1>1 DEF TypeOK, KeepTypeOK
    <2>4. \A j \in Keeps \ {k} : lockedStakes'[j] = lockedStakes[j]
      BY <1>0, <1>1 DEF TypeOK, KeepTypeOK
    <2>5. QED
      BY <2>2, <2>3, <2>4
  <1>3. \A j \in Keeps : KeepInv(j)'
    BY <1>1, <1>2, SeizeTurn
  <1>4. StackInv'
    <2>0. /\ stack \in Seq(Frames)
          /\ status \in [Keeps -> {"None", "Active", "Closed", "Terminated"}]
          /\ seizeNext \in [Keeps -> Nat]
      BY <1>0 DEF TypeOK, BondingTypeOK, KeepTypeOK
    <2>1. /\ Len(stack') = Len(stack) + 1
          /\ stack'[1].resume = k
          /\ \A i \in 1..Len(stack) : stack'[i + 1] = stack[i]
          /\ \A i \in 2..Len(stack') : stack'[i] = stack[i - 1] /\ i - 1 \in 1..Len(stack)
      BY <1>1, <2>0
    <2>2. ASSUME NEW i \in 1..Len(stack'), stack'[i].resume # NoHolder
          PROVE  status'[stack'[i].resume] = "Terminated"
      <3>1. CASE i = 1
        BY <1>1, <2>0, <2>1, <3>1
      <3>2. CASE i # 1
        <4>1. i \in 2..Len(stack')
          BY <2>0, <2>1, <3>2
        <4>2. stack'[i] = stack[i - 1] /\ i - 1 \in 1..Len(stack)
          BY <2>1, <4>1
        <4>3. stack[i - 1].resume \in Keeps
          BY <1>0, <2>2, <4>2, ResumeType
        <4>4. status[stack[i - 1].resume] = "Terminated"
          BY <1>0, <2>2, <4>2 DEF StackInv
        <4>5. QED
          BY <1>1, <2>0, <4>2, <4>3, <4>4
      <3>3. QED
        BY <3>1, <3>2
    <2>3. ASSUME NEW j \in Keeps, status'[j] = "Terminated", seizeNext'[j] <= Len(members'[j])
          PROVE  \E i \in 1..Len(stack') : stack'[i].resume = j
      <3>1. CASE j = k
        <4>1. 1 \in 1..Len(stack') /\ stack'[1].resume = j
          BY <2>0, <2>1, <3>1
        <4>2. QED
          BY <4>1
      <3>2. CASE j # k
        <4>1. /\ status[j] = "Terminated" /\ seizeNext'[j] = seizeNext[j]
              /\ members'[j] = members[j]
          BY <1>1, <2>0, <2>3, <3>2 DEF SeizeMemberBond
        <4>2. PICK i \in 1..Len(stack) : stack[i].resume = j
          BY <1>0, <2>3, <4>1 DEF StackInv, memberCount
        <4>3. i + 1 \in 1..Len(stack') /\ stack'[i + 1].resume = j
          BY <2>0, <2>1, <4>2
        <4>4. QED
          BY <4>3
      <3>3. QED
        BY <3>1, <3>2
    <2>4. QED
      BY <2>2, <2>3 DEF StackInv, memberCount
  <1>5. QED
    BY <1>3, <1>4

\* The end of a callback: the next turn of a seizure, or the pending call ends.
LEMMA ReturnStep ==
    ASSUME IInv, ReturnToKeep
    PROVE  (\A j \in Keeps : KeepInv(j)') /\ StackInv'
  <1> DEFINE k == Head(stack).resume
  <1>0. TypeOK /\ StackInv /\ \A j \in Keeps : KeepInv(j)
    BY DEF IInv
  <1>1. /\ stack \in Seq(Frames) /\ stack # << >>
        /\ 1 \in 1..Len(stack) /\ Head(stack) = stack[1]
    BY <1>0 DEF ReturnToKeep, TypeOK, BondingTypeOK
  <1>2. UNCHANGED <<members, memberBond>>
    BY DEF ReturnToKeep, groupVars
  <1>3. /\ status \in [Keeps -> {"None", "Active", "Closed", "Terminated"}]
        /\ seizeNext \in [Keeps -> Nat]
    BY <1>0 DEF TypeOK, KeepTypeOK
  <1>4. CASE k # NoHolder /\ seizeNext[k] <= memberCount(k)
    <2>1. k \in Keeps /\ status[k] = "Terminated"
      BY <1>0, <1>1, <1>4, ResumeType DEF StackInv
    <2>2. SeizeMemberBond(k) /\ UNCHANGED <<stack, status, lockedStakes>>
      BY <1>4 DEF ReturnToKeep
    <2>3. status' = [status EXCEPT ![k] = "Terminated"]
      BY <1>3, <2>1, <2>2
    <2>4. lockedStakes[k] = {}
      BY <1>0, <2>1 DEF KeepInv, Seized
    <2>5. \A j \in Keeps : KeepInv(j)'
      <3> HIDE DEF k
      <3>1. QED
        BY <1>2, <2>1, <2>2, <2>3, <2>4, SeizeTurn
    <2>6. \A j \in Keeps : seizeNext'[j] = seizeNext[j] \/ seizeNext'[j] = seizeNext[j] + 1
      <3> HIDE DEF k
      <3>1. QED
        BY <1>3, <2>1, <2>2 DEF SeizeMemberBond
    <2>7. ASSUME NEW j \in Keeps, status[j] = "Terminated", seizeNext'[j] <= Len(members[j])
          PROVE  \E i \in 1..Len(stack) : stack[i].resume = j
      <3>1. Len(members[j]) \in Nat
        BY <1>0 DEF TypeOK, KeepTypeOK
      <3>2. seizeNext[j] <= Len(members[j])
        BY <1>3, <2>6, <2>7, <3>1
      <3>3. QED
        BY <1>0, <2>7, <3>2 DEF StackInv, memberCount
    <2>8. StackInv'
      BY <1>0, <1>2, <2>2, <2>7 DEF StackInv, memberCount
    <2>9. QED
      BY <2>5, <2>8
  <1>5. CASE ~(k # NoHolder /\ seizeNext[k] <= memberCount(k))
    <2>1. /\ stack' = Tail(stack)
          /\ UNCHANGED <<lockedBonds, status, seizeNext, lockedStakes>>
      BY <1>5 DEF ReturnToKeep, Return, lifeVars
    <2>2. ASSUME NEW j \in Keeps
          PROVE  KeepInv(j)'
      BY <1>0, <1>2, <2>1, KeepInvStable
    <2>3. /\ Len(stack') = Len(stack) - 1
          /\ \A i \in 1..Len(stack') : stack'[i] = stack[i + 1] /\ i + 1 \in 1..Len(stack)
          /\ \A i \in 2..Len(stack) : stack'[i - 1] = stack[i] /\ i - 1 \in 1..Len(stack')
      BY <1>1, <2>1
    <2>4. ASSUME NEW i \in 1..Len(stack'), stack'[i].resume # NoHolder
          PROVE  status'[stack'[i].resume] = "Terminated"
      BY <1>0, <2>1, <2>3, <2>4 DEF StackInv
    <2>5. ASSUME NEW j \in Keeps, status'[j] = "Terminated", seizeNext'[j] <= Len(members'[j])
          PROVE  \E i \in 1..Len(stack') : stack'[i].resume = j
      <3>1. PICK i \in 1..Len(stack) : stack[i].resume = j
        BY <1>0, <1>2, <2>1, <2>5 DEF StackInv, memberCount
      <3>2. i # 1
        <4>1. j # NoHolder
          BY BondingAssumption DEF Keeps
        <4>2. QED
          BY <1>1, <1>2, <1>5, <2>1, <2>5, <3>1, <4>1 DEF memberCount
      <3>3. i \in 2..Len(stack)
        BY <1>1, <3>2
      <3>4. stack'[i - 1].resume = j /\ i - 1 \in 1..Len(stack')
        BY <2>3, <3>1, <3>3
      <3>5. QED
        BY <3>4
    <2>6. StackInv'
      BY <2>4, <2>5 DEF StackInv, memberCount
    <2>7. QED
      BY <2>2, <2>6
  <1>6. QED
    BY <1>4, <1>5

-----------------------------------------------------------------------------
(* The invariant is inductive.                                             *)

LEMMA InvInit == Init => IInv
  <1> SUFFICES ASSUME Init PROVE IInv
    OBVIOUS
  <1> USE DEF Init, BondingInit, KeepInit
  <1>1. BondingTypeOK
    BY BondingAssumption DEF BondingTypeOK
  <1>2. KeepTypeOK
    BY DEF KeepTypeOK
  <1>3. ASSUME NEW k \in Keeps
        PROVE  KeepInv(k)
    <2>1. \A o \in Operators : <<o, k, k>> \in BondIds
      BY KeepAssumption DEF BondIds, Keeps
    <2>2. NeverOpened(k) /\ Distinct(k)
      BY <2>1 DEF NeverOpened, Distinct, memberCount, bondAmount
    <2>3. QED
      BY <2>2 DEF KeepInv
  <1>4. StackInv
    BY DEF StackInv
  <1>5. QED
    BY <1>1, <1>2, <1>3, <1>4 DEF IInv, TypeOK

LEMMA InvStep == IInv /\ [Next]_vars => IInv'
  <1> SUFFICES ASSUME IInv, [Next]_vars PROVE IInv'
    OBVIOUS
  <1>0. TypeOK
    BY DEF IInv
  <1>1. CASE OpenNext
    <2>1. PICK a \in Accounts, own \in Owners, k \in Keeps, n \in GroupSizes,
               bond \in BondRequests, v \in {0} \cup Amounts, beaconOk \in BOOLEAN :
               \E g \in Groups(n) : OpenKeep(a, k, n, own, bond, v, g, beaconOk)
      BY <1>1 DEF OpenNext
    <2>2. PICK g \in Groups(n) : OpenKeep(a, k, n, own, bond, v, g, beaconOk)
      BY <2>1
    <2>3. v \in Nat
      BY AmountsType
    <2>4. TypeOK'
      BY <1>0, <2>2, <2>3, OpenTypes
    <2>5. (\A j \in Keeps : KeepInv(j)') /\ StackInv'
      BY <2>2, OpenStep
    <2>6. QED
      BY <2>4, <2>5 DEF IInv
  <1>2. CASE ReseedNext
    <2>1. PICK a \in Accounts, v \in {0} \cup Amounts :
               ReceiveFunds(a, v) \/ RequestNewGroupSelectionSeed(a, v)
      BY <1>2 DEF ReseedNext
    <2>2. TypeOK'
      BY <1>0, <2>1, AmountsType, ReseedTypes
    <2>3. QED
      BY <1>2, <2>2, ReseedNeutral, NeutralStep DEF IInv
  <1>3. CASE BondNext
    BY <1>0, <1>3, BondTypes, BondNeutral, NeutralStep DEF IInv
  <1>4. CASE KeepNext
    <2>1. TypeOK'
      BY <1>4, KeepTypes
    <2>2. (\A j \in Keeps : KeepInv(j)') /\ StackInv'
      BY <1>4, CloseStep, SeizeStep, ReturnStep, KeepNeutral, NeutralStep
    <2>3. QED
      BY <2>1, <2>2 DEF IInv
  <1>5. CASE UNCHANGED vars
    <2>1. TypeOK'
      BY <1>0, <1>5 DEF vars, bondingVars, keepVars, keyVars, signingVars, rewardVars,
         fraudVars, lifeVars, groupVars, TypeOK, BondingTypeOK, KeepTypeOK
    <2>2. Neutral
      BY <1>5 DEF vars, bondingVars, keepVars, lifeVars, groupVars, Neutral
    <2>3. QED
      BY <2>1, <2>2, NeutralStep DEF IInv
  <1>6. QED
    BY <1>1, <1>2, <1>3, <1>4, <1>5 DEF Next

-----------------------------------------------------------------------------
(* The theorems.                                                           *)

\* The variables of the contracts always have their types: in particular no
\* operation makes an unbonded value, a bond, a reward or a wallet negative.
THEOREM TypeCorrect == Spec => []TypeOK
  <1>1. IInv => TypeOK
    BY DEF IInv
  <1>2. QED
    BY <1>1, InvInit, InvStep, PTL DEF Spec

\* An active keep is backed by the whole bond and by the stake of every member.
THEOREM Backing == Spec => []ActiveKeepIsBacked
  <1>1. IInv => ActiveKeepIsBacked
    BY DEF IInv, KeepInv, Backed, ActiveKeepIsBacked, isActive
  <1>2. QED
    BY <1>1, InvInit, InvStep, PTL DEF Spec

\* Between transactions nothing is left locked for a closed or terminated keep.
THEOREM NothingLeftLocked == Spec => []EndedKeepHoldsNothing
  <1>1. IInv => EndedKeepHoldsNothing
    <2> SUFFICES ASSUME IInv, stack = << >>, NEW k \in Keeps,
                        status[k] \in {"Closed", "Terminated"}
                 PROVE  /\ \A o \in Operators : bondAmount(o, k) = 0
                        /\ lockedStakes[k] = {}
      BY DEF EndedKeepHoldsNothing
    <2>1. CASE status[k] = "Closed"
      BY <2>1 DEF IInv, KeepInv, Released
    <2>2. CASE status[k] = "Terminated"
      <3>1. Seized(k) /\ StackInv /\ TypeOK
        BY <2>2 DEF IInv, KeepInv
      <3>2. ~ seizeNext[k] <= memberCount(k)
        BY <2>2, <3>1 DEF StackInv
      <3>3. \A i \in 1..memberCount(k) : i < seizeNext[k]
        BY <3>1, <3>2 DEF Seized, memberCount, TypeOK, KeepTypeOK
      <3>4. QED
        BY <3>1, <3>3 DEF Seized, IsMember
    <2>3. QED
      BY <2>1, <2>2
  <1>2. QED
    BY <1>1, InvInit, InvStep, PTL DEF Spec

\* A seizure never meets an empty bond.
THEOREM SeizureNeverReverts == Spec => []SeizureCanContinue
  <1>1. IInv => SeizureCanContinue
    <2> SUFFICES ASSUME IInv, NEW i \in 1..Len(stack), stack[i].resume # NoHolder,
                        seizeNext[stack[i].resume] <= memberCount(stack[i].resume)
                 PROVE  bondAmount(members[stack[i].resume][seizeNext[stack[i].resume]],
                                   stack[i].resume) > 0
      BY DEF SeizureCanContinue
    <2>1. PICK k : k = stack[i].resume
      OBVIOUS
    <2>2. k \in Keeps /\ status[k] = "Terminated"
      BY <2>1, ResumeType DEF IInv, StackInv
    <2>3. Seized(k) /\ Len(members[k]) \in Nat /\ seizeNext[k] \in Nat
      BY <2>2 DEF IInv, KeepInv, TypeOK, KeepTypeOK
    <2>4. seizeNext[k] \in 1..memberCount(k)
      BY <2>1, <2>3 DEF Seized, memberCount
    <2>5. bondAmount(members[k][seizeNext[k]], k) = memberBond[k]
      BY <2>3, <2>4 DEF Seized
    <2>6. QED
      BY <2>1, <2>3, <2>5 DEF Seized
  <1>2. QED
    BY <1>1, InvInit, InvStep, PTL DEF Spec

-----------------------------------------------------------------------------
(* The key, the signing requests and the frauds.                           *)

\* A keep that was not opened has neither a key nor a request, and a request in
\* progress has a digest (a timestamp of 0 means that there is none).
RequestInv ==
    /\ now > 0
    /\ \A k \in Keeps :
         /\ status[k] = "None" => publicKey[k] = NoKey /\ signingStartTimestamp[k] = 0
         /\ isSigningInProgress(k) => digest[k] \in Digests

\* What the group signed without a request stays marked, although a request may
\* come later, and a fraud is one of these.
FraudInv ==
    \A k \in Keeps :
        /\ signed[k] \subseteq digests[k] \cup rogue[k]
        /\ fraudulentPreimages[k] \subseteq rogue[k]
        /\ IsFiniteSet(fraudulentPreimages[k])
        /\ slashes[k] <= Cardinality(fraudulentPreimages[k])

\* The steps that have nothing to do with any of it.
Calm == UNCHANGED <<status, members, keyVars, signingVars, fraudVars, now>>

Opened(k) ==
    /\ status[k] = "None"
    /\ status' = [status EXCEPT ![k] = "Active"]
    /\ \E g : members' = [members EXCEPT ![k] = g]
    /\ UNCHANGED <<keyVars, signingVars, fraudVars, now>>

Ended(k, p) ==
    /\ status[k] = "Active"
    /\ status' = [status EXCEPT ![k] = p]
    /\ UNCHANGED <<members, keyVars, signingVars, fraudVars, now>>

\* What a step does to a keep's phase, key, request and frauds.
Effect ==
    \/ Calm
    \/ \E k \in Keeps : Opened(k)
    \/ \E o \in Operators, k \in Keeps, key \in Keys : SubmitPublicKey(o, k, key)
    \/ \E a \in Accounts, k \in Keeps, d \in Digests : Sign(a, k, d)
    \/ \E k \in Keeps, d \in Digests : GroupSigns(k, d)
    \/ \E o \in Operators, k \in Keeps : SubmitSignature(o, k)
    \/ \E k \in Keeps, d \in Digests, s \in BOOLEAN : SubmitSignatureFraud(k, d, s)
    \/ \E k \in Keeps, p \in {"Closed", "Terminated"} : Ended(k, p)
    \/ NextBlock

LEMMA StepEffect == ASSUME [Next]_vars PROVE Effect
<1>1. CASE OpenNext
  <2>1. PICK a \in Accounts, own \in Owners, k \in Keeps, n \in GroupSizes,
             bond \in BondRequests, v \in {0} \cup Amounts, beaconOk \in BOOLEAN :
             \E g \in Groups(n) : OpenKeep(a, k, n, own, bond, v, g, beaconOk)
    BY <1>1 DEF OpenNext
  <2>2. PICK g \in Groups(n) : OpenKeep(a, k, n, own, bond, v, g, beaconOk)
    BY <2>1
  <2>3. Opened(k)
    BY <2>2 DEF OpenKeep, Opened
  <2> QED
    BY <2>3 DEF Effect
<1>2. CASE ReseedNext \/ BondNext \/ UNCHANGED vars
  BY <1>2 DEF ReseedNext, ReceiveFunds, RequestNewGroupSelectionSeed, BondNext, vars, keepVars,
     lifeVars, groupVars, Calm, Effect
<1>3. CASE KeepNext
  <2>1. ASSUME NEW a \in Accounts, NEW k \in Keeps, NEW v \in Amounts,
               DistributeETHReward(a, k, v) \/ ReturnPartialSignerBonds(a, k, v)
        PROVE  Calm
    BY <2>1 DEF DistributeETHReward, ReturnPartialSignerBonds, keepVars, lifeVars, groupVars, Calm
  <2>2. ASSUME NEW a \in Accounts, NEW k \in Keeps, NEW o \in Operators, WithdrawReward(a, k, o)
        PROVE  Calm
    BY <2>2 DEF WithdrawReward, lifeVars, groupVars, Calm
  <2>3. ASSUME NEW a \in Accounts, NEW k \in Keeps, CloseKeep(a, k)
        PROVE  Ended(k, "Closed")
    BY <2>3 DEF CloseKeep, isActive, groupVars, Ended
  <2>4. ASSUME NEW a \in Accounts, NEW k \in Keeps, SeizeSignerBonds(a, k)
        PROVE  Ended(k, "Terminated")
    BY <2>4 DEF SeizeSignerBonds, isActive, groupVars, Ended
  <2>5. CASE ReturnToKeep
    BY <2>5 DEF ReturnToKeep, lifeVars, groupVars, Calm, Effect
  <2> QED
    BY <1>3, <2>1, <2>2, <2>3, <2>4, <2>5 DEF KeepNext, Effect
<1> QED
  BY <1>1, <1>2, <1>3 DEF Next

\* The step that publishes the key of a keep, or only records a member's.  A key
\* is published once: a member that submits one has not submitted before.
LEMMA SubmitEffect ==
    ASSUME TypeOK, PublicKeyAgreement, NEW o \in Operators, NEW k \in Keeps, NEW key \in Keys,
           SubmitPublicKey(o, k, key)
    PROVE  /\ publicKey[k] = NoKey /\ memberCount(k) > 0
           /\ \/ publicKey' = publicKey
              \/ publicKey' = [publicKey EXCEPT ![k] = key]
           /\ PublicKeyAgreement'
<1>1. PICK i \in 1..memberCount(k) : members[k][i] = o
  BY DEF SubmitPublicKey, IsMember
<1>2. publicKey[k] = NoKey
  BY <1>1 DEF SubmitPublicKey, PublicKeyAgreement
<1>3. memberCount(k) > 0
  BY <1>1 DEF memberCount, TypeOK, KeepTypeOK
<1>4. UNCHANGED members
  BY DEF SubmitPublicKey, groupVars
<1>5. \A j \in Keeps \ {k} : submittedPublicKeys'[j] = submittedPublicKeys[j]
  BY DEF SubmitPublicKey, TypeOK, KeepTypeOK
<1>6. CASE \A j \in 1..memberCount(k) : submittedPublicKeys'[k][members[k][j]] = key
  <2>1. publicKey' = [publicKey EXCEPT ![k] = key]
    BY <1>6 DEF SubmitPublicKey
  <2>2. /\ publicKey'[k] = key
        /\ \A j \in Keeps \ {k} : publicKey'[j] = publicKey[j]
    BY <2>1 DEF TypeOK, KeepTypeOK
  <2>3. PublicKeyAgreement'
    BY <1>4, <1>5, <1>6, <2>2 DEF PublicKeyAgreement, memberCount
  <2> QED
    BY <1>2, <1>3, <2>1, <2>3
<1>7. CASE ~ \A j \in 1..memberCount(k) : submittedPublicKeys'[k][members[k][j]] = key
  <2>1. publicKey' = publicKey
    BY <1>7 DEF SubmitPublicKey
  <2>2. PublicKeyAgreement'
    BY <1>2, <1>4, <1>5, <2>1 DEF PublicKeyAgreement, memberCount
  <2> QED
    BY <1>2, <1>3, <2>1, <2>2
<1> QED
  BY <1>6, <1>7

LEMMA OpenedHasNoKey ==
    ASSUME IInv, NEW k \in Keeps, memberCount(k) > 0
    PROVE  status[k] # "None"
  BY DEF IInv, KeepInv, NeverOpened

KeyInv == PublicKeyAgreement /\ RequestInv

LEMMA KeyInvStep ==
    ASSUME IInv, KeyInv, Effect
    PROVE  KeyInv'
<1>0. TypeOK
  BY DEF IInv
<1>1. CASE Calm
  BY <1>1 DEF Calm, keyVars, signingVars, KeyInv, PublicKeyAgreement, RequestInv,
     isSigningInProgress, memberCount
<1>2. ASSUME NEW k \in Keeps, Opened(k) PROVE KeyInv'
  <2>1. publicKey[k] = NoKey /\ UNCHANGED <<keyVars, signingVars, now>>
    BY <1>2 DEF Opened, KeyInv, RequestInv
  <2>2. \A j \in Keeps \ {k} : members'[j] = members[j] /\ status'[j] = status[j]
    BY <1>0, <1>2 DEF Opened, TypeOK, KeepTypeOK
  <2>3. PublicKeyAgreement'
    BY <2>1, <2>2 DEF KeyInv, PublicKeyAgreement, memberCount, keyVars
  <2>4. status'[k] = "Active"
    BY <1>0, <1>2 DEF Opened, TypeOK, KeepTypeOK
  <2>5. RequestInv'
    BY <2>1, <2>2, <2>4 DEF KeyInv, RequestInv, keyVars, signingVars, isSigningInProgress
  <2> QED
    BY <2>3, <2>5 DEF KeyInv
<1>3. ASSUME NEW o \in Operators, NEW k \in Keeps, NEW key \in Keys, SubmitPublicKey(o, k, key)
      PROVE  KeyInv'
  <2>1. /\ PublicKeyAgreement' /\ memberCount(k) > 0
        /\ publicKey' = publicKey \/ publicKey' = [publicKey EXCEPT ![k] = key]
    BY <1>0, <1>3, SubmitEffect DEF KeyInv
  <2>2. \A j \in Keeps \ {k} : publicKey'[j] = publicKey[j]
    BY <1>0, <2>1 DEF TypeOK, KeepTypeOK
  <2>3. status[k] # "None"
    BY <2>1, OpenedHasNoKey
  <2>4. UNCHANGED <<status, signingVars, now>>
    BY <1>3 DEF SubmitPublicKey, lifeVars
  <2>5. RequestInv'
    BY <2>2, <2>3, <2>4 DEF KeyInv, RequestInv, signingVars, isSigningInProgress
  <2> QED
    BY <2>1, <2>5 DEF KeyInv
<1>4. ASSUME NEW a \in Accounts, NEW k \in Keeps, NEW d \in Digests, Sign(a, k, d)
      PROVE  KeyInv'
  <2>1. /\ UNCHANGED <<status, members, keyVars, now>>
        /\ status[k] = "Active"
    BY <1>4 DEF Sign, isActive, lifeVars, groupVars
  <2>2. /\ digest'[k] = d /\ signingStartTimestamp'[k] = now
        /\ \A j \in Keeps \ {k} : /\ digest'[j] = digest[j]
                                  /\ signingStartTimestamp'[j] = signingStartTimestamp[j]
    BY <1>0, <1>4 DEF Sign, TypeOK, KeepTypeOK
  <2>3. RequestInv'
    BY <2>1, <2>2 DEF KeyInv, RequestInv, keyVars, isSigningInProgress
  <2> QED
    BY <2>1, <2>3 DEF KeyInv, PublicKeyAgreement, memberCount, keyVars
<1>5. ASSUME NEW o \in Operators, NEW k \in Keeps, SubmitSignature(o, k)
      PROVE  KeyInv'
  <2>1. UNCHANGED <<status, members, keyVars, now, digest>>
    BY <1>5 DEF SubmitSignature, lifeVars, groupVars
  <2>2. /\ signingStartTimestamp'[k] = 0
        /\ \A j \in Keeps \ {k} : signingStartTimestamp'[j] = signingStartTimestamp[j]
    BY <1>0, <1>5 DEF SubmitSignature, TypeOK, KeepTypeOK
  <2>3. RequestInv'
    BY <2>1, <2>2 DEF KeyInv, RequestInv, keyVars, isSigningInProgress
  <2> QED
    BY <2>1, <2>3 DEF KeyInv, PublicKeyAgreement, memberCount, keyVars
<1>6. CASE \/ \E k \in Keeps, d \in Digests : GroupSigns(k, d)
           \/ \E k \in Keeps, d \in Digests, s \in BOOLEAN : SubmitSignatureFraud(k, d, s)
  <2>1. UNCHANGED <<status, members, keyVars, signingVars, now>>
    BY <1>6 DEF GroupSigns, SubmitSignatureFraud, lifeVars, groupVars
  <2> QED
    BY <2>1 DEF keyVars, signingVars, KeyInv, PublicKeyAgreement, RequestInv,
       isSigningInProgress, memberCount
<1>7. ASSUME NEW k \in Keeps, NEW p \in {"Closed", "Terminated"}, Ended(k, p) PROVE KeyInv'
  <2>1. UNCHANGED <<members, keyVars, signingVars, now>>
    BY <1>7 DEF Ended
  <2>2. \A j \in Keeps : status'[j] = "None" => status[j] = "None"
    BY <1>0, <1>7 DEF Ended, TypeOK, KeepTypeOK
  <2> QED
    BY <2>1, <2>2 DEF keyVars, signingVars, KeyInv, PublicKeyAgreement, RequestInv,
       isSigningInProgress, memberCount
<1>8. CASE NextBlock
  <2>1. UNCHANGED <<status, members, keyVars, signingVars>> /\ now' > 0
    BY <1>0, <1>8 DEF NextBlock, lifeVars, groupVars, KeyInv, RequestInv, TypeOK, KeepTypeOK
  <2> QED
    BY <2>1 DEF keyVars, signingVars, KeyInv, PublicKeyAgreement, RequestInv,
       isSigningInProgress, memberCount
<1> QED
  BY <1>1, <1>2, <1>3, <1>4, <1>5, <1>6, <1>7, <1>8 DEF Effect

\* The frauds of one keep when its signatures and requests only grow.
LEMMA FraudStable ==
    ASSUME FraudInv, UNCHANGED <<fraudulentPreimages, slashes>>,
           \A k \in Keeps : /\ signed'[k] \subseteq digests'[k] \cup rogue'[k]
                            /\ rogue[k] \subseteq rogue'[k]
    PROVE  FraudInv'
  BY DEF FraudInv

LEMMA FraudInvStep ==
    ASSUME TypeOK, FraudInv, Effect
    PROVE  FraudInv'
<1>1. CASE Calm \/ NextBlock \/ \E k \in Keeps, p \in {"Closed", "Terminated"} : Ended(k, p)
  <2>1. UNCHANGED <<digests, fraudulentPreimages, slashes, signed, rogue>>
    BY <1>1 DEF Calm, NextBlock, Ended, signingVars, fraudVars
  <2> QED
    BY <2>1, FraudStable DEF FraudInv
<1>2. CASE \/ \E k \in Keeps : Opened(k)
           \/ \E o \in Operators, k \in Keeps, key \in Keys : SubmitPublicKey(o, k, key)
           \/ \E o \in Operators, k \in Keeps : SubmitSignature(o, k)
  <2>1. UNCHANGED <<digests, fraudulentPreimages, slashes, signed, rogue>>
    BY <1>2 DEF Opened, SubmitPublicKey, SubmitSignature, signingVars, fraudVars
  <2> QED
    BY <2>1, FraudStable DEF FraudInv
<1>3. ASSUME NEW a \in Accounts, NEW k \in Keeps, NEW d \in Digests, Sign(a, k, d)
      PROVE  FraudInv'
  <2>1. UNCHANGED <<fraudulentPreimages, slashes, signed, rogue>>
    BY <1>3 DEF Sign, fraudVars
  <2>2. \A j \in Keeps : digests[j] \subseteq digests'[j]
    BY <1>3 DEF Sign, TypeOK, KeepTypeOK
  <2> QED
    BY <2>1, <2>2, FraudStable DEF FraudInv
<1>4. ASSUME NEW k \in Keeps, NEW d \in Digests, GroupSigns(k, d)
      PROVE  FraudInv'
  <2>1. UNCHANGED <<digests, fraudulentPreimages, slashes>>
    BY <1>4 DEF GroupSigns, signingVars
  <2>2. /\ signed'[k] = signed[k] \cup {d}
        /\ rogue'[k] = IF d \in digests[k] THEN rogue[k] ELSE rogue[k] \cup {d}
        /\ \A j \in Keeps \ {k} : signed'[j] = signed[j] /\ rogue'[j] = rogue[j]
    BY <1>4 DEF GroupSigns, TypeOK, KeepTypeOK
  <2> QED
    BY <2>1, <2>2, FraudStable DEF FraudInv
<1>5. ASSUME NEW k \in Keeps, NEW d \in Digests, NEW s \in BOOLEAN, SubmitSignatureFraud(k, d, s)
      PROVE  FraudInv'
  <2>1. UNCHANGED <<digests, signed, rogue>>
    BY <1>5 DEF SubmitSignatureFraud, signingVars
  <2>2. /\ fraudulentPreimages'[k] = fraudulentPreimages[k] \cup {d}
        /\ \A j \in Keeps \ {k} : fraudulentPreimages'[j] = fraudulentPreimages[j]
    BY <1>5 DEF SubmitSignatureFraud, TypeOK, KeepTypeOK
  <2>3. /\ slashes'[k] = IF s /\ d \notin fraudulentPreimages[k] THEN slashes[k] + 1
                                                                 ELSE slashes[k]
        /\ \A j \in Keeps \ {k} : slashes'[j] = slashes[j]
    BY <1>5 DEF SubmitSignatureFraud, TypeOK, KeepTypeOK
  <2>4. d \in rogue[k]
    BY <1>5 DEF SubmitSignatureFraud, checkSignatureFraud, FraudInv
  <2>5. /\ IsFiniteSet(fraudulentPreimages[k])
        /\ Cardinality(fraudulentPreimages[k]) \in Nat
        /\ IsFiniteSet(fraudulentPreimages[k] \cup {d})
        /\ Cardinality(fraudulentPreimages[k] \cup {d}) =
             IF d \in fraudulentPreimages[k] THEN Cardinality(fraudulentPreimages[k])
             ELSE Cardinality(fraudulentPreimages[k]) + 1
    BY FS_AddElement, FS_CardinalityType DEF FraudInv
  <2>6. slashes[k] <= Cardinality(fraudulentPreimages[k]) /\ slashes[k] \in Nat
    BY DEF FraudInv, TypeOK, KeepTypeOK
  <2>7. slashes'[k] <= Cardinality(fraudulentPreimages'[k])
    BY <2>2, <2>3, <2>5, <2>6
  <2> QED
    BY <2>1, <2>2, <2>3, <2>4, <2>5, <2>7 DEF FraudInv
<1> QED
  BY <1>1, <1>2, <1>3, <1>4, <1>5 DEF Effect

LEMMA SigningInvariant == Spec => [](IInv /\ KeyInv /\ FraudInv)
<1>1. ASSUME Init PROVE KeyInv /\ FraudInv
  <2>1. KeyInv
    BY <1>1 DEF Init, KeepInit, KeyInv, PublicKeyAgreement, RequestInv, isSigningInProgress
  <2>2. FraudInv
    BY <1>1, FS_EmptySet DEF Init, KeepInit, FraudInv
  <2> QED
    BY <2>1, <2>2
<1>2. ASSUME IInv, KeyInv, FraudInv, [Next]_vars PROVE KeyInv' /\ FraudInv'
  <2>1. TypeOK /\ Effect
    BY <1>2, StepEffect DEF IInv
  <2> QED
    BY <1>2, <2>1, KeyInvStep, FraudInvStep
<1>3. Init => KeyInv /\ FraudInv
  BY <1>1
<1>4. (IInv /\ KeyInv /\ FraudInv) /\ [Next]_vars => KeyInv' /\ FraudInv'
  BY <1>2
<1> QED
  BY <1>3, <1>4, InvInit, InvStep, PTL DEF Spec

\* A published key is the key that every member submitted, for groups of any size
\* and keys submitted in any order.
THEOREM KeyAgreement == Spec => []PublicKeyAgreement
<1>1. KeyInv => PublicKeyAgreement
  BY DEF KeyInv
<1> QED
  BY <1>1, SigningInvariant, PTL

\* submitSignatureFraud slashes only for what the group signed before it was
\* requested, and once per preimage.
THEOREM SlashedOnlyForFraud == Spec => []OnlyRogueGroupsSlashed
<1>1. FraudInv => OnlyRogueGroupsSlashed
  BY DEF FraudInv, OnlyRogueGroupsSlashed
<1> QED
  BY <1>1, SigningInvariant, PTL

-----------------------------------------------------------------------------
(* The contracts implement the lifecycle of a keep.                        *)

LEMMA LifecycleStart == Init => Lifecycle!LifecycleInit
  BY DEF Init, KeepInit, Lifecycle!LifecycleInit, isSigningInProgress

LEMMA LifecycleStep ==
    ASSUME IInv, KeyInv, Effect
    PROVE  [Lifecycle!LifecycleNext]_(Lifecycle!lifecycleVars)
<1> DEFINE req == [k \in Keeps |-> IF isSigningInProgress(k) THEN digest[k] ELSE NoDigest]
<1>0. TypeOK
  BY DEF IInv
<1>1. CASE UNCHANGED <<status, publicKey, signingVars>>
  <2>1. UNCHANGED Lifecycle!lifecycleVars
    BY <1>1 DEF Lifecycle!lifecycleVars, isSigningInProgress, signingVars
  <2> QED
    BY <2>1
<1>2. ASSUME NEW k \in Keeps, Opened(k) PROVE Lifecycle!Open(k)
  BY <1>2 DEF Opened, Lifecycle!Open, keyVars, signingVars, isSigningInProgress
<1>3. ASSUME NEW o \in Operators, NEW k \in Keeps, NEW key \in Keys, SubmitPublicKey(o, k, key),
             publicKey' # publicKey
      PROVE  Lifecycle!PublishKey(k, key)
  <2>1. /\ publicKey[k] = NoKey /\ memberCount(k) > 0
        /\ publicKey' = [publicKey EXCEPT ![k] = key]
    BY <1>0, <1>3, SubmitEffect DEF KeyInv
  <2>2. status[k] # "None"
    BY <2>1, OpenedHasNoKey
  <2>3. UNCHANGED <<status, signingVars>>
    BY <1>3 DEF SubmitPublicKey, lifeVars
  <2> QED
    BY <2>1, <2>2, <2>3 DEF Lifecycle!PublishKey, signingVars, isSigningInProgress
<1>4. ASSUME NEW a \in Accounts, NEW k \in Keeps, NEW d \in Digests, Sign(a, k, d)
      PROVE  Lifecycle!Request(k, d)
  <2>1. /\ status[k] = "Active" /\ publicKey[k] # NoKey /\ req[k] = NoDigest
        /\ UNCHANGED <<status, publicKey>>
    BY <1>4 DEF Sign, isActive, lifeVars, keyVars
  <2>2. signingStartTimestamp'[k] # 0 /\ digest'[k] = d
    BY <1>0, <1>4 DEF Sign, KeyInv, RequestInv, TypeOK, KeepTypeOK
  <2>3. \A j \in Keeps \ {k} : /\ signingStartTimestamp'[j] = signingStartTimestamp[j]
                               /\ digest'[j] = digest[j]
    BY <1>0, <1>4 DEF Sign, TypeOK, KeepTypeOK
  <2>4. req' = [req EXCEPT ![k] = d]
    BY <2>2, <2>3 DEF isSigningInProgress
  <2> QED
    BY <2>1, <2>4 DEF Lifecycle!Request
<1>5. ASSUME NEW o \in Operators, NEW k \in Keeps, SubmitSignature(o, k)
      PROVE  Lifecycle!Fulfil(k)
  <2>1. UNCHANGED <<status, publicKey, digest>>
    BY <1>5 DEF SubmitSignature, lifeVars, keyVars
  <2>2. req[k] # NoDigest
    BY <1>5, KeepAssumption DEF SubmitSignature, KeyInv, RequestInv
  <2>3. /\ signingStartTimestamp'[k] = 0
        /\ \A j \in Keeps \ {k} : signingStartTimestamp'[j] = signingStartTimestamp[j]
    BY <1>0, <1>5 DEF SubmitSignature, TypeOK, KeepTypeOK
  <2>4. req' = [req EXCEPT ![k] = NoDigest]
    BY <2>1, <2>3 DEF isSigningInProgress
  <2> QED
    BY <2>1, <2>2, <2>4 DEF Lifecycle!Fulfil
<1>6. ASSUME NEW k \in Keeps, NEW p \in {"Closed", "Terminated"}, Ended(k, p)
      PROVE  Lifecycle!End(k, p)
  BY <1>6 DEF Ended, Lifecycle!End, keyVars, signingVars, isSigningInProgress
<1>7. ASSUME NEW o \in Operators, NEW k \in Keeps, NEW key \in Keys, SubmitPublicKey(o, k, key),
             publicKey' = publicKey
      PROVE  UNCHANGED <<status, publicKey, signingVars>>
  BY <1>7 DEF SubmitPublicKey, lifeVars
<1>8. ASSUME \/ Calm \/ NextBlock
             \/ \E k \in Keeps, d \in Digests : GroupSigns(k, d)
             \/ \E k \in Keeps, d \in Digests, s \in BOOLEAN : SubmitSignatureFraud(k, d, s)
      PROVE  UNCHANGED <<status, publicKey, signingVars>>
  BY <1>8 DEF Calm, NextBlock, GroupSigns, SubmitSignatureFraud, lifeVars, keyVars
<1> QED
  BY <1>1, <1>2, <1>3, <1>4, <1>5, <1>6, <1>7, <1>8 DEF Effect, Lifecycle!LifecycleNext

\* The contracts implement what a keep promises, for any number of keeps and
\* members: it ends once, its key never changes, and it works on one request at a
\* time.
THEOREM LifecycleImplemented == Spec => ImplementsLifecycle
<1>1. IInv /\ KeyInv /\ [Next]_vars => [Lifecycle!LifecycleNext]_(Lifecycle!lifecycleVars)
  BY StepEffect, LifecycleStep
<1> QED
  BY <1>1, LifecycleStart, SigningInvariant, PTL
     DEF Spec, ImplementsLifecycle, Lifecycle!LifecycleSpec

-----------------------------------------------------------------------------
(* Sums over ledgers: what the fold of SumFunction computes.              *)

\* Induction over the subsets of a finite set.
LEMMA SubsetInduction ==
    ASSUME NEW S, IsFiniteSet(S), NEW G, G \subseteq SUBSET S, {} \in G,
           \A s \in SUBSET S : s # {} /\ (\A x \in s : s \ {x} \in G) => s \in G
    PROVE  G = SUBSET S
<1> SUFFICES ASSUME (SUBSET S) \ G # {} PROVE FALSE
  OBVIOUS
<1>1. IsWellFoundedOn(StrictSubsetOrdering(S), SUBSET S)
  <2>1. IsWellFoundedOn(StrictSubsetOrdering(S), FiniteSubsetsOf(S))
    BY FS_StrictSubsetOrderingWellFounded
  <2>2. FiniteSubsetsOf(S) = SUBSET S
    BY FS_FiniteSubsetsOfFinite
  <2> QED
    BY <2>1, <2>2
<1> DEFINE B == (SUBSET S) \ G
           R == StrictSubsetOrdering(S)
           W == SUBSET S
<1>2. PICK s \in B : \A r \in B : ~(<<r, s>> \in R)
  <2>1. IsWellFoundedOn(R, W) /\ B \subseteq W /\ B # {}
    BY <1>1
  <2> HIDE DEF B, R, W
  <2> QED
    BY <2>1, WFMin
<1>3. PICK x \in s : s \ {x} \notin G
  <2>1. s \in SUBSET S /\ s \notin G
    BY <1>2
  <2>2. s # {}
    BY <2>1
  <2> QED
    BY <2>1, <2>2
<1>4. <<s \ {x}, s>> \in StrictSubsetOrdering(S)
  BY <1>3 DEF StrictSubsetOrdering
<1> QED
  BY <1>2, <1>3, <1>4

Pick(s) == CHOOSE x \in s : TRUE
Adds(f, it, s) == IF s = {} THEN 0 ELSE f[Pick(s)] + it[s \ {Pick(s)}]
Low(S, n) == {s \in SUBSET S : Cardinality(s) <= n}

LEMMA PickIn == ASSUME NEW s, s # {} PROVE Pick(s) \in s
BY DEF Pick

LEMMA SumIs ==
    ASSUME NEW f, NEW S
    PROVE  SumFunctionOnSet(f, S) = (CHOOSE it : it = [s \in SUBSET S |-> Adds(f, it, s)])[S]
BY DEF SumFunctionOnSet, FoldFunctionOnSet, MapThenFoldSet, Adds, Pick

LEMMA LowRemove ==
    ASSUME NEW S, IsFiniteSet(S), NEW n \in Nat, NEW s \in Low(S, n + 1), s # {}
    PROVE  s \ {Pick(s)} \in Low(S, n)
<1>1. s \in SUBSET S /\ IsFiniteSet(s) /\ Cardinality(s) <= n + 1
  BY FS_Subset DEF Low
<1>2. Pick(s) \in s
  BY PickIn
<1>3. Cardinality(s \ {Pick(s)}) = Cardinality(s) - 1 /\ Cardinality(s) \in Nat
  BY <1>1, <1>2, FS_RemoveElement, FS_CardinalityType
<1>4. Cardinality(s \ {Pick(s)}) <= n
  BY <1>1, <1>3
<1> QED
  BY <1>1, <1>4 DEF Low

LEMMA IterExtends ==
    ASSUME NEW f, NEW S, IsFiniteSet(S), NEW n \in Nat,
           NEW g, g = [s \in Low(S, n) |-> Adds(f, g, s)]
    PROVE  \E h : h = [s \in Low(S, n + 1) |-> Adds(f, h, s)]
<1> DEFINE h == [s \in Low(S, n + 1) |-> Adds(f, g, s)]
<1>1. ASSUME NEW s \in Low(S, n + 1), s # {}
      PROVE  h[s \ {Pick(s)}] = g[s \ {Pick(s)}]
  <2>1. s \ {Pick(s)} \in Low(S, n)
    BY <1>1, LowRemove
  <2>2. s \ {Pick(s)} \in Low(S, n + 1)
    <3>1. Cardinality(s \ {Pick(s)}) \in Nat
      BY <2>1, FS_Subset, FS_CardinalityType DEF Low
    <3> QED
      BY <2>1, <3>1 DEF Low
  <2>3. h[s \ {Pick(s)}] = Adds(f, g, s \ {Pick(s)})
    BY <2>2
  <2>4. g[s \ {Pick(s)}] = Adds(f, g, s \ {Pick(s)})
    BY <2>1
  <2> QED
    BY <2>3, <2>4
<1> HIDE DEF h
<1>2. \A s \in Low(S, n + 1) : Adds(f, g, s) = Adds(f, h, s)
  BY <1>1 DEF Adds
<1>3. h = [s \in Low(S, n + 1) |-> Adds(f, g, s)]
  BY DEF h
<1>4. h = [s \in Low(S, n + 1) |-> Adds(f, h, s)]
  BY <1>2, <1>3
<1> QED
  BY <1>4

LEMMA IterExists ==
    ASSUME NEW f, NEW S, IsFiniteSet(S)
    PROVE  \E it : it = [s \in SUBSET S |-> Adds(f, it, s)]
<1> DEFINE Defined(n) == \E g : g = [s \in Low(S, n) |-> Adds(f, g, s)]
           G == {U \in SUBSET S : Defined(Cardinality(U))}
<1>1. {} \in G
  <2>1. \A s \in Low(S, 0) : s = {}
    <3> SUFFICES ASSUME NEW s \in Low(S, 0) PROVE s = {}
      OBVIOUS
    <3>1. IsFiniteSet(s) /\ Cardinality(s) <= 0
      BY FS_Subset DEF Low
    <3>2. Cardinality(s) \in Nat
      BY <3>1, FS_CardinalityType
    <3>3. Cardinality(s) = 0
      BY <3>1, <3>2
    <3> QED
      BY <3>1, <3>3, FS_EmptySet
  <2> DEFINE g == [s \in Low(S, 0) |-> 0]
  <2>2. g = [s \in Low(S, 0) |-> Adds(f, g, s)]
    BY <2>1 DEF Adds
  <2>3. Defined(0)
    BY <2>2
  <2> QED
    BY <2>3, FS_EmptySet
<1>2. ASSUME NEW U \in SUBSET S, U # {}, \A x \in U : U \ {x} \in G
      PROVE  U \in G
  <2>1. PICK x \in U : TRUE
    BY <1>2
  <2>2. IsFiniteSet(U)
    BY FS_Subset
  <2>3. Cardinality(U) = Cardinality(U \ {x}) + 1 /\ Cardinality(U \ {x}) \in Nat
    <3>1. IsFiniteSet(U \ {x}) /\ Cardinality(U \ {x}) = Cardinality(U) - 1
      BY <2>2, FS_RemoveElement
    <3>2. Cardinality(U) \in Nat /\ Cardinality(U \ {x}) \in Nat
      BY <2>2, <3>1, FS_CardinalityType
    <3> QED
      BY <3>1, <3>2
  <2>4. PICK n \in Nat : n = Cardinality(U \ {x}) /\ Cardinality(U) = n + 1
    BY <2>3
  <2>5. Defined(n)
    BY <1>2, <2>4
  <2>6. Defined(n + 1)
    BY <2>5, IterExtends
  <2> QED
    BY <2>4, <2>6
<1> HIDE DEF G
<1>3. G \subseteq SUBSET S
  BY DEF G
<1>4. S \in G
  <2>1. \A U \in SUBSET S : U # {} /\ (\A x \in U : U \ {x} \in G) => U \in G
    BY <1>2
  <2>2. G = SUBSET S
    BY <1>1, <1>3, <2>1, SubsetInduction
  <2> QED
    BY <2>2
<1>5. Low(S, Cardinality(S)) = SUBSET S
  BY FS_Subset DEF Low
<1> QED
  BY <1>4, <1>5 DEF G

\* What the fold computes: an element at a time, in any order.
Iterates(it, f, S) == it = [s \in SUBSET S |-> Adds(f, it, s)]

LEMMA SumIterates ==
    ASSUME NEW f, NEW S, IsFiniteSet(S)
    PROVE  \E it : Iterates(it, f, S) /\ SumFunctionOnSet(f, S) = it[S]
<1> DEFINE it == CHOOSE g : g = [s \in SUBSET S |-> Adds(f, g, s)]
<1>1. it = [s \in SUBSET S |-> Adds(f, it, s)]
  BY IterExists
<1>2. SumFunctionOnSet(f, S) = it[S]
  BY SumIs
<1> QED
  BY <1>1, <1>2 DEF Iterates

LEMMA IterType ==
    ASSUME NEW S, IsFiniteSet(S), NEW Num, Num = Nat \/ Num = Int, NEW f \in [S -> Num],
           NEW it, Iterates(it, f, S)
    PROVE  \A s \in SUBSET S : it[s] \in Num
<1> DEFINE G == {s \in SUBSET S : it[s] \in Num}
<1>1. it[{}] = 0
  BY DEF Iterates, Adds
<1>2. {} \in G /\ G \subseteq SUBSET S
  BY <1>1
<1>3. ASSUME NEW s \in SUBSET S, s # {}, \A x \in s : s \ {x} \in G
      PROVE  s \in G
  <2>1. Pick(s) \in s
    BY <1>3, PickIn
  <2>2. it[s] = f[Pick(s)] + it[s \ {Pick(s)}]
    BY <1>3 DEF Iterates, Adds
  <2>3. f[Pick(s)] \in Num /\ it[s \ {Pick(s)}] \in Num
    BY <1>3, <2>1
  <2>4. it[s] \in Num
    BY <2>2, <2>3
  <2> QED
    BY <2>4
<1> HIDE DEF G
<1>4. \A s \in SUBSET S : s # {} /\ (\A x \in s : s \ {x} \in G) => s \in G
  BY <1>3
<1>5. G = SUBSET S
  BY <1>2, <1>4, SubsetInduction
<1> QED
  BY <1>5 DEF G

LEMMA IterAny ==
    ASSUME NEW S, IsFiniteSet(S), NEW f \in [S -> Int], NEW it, Iterates(it, f, S),
           NEW U \in SUBSET S, NEW z \in U
    PROVE  it[U] = f[z] + it[U \ {z}]
<1> DEFINE G == {s \in SUBSET S : \A x \in s : it[s] = f[x] + it[s \ {x}]}
<1>1. {} \in G /\ G \subseteq SUBSET S
  OBVIOUS
<1>2. \A s \in SUBSET S : it[s] \in Int
  BY IterType
<1>3. ASSUME NEW s \in SUBSET S, s # {}, \A x \in s : s \ {x} \in G
      PROVE  s \in G
  <2> SUFFICES ASSUME NEW x \in s PROVE it[s] = f[x] + it[s \ {x}]
    OBVIOUS
  <2>1. PICK y \in s : y = Pick(s)
    BY <1>3, PickIn
  <2>2. it[s] = f[y] + it[s \ {y}]
    BY <1>3, <2>1 DEF Iterates, Adds
  <2>3. CASE x = y
    BY <2>2, <2>3
  <2>4. CASE x # y
    <3>1. it[s \ {y}] = f[x] + it[(s \ {y}) \ {x}]
      BY <1>3, <2>4
    <3>2. it[s \ {x}] = f[y] + it[(s \ {x}) \ {y}]
      BY <1>3, <2>4
    <3>3. (s \ {y}) \ {x} = (s \ {x}) \ {y}
      OBVIOUS
    <3>4. PICK a \in Int, b \in Int, c \in Int :
               a = f[x] /\ b = f[y] /\ c = it[(s \ {x}) \ {y}]
      BY <1>2
    <3>5. it[s] = b + (a + c)
      BY <2>2, <3>1, <3>3, <3>4
    <3>6. f[x] + it[s \ {x}] = a + (b + c)
      BY <3>2, <3>4
    <3> QED
      BY <3>4, <3>5, <3>6
  <2> QED
    BY <2>3, <2>4
<1> HIDE DEF G
<1>4. \A s \in SUBSET S : s # {} /\ (\A x \in s : s \ {x} \in G) => s \in G
  BY <1>3
<1>5. G = SUBSET S
  BY <1>1, <1>4, SubsetInduction
<1> QED
  BY <1>5 DEF G

\* The sum depends on the values of the elements only.
LEMMA IterSame ==
    ASSUME NEW S, IsFiniteSet(S), NEW f, NEW g, NEW it, NEW jt,
           Iterates(it, f, S), Iterates(jt, g, S),
           NEW U \in SUBSET S, \A x \in U : f[x] = g[x]
    PROVE  it[U] = jt[U]
<1> DEFINE G == {s \in SUBSET U : it[s] = jt[s]}
<1>1. {} \in G /\ G \subseteq SUBSET U
  <2>1. it[{}] = 0 /\ jt[{}] = 0
    BY DEF Iterates, Adds
  <2> QED
    BY <2>1
<1>2. ASSUME NEW s \in SUBSET U, s # {}, \A x \in s : s \ {x} \in G
      PROVE  s \in G
  <2>1. Pick(s) \in s
    BY <1>2, PickIn
  <2>2. it[s] = f[Pick(s)] + it[s \ {Pick(s)}] /\ jt[s] = g[Pick(s)] + jt[s \ {Pick(s)}]
    BY <1>2 DEF Iterates, Adds
  <2>3. f[Pick(s)] = g[Pick(s)] /\ it[s \ {Pick(s)}] = jt[s \ {Pick(s)}]
    BY <1>2, <2>1
  <2>4. it[s] = jt[s]
    BY <2>2, <2>3
  <2> QED
    BY <2>4
<1> HIDE DEF G
<1>3. \A s \in SUBSET U : s # {} /\ (\A x \in s : s \ {x} \in G) => s \in G
  BY <1>2
<1>4. IsFiniteSet(U)
  BY FS_Subset
<1>5. G = SUBSET U
  BY <1>1, <1>3, <1>4, SubsetInduction
<1>6. U \in G
  BY <1>5
<1> QED
  BY <1>6 DEF G

LEMMA SumType ==
    ASSUME NEW S, IsFiniteSet(S), NEW Num, Num = Nat \/ Num = Int, NEW f \in [S -> Num]
    PROVE  SumFunction(f) \in Num
<1>1. PICK it : Iterates(it, f, S) /\ SumFunctionOnSet(f, S) = it[S]
  BY SumIterates
<1>2. it[S] \in Num
  BY <1>1, IterType
<1>3. DOMAIN f = S
  OBVIOUS
<1> QED
  BY <1>1, <1>2, <1>3 DEF SumFunction

\* Changing one value changes the sum by the difference.
LEMMA SumChanges ==
    ASSUME NEW S, IsFiniteSet(S), NEW f \in [S -> Int], NEW g \in [S -> Int], NEW x \in S,
           \A y \in S \ {x} : g[y] = f[y]
    PROVE  SumFunction(g) = SumFunction(f) - f[x] + g[x]
<1>1. PICK it : Iterates(it, f, S) /\ SumFunctionOnSet(f, S) = it[S]
  BY SumIterates
<1>2. PICK jt : Iterates(jt, g, S) /\ SumFunctionOnSet(g, S) = jt[S]
  BY SumIterates
<1>3. it[S] = f[x] + it[S \ {x}] /\ jt[S] = g[x] + jt[S \ {x}]
  <2>1. ASSUME NEW h \in [S -> Int], NEW ht, Iterates(ht, h, S)
        PROVE  ht[S] = h[x] + ht[S \ {x}]
    <3>1. S \in SUBSET S
      OBVIOUS
    <3> QED
      BY <2>1, <3>1, IterAny
  <2> QED
    BY <1>1, <1>2, <2>1
<1>4. it[S \ {x}] = jt[S \ {x}]
  BY <1>1, <1>2, IterSame
<1>5. it[S \ {x}] \in Int /\ f[x] \in Int /\ g[x] \in Int
  BY <1>1, IterType
<1>6. DOMAIN f = S /\ DOMAIN g = S
  OBVIOUS
<1>7. SumFunction(f) = it[S] /\ SumFunction(g) = jt[S]
  BY <1>1, <1>2, <1>6 DEF SumFunction
<1> QED
  BY <1>3, <1>4, <1>5, <1>7

LEMMA SumConstant ==
    ASSUME NEW S, IsFiniteSet(S), NEW c \in Int, NEW f, f = [x \in S |-> c]
    PROVE  SumFunction(f) = c * Cardinality(S)
<1>1. PICK it : Iterates(it, f, S) /\ SumFunctionOnSet(f, S) = it[S]
  BY SumIterates
<1> DEFINE G == {s \in SUBSET S : it[s] = c * Cardinality(s)}
<1>2. {} \in G /\ G \subseteq SUBSET S
  <2>1. it[{}] = 0
    BY <1>1 DEF Iterates, Adds
  <2> QED
    BY <2>1, FS_EmptySet
<1>3. ASSUME NEW s \in SUBSET S, s # {}, \A x \in s : s \ {x} \in G
      PROVE  s \in G
  <2>1. PICK y \in s : y = Pick(s)
    BY <1>3, PickIn
  <2>2. it[s] = f[y] + it[s \ {y}]
    BY <1>1, <1>3, <2>1 DEF Iterates, Adds
  <2>3. IsFiniteSet(s)
    BY FS_Subset
  <2>4. Cardinality(s \ {y}) = Cardinality(s) - 1 /\ Cardinality(s) \in Nat
    BY <2>3, FS_RemoveElement, FS_CardinalityType
  <2>5. PICK n \in Nat : n = Cardinality(s)
    BY <2>4
  <2>6. it[s \ {y}] = c * (n - 1) /\ f[y] = c
    BY <1>3, <2>4, <2>5
  <2>7. it[s] = c + c * (n - 1)
    BY <2>2, <2>6
  <2>8. c + c * (n - 1) = c * n
    OBVIOUS
  <2> QED
    BY <2>5, <2>7, <2>8
<1> HIDE DEF G
<1>4. \A s \in SUBSET S : s # {} /\ (\A x \in s : s \ {x} \in G) => s \in G
  BY <1>3
<1>5. G = SUBSET S
  BY <1>2, <1>4, SubsetInduction
<1>6. it[S] = c * Cardinality(S)
  BY <1>5 DEF G
<1>7. DOMAIN f = S
  OBVIOUS
<1> QED
  BY <1>1, <1>6, <1>7 DEF SumFunction

\* What leaves the entries of one ledger enters entries of another.
LEMMA SumMoves ==
    ASSUME NEW D, IsFiniteSet(D), NEW E, IsFiniteSet(E), NEW e \in [D -> E],
           \A x, y \in D : e[x] = e[y] => x = y,
           NEW f \in [D -> Int], NEW f2 \in [D -> Int], NEW g \in [E -> Int], NEW g2 \in [E -> Int],
           \A x \in D : f2[x] + g2[e[x]] = f[x] + g[e[x]],
           \A b \in E : (\A x \in D : e[x] # b) => g2[b] = g[b]
    PROVE  SumFunction(f2) + SumFunction(g2) = SumFunction(f) + SumFunction(g)
<1> DEFINE F(s) == [x \in D |-> IF x \in s THEN f2[x] ELSE f[x]]
           H(s) == [b \in E |-> IF \E x \in s : e[x] = b THEN g2[b] ELSE g[b]]
           G == {s \in SUBSET D : SumFunction(F(s)) + SumFunction(H(s)) = SumFunction(f) + SumFunction(g)}
<1>1. F({}) = f /\ F(D) = f2
  OBVIOUS
<1>2. H({}) = g /\ H(D) = g2
  OBVIOUS
<1>3. \A s \in SUBSET D : F(s) \in [D -> Int] /\ H(s) \in [E -> Int]
  OBVIOUS
<1>4. \A h \in [D -> Int] : SumFunction(h) \in Int
  BY SumType
<1>5. \A h \in [E -> Int] : SumFunction(h) \in Int
  BY SumType
<1>6. {} \in G /\ G \subseteq SUBSET D
  BY <1>1, <1>2
<1>7. ASSUME NEW s \in SUBSET D, s # {}, \A x \in s : s \ {x} \in G
      PROVE  s \in G
  <2>1. PICK x \in s : TRUE
    BY <1>7
  <2> DEFINE r == s \ {x}
  <2>2. r \in G /\ r \in SUBSET D /\ x \in D
    BY <1>7
  <2>3. F(s)[x] = f2[x] /\ F(r)[x] = f[x] /\ \A y \in D \ {x} : F(s)[y] = F(r)[y]
    OBVIOUS
  <2>4. /\ H(s)[e[x]] = g2[e[x]] /\ H(r)[e[x]] = g[e[x]]
        /\ \A b \in E \ {e[x]} : H(s)[b] = H(r)[b]
    <3>1. e[x] \in E /\ ~\E y \in r : e[y] = e[x]
      OBVIOUS
    <3>2. \A b \in E \ {e[x]} : (\E y \in s : e[y] = b) <=> (\E y \in r : e[y] = b)
      OBVIOUS
    <3> QED
      BY <3>1, <3>2
  <2>5. PICK fs \in [D -> Int], fr \in [D -> Int], hs \in [E -> Int], hr \in [E -> Int] :
             fs = F(s) /\ fr = F(r) /\ hs = H(s) /\ hr = H(r)
    BY <1>3, <2>2
  <2>6. SumFunction(fr) + SumFunction(hr) = SumFunction(f) + SumFunction(g)
    BY <2>2, <2>5
  <2> HIDE DEF r, F, H
  <2>7. SumFunction(fs) = SumFunction(fr) - f[x] + f2[x]
    <3>1. \A y \in D \ {x} : fs[y] = fr[y]
      BY <2>3, <2>5
    <3>2. SumFunction(fs) = SumFunction(fr) - fr[x] + fs[x]
      BY <2>2, <3>1, SumChanges
    <3> QED
      BY <2>3, <2>5, <3>2
  <2>8. SumFunction(hs) = SumFunction(hr) - g[e[x]] + g2[e[x]]
    <3>1. e[x] \in E /\ \A b \in E \ {e[x]} : hs[b] = hr[b]
      BY <2>2, <2>4, <2>5
    <3>2. SumFunction(hs) = SumFunction(hr) - hr[e[x]] + hs[e[x]]
      BY <3>1, SumChanges
    <3> QED
      BY <2>4, <2>5, <3>2
  <2>9. f2[x] + g2[e[x]] = f[x] + g[e[x]]
    BY <2>2
  <2>10. /\ SumFunction(fr) \in Int /\ SumFunction(hr) \in Int
         /\ f[x] \in Int /\ f2[x] \in Int /\ g[e[x]] \in Int /\ g2[e[x]] \in Int
    BY <1>4, <1>5, <2>2
  <2>11. SumFunction(fs) + SumFunction(hs) = SumFunction(fr) + SumFunction(hr)
    <3>1. PICK a \in Int, b \in Int, p \in Int, p2 \in Int, q \in Int, q2 \in Int :
               /\ a = SumFunction(fr) /\ b = SumFunction(hr)
               /\ p = f[x] /\ p2 = f2[x] /\ q = g[e[x]] /\ q2 = g2[e[x]]
      BY <2>10
    <3>2. SumFunction(fs) = a - p + p2 /\ SumFunction(hs) = b - q + q2 /\ p2 + q2 = p + q
      BY <2>7, <2>8, <2>9, <3>1
    <3>3. (a - p + p2) + (b - q + q2) = a + b
      BY <3>2
    <3> QED
      BY <3>1, <3>2, <3>3
  <2> QED
    BY <2>5, <2>6, <2>11
<1> HIDE DEF G
<1>8. \A s \in SUBSET D : s # {} /\ (\A x \in s : s \ {x} \in G) => s \in G
  BY <1>7
<1>9. G = SUBSET D
  BY <1>6, <1>8, SubsetInduction
<1>10. D \in G
  BY <1>9
<1> QED
  BY <1>1, <1>2, <1>10 DEF G

-----------------------------------------------------------------------------
(* The bonding contract owes what it owns.                                 *)

LEMMA LedgersFinite == IsFiniteSet(Operators) /\ IsFiniteSet(BondIds)
<1> DEFINE T == (Operators \X Holders) \X Refs
           f == [b \in BondIds |-> <<<<b[1], b[2]>>, b[3]>>]
<1>1. IsFiniteSet(Operators \X Holders)
  BY BondingAssumption, FS_Product
<1>2. IsFiniteSet(T)
  BY <1>1, BondingAssumption, FS_Product
<1>3. f \in [BondIds -> T]
  BY DEF BondIds
<1>4. \A a, b \in BondIds : f[a] = f[b] => a = b
  BY DEF BondIds
<1>5. f \in Injection(BondIds, T)
  BY <1>3, <1>4 DEF Injection, IsInjective
<1> HIDE DEF f, T
<1> QED
  BY <1>2, <1>5, FS_Injection, BondingAssumption

LEMMA LedgerSums ==
    ASSUME BondingTypeOK
    PROVE  /\ unbondedValue \in [Operators -> Int] /\ lockedBonds \in [BondIds -> Int]
           /\ SumFunction(unbondedValue) \in Int /\ SumFunction(lockedBonds) \in Int
<1>1. unbondedValue \in [Operators -> Int] /\ lockedBonds \in [BondIds -> Int]
  BY DEF BondingTypeOK
<1>2. SumFunction(unbondedValue) \in Int
  BY <1>1, LedgersFinite, SumType
<1>3. SumFunction(lockedBonds) \in Int
  BY <1>1, LedgersFinite, SumType
<1> QED
  BY <1>1, <1>2, <1>3

\* Wei enter or leave the contract with the unbonded value of an operator.
LEMMA UnbondedChanges ==
    ASSUME BondingTypeOK, BondingTypeOK', Solvency, NEW o \in Operators, NEW d \in Int,
           unbondedValue' = [unbondedValue EXCEPT ![o] = @ + d],
           balance' = balance + d, UNCHANGED lockedBonds
    PROVE  Solvency'
<1>1. PICK f \in [Operators -> Int] : f = unbondedValue /\ SumFunction(f) \in Int
  BY LedgerSums
<1>2. PICK g \in [Operators -> Int] : g = unbondedValue'
  <2>1. unbondedValue' \in [Operators -> Nat]
    BY DEF BondingTypeOK
  <2>2. unbondedValue' \in [Operators -> Int]
    BY <2>1
  <2> QED
    BY <2>2
<1>3. g[o] = f[o] + d /\ \A p \in Operators \ {o} : g[p] = f[p]
  BY <1>1, <1>2
<1>4. SumFunction(g) = SumFunction(f) - f[o] + g[o]
  BY <1>3, LedgersFinite, SumChanges
<1>5. PICK l \in Int : l = SumFunction(lockedBonds) /\ l = SumFunction(lockedBonds')
  BY LedgerSums
<1>6. f[o] \in Int
  BY <1>1
<1>7. SumFunction(g) = SumFunction(f) + d
  BY <1>1, <1>3, <1>4, <1>6
<1> QED
  BY <1>1, <1>2, <1>5, <1>7 DEF Solvency

\* Wei leave the contract with a part of a bond.
LEMMA BondChanges ==
    ASSUME BondingTypeOK, BondingTypeOK', Solvency, NEW b \in BondIds, NEW v \in Nat,
           lockedBonds' = [lockedBonds EXCEPT ![b] = @ - v],
           balance' = balance - v, UNCHANGED unbondedValue
    PROVE  Solvency'
<1>1. PICK f \in [BondIds -> Int] : f = lockedBonds /\ SumFunction(f) \in Int
  BY LedgerSums
<1>2. PICK g \in [BondIds -> Int] : g = lockedBonds'
  <2>1. lockedBonds' \in [BondIds -> Nat]
    BY DEF BondingTypeOK
  <2>2. lockedBonds' \in [BondIds -> Int]
    BY <2>1
  <2> QED
    BY <2>2
<1>3. g[b] = f[b] - v /\ \A c \in BondIds \ {b} : g[c] = f[c]
  BY <1>1, <1>2
<1>4. SumFunction(g) = SumFunction(f) - f[b] + g[b]
  BY <1>3, LedgersFinite, SumChanges
<1>5. PICK l \in Int : l = SumFunction(unbondedValue) /\ l = SumFunction(unbondedValue')
  BY LedgerSums
<1>6. f[b] \in Int
  BY <1>1
<1>7. SumFunction(g) = SumFunction(f) - v
  BY <1>1, <1>3, <1>4, <1>6
<1> QED
  BY <1>1, <1>2, <1>5, <1>7 DEF Solvency

\* Wei of operators are bonded or freed for one holder and reference.
LEMMA BondsMove ==
    ASSUME BondingTypeOK, BondingTypeOK', Solvency, NEW h \in Holders, NEW r \in Refs,
           \A o \in Operators : unbondedValue'[o] + lockedBonds'[<<o, h, r>>]
                                  = unbondedValue[o] + lockedBonds[<<o, h, r>>],
           \A b \in BondIds : ~(b[2] = h /\ b[3] = r) => lockedBonds'[b] = lockedBonds[b],
           UNCHANGED balance
    PROVE  Solvency'
<1> DEFINE e == [o \in Operators |-> <<o, h, r>>]
<1>1. e \in [Operators -> BondIds] /\ \A o, p \in Operators : e[o] = e[p] => o = p
  BY DEF BondIds
<1>2. \A o \in Operators : e[o] = <<o, h, r>>
  OBVIOUS
<1>3. \A b \in BondIds : (\A o \in Operators : e[o] # b) => ~(b[2] = h /\ b[3] = r)
  BY DEF BondIds
<1> HIDE DEF e
<1>4. PICK f \in [Operators -> Int], g \in [BondIds -> Int] :
           f = unbondedValue /\ g = lockedBonds
  BY LedgerSums
<1>5. PICK f2 \in [Operators -> Int], g2 \in [BondIds -> Int] :
           f2 = unbondedValue' /\ g2 = lockedBonds'
  BY DEF BondingTypeOK
<1>6. \A o \in Operators : f2[o] + g2[e[o]] = f[o] + g[e[o]]
  BY <1>2, <1>4, <1>5
<1>7. \A b \in BondIds : (\A o \in Operators : e[o] # b) => g2[b] = g[b]
  BY <1>3, <1>4, <1>5
<1>8. SumFunction(f2) + SumFunction(g2) = SumFunction(f) + SumFunction(g)
  BY <1>1, <1>6, <1>7, LedgersFinite, SumMoves
<1> QED
  BY <1>4, <1>5, <1>8 DEF Solvency

LEMMA BondReassigned ==
    ASSUME BondingTypeOK, BondingTypeOK', Solvency, NEW h \in Holders, NEW o \in Operators,
           NEW r \in Refs, NEW newHolder \in Holders, NEW newRef \in Refs,
           ReassignBond(h, o, r, newHolder, newRef)
    PROVE  Solvency'
<1>1. PICK a \in BondIds, b \in BondIds : a = <<o, h, r>> /\ b = <<o, newHolder, newRef>>
  BY DEF BondIds
<1>2. PICK f \in [BondIds -> Int] : f = lockedBonds /\ SumFunction(f) \in Int
  BY LedgerSums
<1>3. PICK g \in [BondIds -> Int] : g = lockedBonds'
  BY DEF BondingTypeOK
<1>4. f[a] > 0 /\ f[b] = 0 /\ a # b /\ f[a] \in Int
  BY <1>1, <1>2 DEF ReassignBond
<1>5. g = [f EXCEPT ![b] = f[a], ![a] = 0]
  BY <1>1, <1>2, <1>3 DEF ReassignBond
<1>6. PICK m \in [BondIds -> Int] : m = [f EXCEPT ![b] = f[a]]
  BY <1>4
<1>7. SumFunction(m) = SumFunction(f) - f[b] + m[b]
  <2>1. \A c \in BondIds \ {b} : m[c] = f[c]
    BY <1>6
  <2> QED
    BY <2>1, LedgersFinite, SumChanges
<1>8. SumFunction(g) = SumFunction(m) - m[a] + g[a]
  <2>1. \A c \in BondIds \ {a} : g[c] = m[c]
    BY <1>5, <1>6
  <2> QED
    BY <2>1, LedgersFinite, SumChanges
<1>9. m[b] = f[a] /\ m[a] = f[a] /\ g[a] = 0
  BY <1>4, <1>5, <1>6
<1>10. SumFunction(g) = SumFunction(f)
  BY <1>2, <1>4, <1>7, <1>8, <1>9
<1> QED
  BY <1>2, <1>3, <1>10 DEF Solvency, ReassignBond

LEMMA NoneSummed == ASSUME NEW S, IsFiniteSet(S) PROVE SumFunction([x \in S |-> 0]) = 0
<1>1. Cardinality(S) \in Nat
  BY FS_CardinalityType
<1>2. SumFunction([x \in S |-> 0]) = 0 * Cardinality(S)
  BY SumConstant
<1> QED
  BY <1>1, <1>2

LEMMA BondingStart == BondingInit => BondingTypeOK /\ Solvency
<1> SUFFICES ASSUME BondingInit PROVE BondingTypeOK /\ Solvency
  OBVIOUS
<1>1. BondingTypeOK
  BY BondingAssumption DEF BondingInit, BondingTypeOK
<1>2. SumFunction(unbondedValue) = 0
  BY LedgersFinite, NoneSummed DEF BondingInit
<1>3. SumFunction(lockedBonds) = 0
  BY LedgersFinite, NoneSummed DEF BondingInit
<1> QED
  BY <1>1, <1>2, <1>3 DEF BondingInit, Solvency

\* The calls of accounts, holders and creators keep the types.
LEMMA BondingTypes ==
    ASSUME BondingTypeOK, [BondingNext]_bondingVars
    PROVE  BondingTypeOK'
<1> USE BondingAssumption DEF BondingTypeOK
<1>1. ASSUME NEW a \in Accounts, NEW o \in Operators, NEW v \in Nat, Deposit(a, o, v)
      PROVE  BondingTypeOK'
  <2>1. wallet' \in [Accounts -> Nat]
    BY <1>1 DEF Deposit
  <2>2. unbondedValue' \in [Operators -> Nat]
    BY <1>1 DEF Deposit
  <2> QED
    BY <1>1, <2>1, <2>2 DEF Deposit
<1>2. ASSUME NEW a \in Accounts, NEW o \in Operators, NEW v \in Nat, Withdraw(a, o, v)
      PROVE  BondingTypeOK'
  <2>1. wallet' \in [Accounts -> Nat]
    BY <1>2 DEF Withdraw
  <2>2. unbondedValue' \in [Operators -> Nat]
    BY <1>2 DEF Withdraw
  <2>3. stack' \in Seq(Frames)
    BY <1>2 DEF Withdraw, Enter, Frames
  <2> QED
    BY <1>2, <2>1, <2>2, <2>3 DEF Withdraw
<1>3. ASSUME NEW c \in Creators, NEW o \in Operators, NEW h \in Holders, NEW r \in Refs,
             NEW v \in Nat, NEW p \in Pools, CreateBond(c, o, h, r, v, p)
      PROVE  BondingTypeOK'
  <2>1. v <= unbondedValue[o] \/ v = 0
    BY <1>3 DEF CreateBond, availableUnbondedValue
  <2>2. unbondedValue' \in [Operators -> Nat]
    <3>1. unbondedValue[o] - v \in Nat
      BY <2>1
    <3> QED
      BY <1>3, <3>1 DEF CreateBond
  <2>3. lockedBonds' \in [BondIds -> Nat]
    BY <1>3, AddAt DEF CreateBond
  <2> QED
    BY <1>3, <2>2, <2>3 DEF CreateBond
<1>4. ASSUME NEW o \in Operators, NEW h \in Holders, NEW g \in Holders, NEW r \in Refs,
             NEW q \in Refs, ReassignBond(h, o, r, g, q)
      PROVE  BondingTypeOK'
  <2>1. PICK a \in BondIds, b \in BondIds : a = <<o, h, r>> /\ b = <<o, g, q>>
    BY DEF BondIds
  <2>2. lockedBonds' = [lockedBonds EXCEPT ![b] = lockedBonds[a], ![a] = 0]
    BY <1>4, <2>1 DEF ReassignBond
  <2>3. lockedBonds' \in [BondIds -> Nat]
    BY <2>2
  <2> QED
    BY <1>4, <2>3 DEF ReassignBond
<1>5. ASSUME NEW o \in Operators, NEW h \in Holders, NEW r \in Refs, FreeBond(h, o, r)
      PROVE  BondingTypeOK'
  <2>1. PICK a \in BondIds : a = <<o, h, r>>
    BY DEF BondIds
  <2>2. lockedBonds' \in [BondIds -> Nat]
    BY <1>5, <2>1 DEF FreeBond
  <2>3. unbondedValue' \in [Operators -> Nat]
    BY <1>5, <2>1, AddAt DEF FreeBond
  <2> QED
    BY <1>5, <2>2, <2>3 DEF FreeBond
<1>6. ASSUME NEW o \in Operators, NEW h \in Holders, NEW r \in Refs, NEW v \in Nat,
             NEW d \in Accounts, SeizeBond(h, o, r, v, d)
      PROVE  BondingTypeOK'
  <2>1. PICK a \in BondIds : a = <<o, h, r>>
    BY DEF BondIds
  <2>2. lockedBonds' \in [BondIds -> Nat]
    BY <1>6, <2>1, SubAt DEF SeizeBond, SeizeBondEffect
  <2>3. wallet' \in [Accounts -> Nat]
    BY <1>6, AddAt DEF SeizeBond, SeizeBondEffect
  <2>4. stack' \in Seq(Frames)
    BY <1>6 DEF SeizeBond, Enter, Frames
  <2> QED
    BY <1>6, <2>2, <2>3, <2>4 DEF SeizeBond, SeizeBondEffect
<1>7. ASSUME NEW o \in Operators, NEW p \in Pools,
             AuthorizeSortitionPoolContract(o, p) \/ DeauthorizeSortitionPoolContract(o, p)
      PROVE  BondingTypeOK'
  <2>1. authorizedPools' \in [Operators -> SUBSET Pools]
    <3>1. CASE AuthorizeSortitionPoolContract(o, p)
      BY <3>1 DEF AuthorizeSortitionPoolContract
    <3>2. CASE DeauthorizeSortitionPoolContract(o, p)
      BY <3>2 DEF DeauthorizeSortitionPoolContract
    <3> QED
      BY <1>7, <3>1, <3>2
  <2> QED
    BY <1>7, <2>1 DEF AuthorizeSortitionPoolContract, DeauthorizeSortitionPoolContract
<1>8. ASSUME NEW o \in Operators, NEW S \in SUBSET Creators, SetOperatorContract(o, S)
      PROVE  BondingTypeOK'
  BY <1>8 DEF SetOperatorContract
<1>9. ASSUME Return
      PROVE  BondingTypeOK'
  BY <1>9 DEF Return
<1>10. CASE UNCHANGED bondingVars
  BY <1>10 DEF bondingVars
<1> QED
  BY <1>1, <1>2, <1>3, <1>4, <1>5, <1>6, <1>7, <1>8, <1>9, <1>10, AmountsType DEF BondingNext

\* Deposits and withdrawals.
LEMMA DepositSolvent ==
    ASSUME BondingTypeOK, BondingTypeOK', Solvency, NEW a \in Accounts, NEW o \in Operators,
           NEW v \in Nat, Deposit(a, o, v) \/ Withdraw(a, o, v)
    PROVE  Solvency'
<1>1. CASE Deposit(a, o, v)
  <2>1. v \in Int
    OBVIOUS
  <2> QED
    BY <1>1, <2>1, UnbondedChanges DEF Deposit
<1>2. CASE Withdraw(a, o, v)
  <2>1. PICK d \in Int : d = 0 - v
    OBVIOUS
  <2>2. balance' = balance + d
    BY <1>2, <2>1 DEF Withdraw, BondingTypeOK
  <2>3. unbondedValue[o] - v = unbondedValue[o] + d
    BY <2>1 DEF BondingTypeOK
  <2>4. unbondedValue' = [unbondedValue EXCEPT ![o] = @ + d]
    BY <1>2, <2>3 DEF Withdraw
  <2>5. UNCHANGED lockedBonds
    BY <1>2 DEF Withdraw
  <2> QED
    BY <2>2, <2>4, <2>5, UnbondedChanges
<1> QED
  BY <1>1, <1>2

\* Wei move between the unbonded value and a bond of an operator.
LEMMA OneBondMoves ==
    ASSUME BondingTypeOK, BondingTypeOK', Solvency, NEW o \in Operators,
           NEW h \in Holders, NEW r \in Refs, NEW b \in BondIds, b = <<o, h, r>>, NEW d \in Int,
           unbondedValue' = [unbondedValue EXCEPT ![o] = unbondedValue[o] - d],
           lockedBonds' = [lockedBonds EXCEPT ![b] = lockedBonds[b] + d], UNCHANGED balance
    PROVE  Solvency'
<1>1. \A x \in Operators : <<x, h, r>> \in BondIds /\ (<<x, h, r>> = b <=> x = o)
  BY DEF BondIds
<1>2. /\ unbondedValue'[o] = unbondedValue[o] - d /\ lockedBonds'[b] = lockedBonds[b] + d
      /\ \A x \in Operators \ {o} : unbondedValue'[x] = unbondedValue[x]
      /\ \A x \in BondIds \ {b} : lockedBonds'[x] = lockedBonds[x]
  BY DEF BondingTypeOK
<1>3. \A x \in Operators : unbondedValue'[x] + lockedBonds'[<<x, h, r>>]
                             = unbondedValue[x] + lockedBonds[<<x, h, r>>]
  <2> SUFFICES ASSUME NEW x \in Operators
               PROVE  unbondedValue'[x] + lockedBonds'[<<x, h, r>>]
                        = unbondedValue[x] + lockedBonds[<<x, h, r>>]
    OBVIOUS
  <2>1. CASE x # o
    BY <1>1, <1>2, <2>1
  <2>2. CASE x = o
    <3>1. unbondedValue[o] \in Int /\ lockedBonds[b] \in Int
      BY DEF BondingTypeOK
    <3> QED
      BY <1>2, <2>2, <3>1
  <2> QED
    BY <2>1, <2>2
<1>4. \A x \in BondIds : ~(x[2] = h /\ x[3] = r) => lockedBonds'[x] = lockedBonds[x]
  BY <1>2
<1> QED
  BY <1>3, <1>4, BondsMove

LEMMA CreatedSolvent ==
    ASSUME BondingTypeOK, BondingTypeOK', Solvency, NEW c \in Creators, NEW o \in Operators,
           NEW h \in Holders, NEW r \in Refs, NEW v \in Nat, NEW p \in Pools,
           CreateBond(c, o, h, r, v, p)
    PROVE  Solvency'
<1>1. PICK b \in BondIds : b = <<o, h, r>>
  BY DEF BondIds
<1>2. /\ unbondedValue' = [unbondedValue EXCEPT ![o] = unbondedValue[o] - v]
      /\ lockedBonds' = [lockedBonds EXCEPT ![b] = lockedBonds[b] + v] /\ UNCHANGED balance
  BY <1>1 DEF CreateBond
<1>3. v \in Int
  OBVIOUS
<1> QED
  BY <1>1, <1>2, <1>3, OneBondMoves

LEMMA FreedSolvent ==
    ASSUME BondingTypeOK, BondingTypeOK', Solvency, NEW o \in Operators,
           NEW h \in Holders, NEW r \in Refs, FreeBond(h, o, r)
    PROVE  Solvency'
<1>1. PICK b \in BondIds : b = <<o, h, r>>
  BY DEF BondIds
<1>2. PICK d \in Int : d = 0 - lockedBonds[b]
  BY DEF BondingTypeOK
<1>3. lockedBonds[b] + d = 0 /\ unbondedValue[o] + lockedBonds[b] = unbondedValue[o] - d
  BY <1>2 DEF BondingTypeOK
<1>4. /\ unbondedValue' = [unbondedValue EXCEPT ![o] = unbondedValue[o] + lockedBonds[b]]
      /\ lockedBonds' = [lockedBonds EXCEPT ![b] = 0] /\ UNCHANGED balance
  BY <1>1 DEF FreeBond
<1> QED
  BY <1>1, <1>3, <1>4, OneBondMoves

LEMMA SeizedSolvent ==
    ASSUME BondingTypeOK, BondingTypeOK', Solvency, NEW o \in Operators, NEW h \in Holders,
           NEW r \in Refs, NEW v \in Nat, NEW d, SeizeBondEffect(h, o, r, v, d)
    PROVE  Solvency'
<1>1. PICK b \in BondIds : b = <<o, h, r>>
  BY DEF BondIds
<1> QED
  BY <1>1, BondChanges DEF SeizeBondEffect

LEMMA BondingStep ==
    ASSUME BondingTypeOK, Solvency, [BondingNext]_bondingVars
    PROVE  BondingTypeOK' /\ Solvency'
<1>1. BondingTypeOK'
  BY BondingTypes
<1>2. ASSUME UNCHANGED <<balance, unbondedValue, lockedBonds>>
      PROVE  Solvency'
  BY <1>2 DEF Solvency
<1>3. ASSUME NEW o \in Operators, NEW p \in Pools,
             AuthorizeSortitionPoolContract(o, p) \/ DeauthorizeSortitionPoolContract(o, p)
      PROVE  Solvency'
  BY <1>2, <1>3 DEF AuthorizeSortitionPoolContract, DeauthorizeSortitionPoolContract
<1>4. ASSUME NEW o \in Operators, NEW S \in SUBSET Creators, SetOperatorContract(o, S)
      PROVE  Solvency'
  BY <1>2, <1>4 DEF SetOperatorContract
<1>5. CASE Return \/ UNCHANGED bondingVars
  <2>1. UNCHANGED <<balance, unbondedValue, lockedBonds>>
    BY <1>5 DEF Return, bondingVars
  <2> QED
    BY <1>1, <2>1 DEF Solvency
<1>6. ASSUME NEW o \in Operators, NEW h \in Holders, NEW r \in Refs, FreeBond(h, o, r)
      PROVE  Solvency'
  BY <1>1, <1>6, FreedSolvent
<1>7. ASSUME NEW o \in Operators, NEW h \in Holders, NEW r \in Refs, NEW v \in Nat,
             NEW d \in Accounts, SeizeBond(h, o, r, v, d)
      PROVE  Solvency'
  BY <1>1, <1>7, SeizedSolvent DEF SeizeBond
<1>8. ASSUME NEW c \in Creators, NEW o \in Operators, NEW h \in Holders, NEW r \in Refs,
             NEW v \in Nat, NEW p \in Pools, CreateBond(c, o, h, r, v, p)
      PROVE  Solvency'
  BY <1>1, <1>8, CreatedSolvent
<1> QED
  BY <1>1, <1>3, <1>4, <1>5, <1>6, <1>7, <1>8, DepositSolvent, BondReassigned, AmountsType
     DEF BondingNext

\* With any holders and creators, any amounts and any nesting of calls from the
\* code of receivers, the bonding contract owns exactly the wei it owes.
THEOREM BondsAreSolvent == BondingSpec => []Solvency
<1>1. BondingInit => BondingTypeOK /\ Solvency
  BY BondingStart
<1>2. (BondingTypeOK /\ Solvency) /\ [BondingNext]_bondingVars => (BondingTypeOK /\ Solvency)'
  BY BondingStep
<1> QED
  BY <1>1, <1>2, PTL DEF BondingSpec

-----------------------------------------------------------------------------
(* Keeps and the factory owe what they own.                                *)

\* A keep that was opened has members, all of them different.
LEMMA GroupIs ==
    ASSUME IInv, NEW k \in Keeps, status[k] # "None"
    PROVE  /\ memberCount(k) \in Nat \ {0}
           /\ members[k] \in [1..memberCount(k) -> Operators]
           /\ \A i, j \in 1..memberCount(k) : members[k][i] = members[k][j] => i = j
<1>1. members[k] \in Seq(Operators)
  BY DEF IInv, TypeOK, KeepTypeOK
<1>2. memberCount(k) \in Nat /\ members[k] \in [1..memberCount(k) -> Operators]
  BY <1>1 DEF memberCount
<1>3. status[k] \in {"Active", "Closed", "Terminated"}
  BY DEF IInv, TypeOK, KeepTypeOK
<1>4. memberCount(k) > 0
  BY <1>3 DEF IInv, KeepInv, Backed, Released, Seized
<1>5. \A i, j \in 1..memberCount(k) : members[k][i] = members[k][j] => i = j
  BY DEF IInv, KeepInv, Distinct
<1> QED
  BY <1>2, <1>4, <1>5

\* Nothing is lost when wei are split between n members: the last one takes
\* what the division leaves.
LEMMA PotsSum ==
    ASSUME NEW n \in Nat \ {0}, NEW v \in Nat, NEW pots,
           pots = [i \in 1..n |-> IF i = n THEN (v \div n) + (v % n) ELSE v \div n]
    PROVE  pots \in [1..n -> Int] /\ SumFunction(pots) = v
<1>1. PICK q \in Nat, r \in Nat : q = v \div n /\ r = v % n /\ v = q * n + r
  BY SMT
<1> DEFINE I == 1..n
           c == [i \in I |-> q]
<1>2. IsFiniteSet(I) /\ Cardinality(I) = n
  BY FS_Interval
<1>3. c \in [I -> Int] /\ \A i \in I : c[i] = q
  OBVIOUS
<1>4. SumFunction(c) = q * n
  <2>1. q \in Int
    OBVIOUS
  <2> HIDE DEF I
  <2>2. SumFunction(c) = q * Cardinality(I)
    BY <1>2, <2>1, SumConstant
  <2> QED
    BY <1>2, <2>2
<1>5. pots \in [I -> Int] /\ n \in I
  BY <1>1
<1>6. pots[n] = q + r /\ c[n] = q /\ \A i \in I \ {n} : pots[i] = c[i]
  BY <1>1, <1>3, <1>5
<1>7. SumFunction(pots) = SumFunction(c) - c[n] + pots[n]
  <2>1. PICK J : J = I
    OBVIOUS
  <2>2. PICK d \in [J -> Int], p \in [J -> Int], x \in J : d = c /\ p = pots /\ x = n
    BY <1>3, <1>5, <2>1
  <2>3. IsFiniteSet(J) /\ \A i \in J \ {x} : p[i] = d[i]
    BY <1>2, <1>6, <2>1, <2>2
  <2>4. SumFunction(p) = SumFunction(d) - d[x] + p[x]
    BY <2>3, SumChanges
  <2> QED
    BY <2>2, <2>4
<1>8. PICK m \in Int : m = q * n
  BY <1>1
<1> HIDE DEF c
<1>9. SumFunction(pots) = m - q + (q + r) /\ v = m + r
  BY <1>1, <1>4, <1>6, <1>7, <1>8
<1> QED
  BY <1>1, <1>5, <1>9

\* Different members are paid from pots.
LEMMA SumPaid ==
    ASSUME NEW I, IsFiniteSet(I), NEW S, IsFiniteSet(S), NEW m \in [I -> S],
           \A i, j \in I : m[i] = m[j] => i = j, NEW pots \in [I -> Int],
           NEW f \in [S -> Int], NEW g \in [S -> Int],
           \A i \in I : g[m[i]] = f[m[i]] + pots[i],
           \A x \in S : (\A i \in I : m[i] # x) => g[x] = f[x]
    PROVE  SumFunction(g) = SumFunction(f) + SumFunction(pots)
<1>1. PICK zero \in [I -> Int] : zero = [i \in I |-> 0]
  <2>1. [i \in I |-> 0] \in [I -> Int]
    OBVIOUS
  <2> QED
    BY <2>1
<1>2. \A i \in I : zero[i] + g[m[i]] = pots[i] + f[m[i]]
  <2> SUFFICES ASSUME NEW i \in I PROVE zero[i] + g[m[i]] = pots[i] + f[m[i]]
    OBVIOUS
  <2>1. zero[i] = 0 /\ f[m[i]] \in Int /\ pots[i] \in Int /\ g[m[i]] = f[m[i]] + pots[i]
    BY <1>1
  <2> QED
    BY <2>1
<1>3. SumFunction(zero) + SumFunction(g) = SumFunction(pots) + SumFunction(f)
  BY <1>2, SumMoves
<1>4. SumFunction(zero) = 0
  BY <1>1, NoneSummed
<1>5. SumFunction(f) \in Int /\ SumFunction(g) \in Int
  BY SumType
<1>6. SumFunction(pots) \in Int
  BY SumType
<1> QED
  BY <1>3, <1>4, <1>5, <1>6

\* What the members of a keep are paid adds up to what is split between them.
LEMMA SharesAdd ==
    ASSUME IInv, NEW k \in Keeps, status[k] # "None", NEW v \in Nat,
           NEW f \in [Operators -> Int], NEW g \in [Operators -> Int],
           \A o \in Operators : g[o] = IF IsMember(k, o) THEN f[o] + ShareOf(k, v, o) ELSE f[o]
    PROVE  SumFunction(g) = SumFunction(f) + v
<1>1. PICK n \in Nat \ {0} : n = memberCount(k)
  BY GroupIs
<1>2. PICK I : I = 1..n /\ n \in I
  OBVIOUS
<1>3. PICK m \in [I -> Operators] :
           m = members[k] /\ \A i, j \in I : m[i] = m[j] => i = j
  BY <1>1, <1>2, GroupIs
<1>4. PICK h : h = [i \in 1..n |-> IF i = n THEN (v \div n) + (v % n) ELSE v \div n]
  OBVIOUS
<1>5. h \in [1..n -> Int] /\ SumFunction(h) = v
  BY <1>4, PotsSum
<1>6. PICK pots \in [I -> Int] : pots = h
  BY <1>2, <1>5
<1>7. ASSUME NEW i \in I
      PROVE  g[m[i]] = f[m[i]] + pots[i]
  <2>1. m[i] \in Operators /\ IsMember(k, m[i])
    BY <1>1, <1>2, <1>3 DEF IsMember
  <2>2. m[i] = m[n] <=> i = n
    BY <1>2, <1>3
  <2>3. ShareOf(k, v, m[i]) = IF m[i] = m[n] THEN (v \div n) + (v % n) ELSE v \div n
    BY <1>1, <1>3 DEF ShareOf
  <2>4. g[m[i]] = f[m[i]] + ShareOf(k, v, m[i])
    BY <2>1
  <2>5. pots[i] = IF i = n THEN (v \div n) + (v % n) ELSE v \div n
    BY <1>2, <1>4, <1>6
  <2> QED
    BY <2>2, <2>3, <2>4, <2>5
<1>8. \A o \in Operators : (\A i \in I : m[i] # o) => g[o] = f[o]
  BY <1>1, <1>2, <1>3 DEF IsMember
<1>9. IsFiniteSet(I) /\ IsFiniteSet(Operators)
  BY <1>2, FS_Interval, LedgersFinite
<1>10. \A i, j \in I : m[i] = m[j] => i = j
  BY <1>3
<1>11. SumFunction(g) = SumFunction(f) + SumFunction(pots)
  BY ONLY <1>7, <1>8, <1>9, <1>10, SumPaid, m \in [I -> Operators], pots \in [I -> Int],
          f \in [Operators -> Int], g \in [Operators -> Int]
<1> QED
  BY <1>5, <1>6, <1>11

\* A keep owns the rewards its members have not withdrawn.
OwesRewards(k) == keepBalance[k] = SumFunction(memberETHBalances[k])

LEMMA RewardTypes ==
    ASSUME IInv, NEW k \in Keeps
    PROVE  /\ memberETHBalances[k] \in [Operators -> Int]
           /\ SumFunction(memberETHBalances[k]) \in Int
<1>1. memberETHBalances[k] \in [Operators -> Nat]
  BY DEF IInv, TypeOK, KeepTypeOK
<1>2. PICK f \in [Operators -> Int] : f = memberETHBalances[k]
  BY <1>1
<1>3. SumFunction(f) \in Int
  BY LedgersFinite, SumType
<1> QED
  BY <1>2, <1>3

LEMMA RewardDistributed ==
    ASSUME IInv, IInv', \A j \in Keeps : OwesRewards(j),
           NEW a \in Accounts, NEW k \in Keeps, NEW v \in Nat, DistributeETHReward(a, k, v)
    PROVE  \A j \in Keeps : OwesRewards(j)'
<1>1. /\ memberETHBalances \in [Keeps -> [Operators -> Nat]]
      /\ keepBalance \in [Keeps -> Int]
  BY DEF IInv, TypeOK, KeepTypeOK
<1>2. /\ keepBalance'[k] = keepBalance[k] + v
      /\ \A j \in Keeps \ {k} : /\ keepBalance'[j] = keepBalance[j]
                                /\ memberETHBalances'[j] = memberETHBalances[j]
  BY <1>1 DEF DistributeETHReward
<1>3. \A o \in Operators :
        memberETHBalances'[k][o] = IF IsMember(k, o)
                                   THEN memberETHBalances[k][o] + ShareOf(k, v, o)
                                   ELSE memberETHBalances[k][o]
  BY <1>1 DEF DistributeETHReward
<1>4. memberETHBalances'[k] \in [Operators -> Nat]
  BY DEF IInv, TypeOK, KeepTypeOK
<1>5. PICK f \in [Operators -> Int], g \in [Operators -> Int] :
          f = memberETHBalances[k] /\ g = memberETHBalances'[k]
  BY <1>1, <1>4
<1>6. status[k] # "None"
  BY DEF DistributeETHReward
<1>7. \A o \in Operators : g[o] = IF IsMember(k, o) THEN f[o] + ShareOf(k, v, o) ELSE f[o]
  BY <1>3, <1>5
<1>8. SumFunction(g) = SumFunction(f) + v
  BY <1>6, <1>7, SharesAdd
<1> QED
  BY <1>2, <1>5, <1>8 DEF OwesRewards

LEMMA RewardWithdrawn ==
    ASSUME IInv, IInv', \A j \in Keeps : OwesRewards(j),
           NEW a \in Accounts, NEW k \in Keeps, NEW o \in Operators, WithdrawReward(a, k, o)
    PROVE  \A j \in Keeps : OwesRewards(j)'
<1>1. /\ memberETHBalances \in [Keeps -> [Operators -> Nat]]
      /\ keepBalance \in [Keeps -> Int]
  BY DEF IInv, TypeOK, KeepTypeOK
<1>2. /\ keepBalance'[k] = keepBalance[k] - memberETHBalances[k][o]
      /\ \A j \in Keeps \ {k} : /\ keepBalance'[j] = keepBalance[j]
                                /\ memberETHBalances'[j] = memberETHBalances[j]
  BY <1>1 DEF WithdrawReward
<1>3. /\ memberETHBalances'[k][o] = 0
      /\ \A p \in Operators \ {o} : memberETHBalances'[k][p] = memberETHBalances[k][p]
  BY <1>1 DEF WithdrawReward
<1>4. memberETHBalances'[k] \in [Operators -> Nat]
  BY DEF IInv, TypeOK, KeepTypeOK
<1>5. PICK f \in [Operators -> Int], g \in [Operators -> Int] :
          f = memberETHBalances[k] /\ g = memberETHBalances'[k]
  BY <1>1, <1>4
<1>6. \A p \in Operators \ {o} : g[p] = f[p]
  BY <1>3, <1>5
<1>7. SumFunction(g) = SumFunction(f) - f[o] + g[o]
  BY <1>6, LedgersFinite, SumChanges
<1>8. SumFunction(f) \in Int /\ f[o] \in Int /\ g[o] = 0
  BY <1>3, <1>5, RewardTypes
<1>9. SumFunction(g) = SumFunction(f) - f[o]
  BY <1>7, <1>8
<1> QED
  BY <1>2, <1>5, <1>9 DEF OwesRewards

\* No other call touches the rewards.
LEMMA RewardsKept ==
    ASSUME [Next]_vars,
           \A a \in Accounts, k \in Keeps, v \in Amounts : ~DistributeETHReward(a, k, v),
           \A a \in Accounts, k \in Keeps, o \in Operators : ~WithdrawReward(a, k, o)
    PROVE  UNCHANGED rewardVars
<1>1. CASE OpenNext
  BY <1>1 DEF OpenNext, OpenKeep, rewardVars
<1>2. CASE ReseedNext
  BY <1>2 DEF ReseedNext, ReceiveFunds, RequestNewGroupSelectionSeed, keepVars, rewardVars
<1>3. CASE BondNext
  BY <1>3 DEF BondNext, keepVars, rewardVars
<1>4. CASE KeepNext
  BY <1>4 DEF KeepNext, SubmitPublicKey, Sign, GroupSigns, SubmitSignature,
     SubmitSignatureFraud, ReturnPartialSignerBonds, CloseKeep, SeizeSignerBonds,
     ReturnToKeep, NextBlock, keepVars, rewardVars
<1>5. CASE UNCHANGED vars
  BY <1>5 DEF vars, keepVars, rewardVars
<1> QED
  BY <1>1, <1>2, <1>3, <1>4, <1>5 DEF Next

LEMMA FactoryStep ==
    ASSUME IInv, factoryBalance = reseedPool, [Next]_vars
    PROVE  factoryBalance' = reseedPool'
<1>1. CASE OpenNext
  BY <1>1 DEF OpenNext, OpenKeep
<1>2. CASE ReseedNext
  BY <1>2 DEF ReseedNext, ReceiveFunds, RequestNewGroupSelectionSeed
<1>3. CASE BondNext
  BY <1>3 DEF BondNext, factoryVars
<1>4. CASE KeepNext
  BY <1>4 DEF KeepNext, factoryVars
<1>5. CASE UNCHANGED vars
  BY <1>5 DEF vars
<1> QED
  BY <1>1, <1>2, <1>3, <1>4, <1>5 DEF Next

LEMMA RewardsStep == IInv /\ RewardsSolvency /\ [Next]_vars => RewardsSolvency'
<1> SUFFICES ASSUME IInv, RewardsSolvency, [Next]_vars
             PROVE  RewardsSolvency'
  OBVIOUS
<1>1. IInv'
  BY InvStep
<1>2. \A j \in Keeps : OwesRewards(j)
  BY DEF RewardsSolvency, OwesRewards
<1>3. factoryBalance' = reseedPool'
  BY FactoryStep DEF RewardsSolvency
<1>4. \A j \in Keeps : OwesRewards(j)'
  <2>1. ASSUME NEW a \in Accounts, NEW k \in Keeps, NEW v \in Amounts,
               DistributeETHReward(a, k, v)
        PROVE  \A j \in Keeps : OwesRewards(j)'
    BY <1>1, <1>2, <2>1, AmountsType, RewardDistributed
  <2>2. ASSUME NEW a \in Accounts, NEW k \in Keeps, NEW o \in Operators,
               WithdrawReward(a, k, o)
        PROVE  \A j \in Keeps : OwesRewards(j)'
    BY <1>1, <1>2, <2>2, RewardWithdrawn
  <2>3. CASE UNCHANGED rewardVars
    BY <1>2, <2>3 DEF OwesRewards, rewardVars
  <2> QED
    BY <2>1, <2>2, <2>3, RewardsKept
<1> QED
  BY <1>3, <1>4 DEF RewardsSolvency, OwesRewards

\* However rewards are split, paid and withdrawn, also from code that a payment
\* runs, a keep owns what it owes its members and the factory its reseed pool.
THEOREM RewardsAreSolvent == Spec => []RewardsSolvency
<1>1. Init => IInv /\ RewardsSolvency
  <2> SUFFICES ASSUME Init PROVE IInv /\ RewardsSolvency
    OBVIOUS
  <2>1. \A k \in Keeps : /\ keepBalance[k] = 0
                         /\ memberETHBalances[k] = [o \in Operators |-> 0]
    BY DEF Init, KeepInit
  <2>2. SumFunction([o \in Operators |-> 0]) = 0
    BY LedgersFinite, NoneSummed
  <2>3. factoryBalance = reseedPool
    BY DEF Init
  <2> QED
    BY <2>1, <2>2, <2>3, InvInit DEF RewardsSolvency
<1>2. (IInv /\ RewardsSolvency) /\ [Next]_vars => (IInv /\ RewardsSolvency)'
  BY InvStep, RewardsStep
<1> QED
  BY <1>1, <1>2, PTL DEF Spec

-----------------------------------------------------------------------------
(* The bonding contract owes what it owns when keeps hold the bonds: their *)
(* loops over the members move the wei of a whole group in one call.       *)

LEMMA OpenSolvent ==
    ASSUME IInv, IInv', Solvency, NEW a, NEW k \in Keeps, NEW n \in GroupSizes, NEW own,
           NEW bond \in BondRequests, NEW v, NEW g, NEW beaconOk,
           OpenKeep(a, k, n, own, bond, v, g, beaconOk)
    PROVE  Solvency'
<1>1. BondingTypeOK /\ BondingTypeOK' /\ k \in Holders /\ k \in Refs
  BY KeepAssumption DEF IInv, TypeOK, Keeps
<1>2. PICK c \in Nat : c = bondPerMember(bond, n)
  <2>1. bond \in Nat /\ n \in Nat \ {0}
    BY FactoryAssumption DEF OpenKeep
  <2> QED
    BY <2>1, BondPerMemberType
<1>3. PICK S : S = BondedMembers(g, n)
  OBVIOUS
<1>4. /\ unbondedValue' = [o \in Operators |-> IF o \in S THEN unbondedValue[o] - c
                                               ELSE unbondedValue[o]]
      /\ lockedBonds' = [b \in BondIds |-> IF b[2] = k /\ b[3] = k /\ b[1] \in S
                                           THEN lockedBonds[b] + c ELSE lockedBonds[b]]
      /\ UNCHANGED balance
  BY <1>2, <1>3 DEF OpenKeep
<1>5. \A o \in Operators : unbondedValue'[o] + lockedBonds'[<<o, k, k>>]
                             = unbondedValue[o] + lockedBonds[<<o, k, k>>]
  <2> SUFFICES ASSUME NEW o \in Operators
               PROVE  unbondedValue'[o] + lockedBonds'[<<o, k, k>>]
                        = unbondedValue[o] + lockedBonds[<<o, k, k>>]
    OBVIOUS
  <2>1. <<o, k, k>> \in Operators \X Holders \X Refs
    BY <1>1
  <2>2. PICK b \in BondIds : b = <<o, k, k>>
    BY <2>1 DEF BondIds
  <2>3. b[1] = o /\ b[2] = k /\ b[3] = k
    BY <2>2
  <2>4. unbondedValue[o] \in Int /\ lockedBonds[b] \in Int
    BY <1>1 DEF BondingTypeOK
  <2>5. /\ unbondedValue'[o] = IF o \in S THEN unbondedValue[o] - c ELSE unbondedValue[o]
        /\ lockedBonds'[b] = IF o \in S THEN lockedBonds[b] + c ELSE lockedBonds[b]
    BY <1>4, <2>2, <2>3
  <2> QED
    BY <2>2, <2>4, <2>5
<1>6. \A b \in BondIds : ~(b[2] = k /\ b[3] = k) => lockedBonds'[b] = lockedBonds[b]
  BY <1>4
<1> QED
  BY <1>1, <1>4, <1>5, <1>6, BondsMove

LEMMA CloseSolvent ==
    ASSUME IInv, IInv', Solvency, NEW a, NEW k \in Keeps, CloseKeep(a, k)
    PROVE  Solvency'
<1>1. BondingTypeOK /\ BondingTypeOK' /\ k \in Holders /\ k \in Refs
  BY KeepAssumption DEF IInv, TypeOK, Keeps
<1>2. PICK S : S = {o \in Operators : IsMember(k, o)}
  OBVIOUS
<1>3. /\ unbondedValue' = [o \in Operators |-> IF o \in S
                                               THEN unbondedValue[o] + lockedBonds[<<o, k, k>>]
                                               ELSE unbondedValue[o]]
      /\ lockedBonds' = [b \in BondIds |-> IF b[2] = k /\ b[3] = k /\ b[1] \in S
                                           THEN 0 ELSE lockedBonds[b]]
      /\ UNCHANGED balance
  <2>1. \A o \in Operators : IsMember(k, o) <=> o \in S
    BY <1>2
  <2>2. \A b \in BondIds : b[1] \in Operators
    BY DEF BondIds
  <2> QED
    BY <2>1, <2>2 DEF CloseKeep, bondAmount
<1>4. \A o \in Operators : unbondedValue'[o] + lockedBonds'[<<o, k, k>>]
                             = unbondedValue[o] + lockedBonds[<<o, k, k>>]
  <2> SUFFICES ASSUME NEW o \in Operators
               PROVE  unbondedValue'[o] + lockedBonds'[<<o, k, k>>]
                        = unbondedValue[o] + lockedBonds[<<o, k, k>>]
    OBVIOUS
  <2>1. <<o, k, k>> \in Operators \X Holders \X Refs
    BY <1>1
  <2>2. PICK b \in BondIds : b = <<o, k, k>>
    BY <2>1 DEF BondIds
  <2>3. b[1] = o /\ b[2] = k /\ b[3] = k
    BY <2>2
  <2>4. unbondedValue[o] \in Int /\ lockedBonds[b] \in Int
    BY <1>1 DEF BondingTypeOK
  <2>5. /\ unbondedValue'[o] = IF o \in S THEN unbondedValue[o] + lockedBonds[b]
                               ELSE unbondedValue[o]
        /\ lockedBonds'[b] = IF o \in S THEN 0 ELSE lockedBonds[b]
    BY <1>3, <2>2, <2>3
  <2> QED
    BY <2>2, <2>4, <2>5
<1>5. \A b \in BondIds : ~(b[2] = k /\ b[3] = k) => lockedBonds'[b] = lockedBonds[b]
  BY <1>3
<1> QED
  BY <1>1, <1>3, <1>4, <1>5, BondsMove

LEMMA PartialReturnSolvent ==
    ASSUME IInv, IInv', Solvency, NEW a \in Accounts, NEW k \in Keeps, NEW v \in Nat,
           ReturnPartialSignerBonds(a, k, v)
    PROVE  Solvency'
<1>1. BondingTypeOK /\ BondingTypeOK'
  BY DEF IInv, TypeOK
<1>2. PICK f \in [Operators -> Int] : f = unbondedValue /\ SumFunction(f) \in Int
  BY <1>1, LedgerSums
<1>3. PICK g \in [Operators -> Int] : g = unbondedValue'
  <2>1. unbondedValue' \in [Operators -> Nat]
    BY <1>1 DEF BondingTypeOK
  <2>2. unbondedValue' \in [Operators -> Int]
    BY <2>1
  <2> QED
    BY <2>2
<1>4. \A o \in Operators : g[o] = IF IsMember(k, o) THEN f[o] + ShareOf(k, v, o) ELSE f[o]
  BY <1>2, <1>3 DEF ReturnPartialSignerBonds
<1>5. status[k] # "None" /\ balance' = balance + v /\ lockedBonds' = lockedBonds
  BY DEF ReturnPartialSignerBonds
<1>6. SumFunction(g) = SumFunction(f) + v
  BY <1>4, <1>5, SharesAdd
<1>7. PICK l \in Int : l = SumFunction(lockedBonds) /\ l = SumFunction(lockedBonds')
  BY <1>1, <1>5, LedgerSums
<1> QED
  BY <1>2, <1>3, <1>5, <1>6, <1>7 DEF Solvency

LEMMA SeizeSolvent ==
    ASSUME IInv, IInv', Solvency, NEW k \in Keeps, SeizeMemberBond(k),
           status[k] \in {"Active", "Terminated"}
    PROVE  Solvency'
<1>1. BondingTypeOK /\ BondingTypeOK' /\ k \in Holders /\ k \in Refs
  BY KeepAssumption DEF IInv, TypeOK, Keeps
<1>2. seizeNext[k] \in 1..memberCount(k)
  <2>1. memberCount(k) \in Nat /\ memberCount(k) > 0
    BY GroupIs
  <2>2. seizeNext[k] \in Nat /\ seizeNext[k] >= 1
    BY <2>1 DEF IInv, KeepInv, Backed, Seized
  <2>3. seizeNext[k] <= memberCount(k)
    BY DEF SeizeMemberBond
  <2> QED
    BY <2>1, <2>2, <2>3
<1>3. members[k][seizeNext[k]] \in Operators
  BY <1>2, GroupIs
<1>4. PICK o \in Operators : o = members[k][seizeNext[k]]
  BY <1>3
<1>5. PICK b \in BondIds : b = <<o, k, k>>
  BY <1>1 DEF BondIds
<1>6. PICK v \in Nat : v = lockedBonds[b]
  BY <1>1 DEF BondingTypeOK
<1>7. SeizeBondEffect(k, o, k, v, owner[k])
  BY <1>4, <1>5, <1>6 DEF SeizeMemberBond, bondAmount
<1> QED
  BY <1>1, <1>7, SeizedSolvent

LEMMA ReturnSolvent ==
    ASSUME IInv, IInv', Solvency, ReturnToKeep
    PROVE  Solvency'
<1>1. PICK k : k = Head(stack).resume
  OBVIOUS
<1>2. CASE k # NoHolder /\ seizeNext[k] <= memberCount(k)
  <2>1. SeizeMemberBond(k)
    BY <1>1, <1>2 DEF ReturnToKeep
  <2>2. stack # << >> /\ stack \in Seq(Frames) /\ Head(stack) = stack[1] /\ 1 \in 1..Len(stack)
    BY DEF ReturnToKeep, IInv, TypeOK, BondingTypeOK
  <2>3. k \in Keeps
    BY <1>1, <1>2, <2>2, ResumeType DEF IInv
  <2>4. status[k] = "Terminated"
    BY <1>1, <1>2, <2>2 DEF IInv, StackInv
  <2> QED
    BY <2>1, <2>3, <2>4, SeizeSolvent
<1>3. CASE ~(k # NoHolder /\ seizeNext[k] <= memberCount(k))
  <2>1. UNCHANGED <<balance, unbondedValue, lockedBonds>>
    BY <1>1, <1>3 DEF ReturnToKeep, Return
  <2> QED
    BY <2>1 DEF Solvency
<1> QED
  BY <1>2, <1>3

LEMMA SystemStep == IInv /\ Solvency /\ [Next]_vars => Solvency'
<1> SUFFICES ASSUME IInv, Solvency, [Next]_vars
             PROVE  Solvency'
  OBVIOUS
<1>1. IInv'
  BY InvStep
<1>2. BondingTypeOK /\ BondingTypeOK'
  BY <1>1 DEF IInv, TypeOK
<1>3. ASSUME UNCHANGED <<balance, unbondedValue, lockedBonds>>
      PROVE  Solvency'
  BY <1>3 DEF Solvency
<1>4. CASE OpenNext
  BY <1>1, <1>4, OpenSolvent DEF OpenNext
<1>5. CASE ReseedNext
  <2>1. UNCHANGED <<balance, unbondedValue, lockedBonds>>
    BY <1>5 DEF ReseedNext, ReceiveFunds, RequestNewGroupSelectionSeed
  <2> QED
    BY <1>3, <2>1
<1>6. CASE BondNext
  <2>1. ASSUME NEW a \in Accounts, NEW o \in Operators, NEW v \in Amounts,
               Deposit(a, o, v) \/ Withdraw(a, o, v)
        PROVE  Solvency'
    <3>1. v \in Nat
      BY AmountsType
    <3> QED
      BY <1>2, <2>1, <3>1, DepositSolvent
  <2>2. ASSUME NEW o \in Operators, NEW p \in Pools,
               AuthorizeSortitionPoolContract(o, p) \/ DeauthorizeSortitionPoolContract(o, p)
        PROVE  Solvency'
    BY <1>3, <2>2 DEF AuthorizeSortitionPoolContract, DeauthorizeSortitionPoolContract
  <2> QED
    BY <1>6, <2>1, <2>2 DEF BondNext
<1>7. CASE KeepNext
  <2>1. ASSUME NEW a \in Accounts, NEW k \in Keeps, NEW v \in Amounts,
               ReturnPartialSignerBonds(a, k, v)
        PROVE  Solvency'
    BY <1>1, <2>1, AmountsType, PartialReturnSolvent
  <2>2. ASSUME NEW a \in Accounts, NEW k \in Keeps, CloseKeep(a, k)
        PROVE  Solvency'
    BY <1>1, <2>2, CloseSolvent
  <2>3. ASSUME NEW a \in Accounts, NEW k \in Keeps, SeizeSignerBonds(a, k)
        PROVE  Solvency'
    BY <1>1, <2>3, SeizeSolvent DEF SeizeSignerBonds, isActive
  <2>4. CASE ReturnToKeep
    BY <1>1, <2>4, ReturnSolvent
  <2>5. ASSUME NEW o \in Operators, NEW k \in Keeps, NEW key \in Keys,
               SubmitPublicKey(o, k, key)
        PROVE  Solvency'
    BY <1>3, <2>5 DEF SubmitPublicKey, bondingVars
  <2>6. ASSUME NEW a \in Accounts, NEW k \in Keeps, NEW d \in Digests, Sign(a, k, d)
        PROVE  Solvency'
    BY <1>3, <2>6 DEF Sign, bondingVars
  <2>7. ASSUME NEW o \in Operators, NEW k \in Keeps, SubmitSignature(o, k)
        PROVE  Solvency'
    BY <1>3, <2>7 DEF SubmitSignature, bondingVars
  <2>8. ASSUME NEW k \in Keeps, NEW d \in Digests, NEW s \in BOOLEAN,
               SubmitSignatureFraud(k, d, s)
        PROVE  Solvency'
    BY <1>3, <2>8 DEF SubmitSignatureFraud, bondingVars
  <2>9. ASSUME NEW a \in Accounts, NEW k \in Keeps, NEW v \in Amounts,
               DistributeETHReward(a, k, v)
        PROVE  Solvency'
    BY <1>3, <2>9 DEF DistributeETHReward
  <2>10. ASSUME NEW a \in Accounts, NEW k \in Keeps, NEW o \in Operators,
                WithdrawReward(a, k, o)
         PROVE  Solvency'
    BY <1>3, <2>10 DEF WithdrawReward
  <2>11. CASE NextBlock
    BY <1>3, <2>11 DEF NextBlock, bondingVars
  <2>12. ASSUME NEW k \in Keeps, NEW d \in Digests, GroupSigns(k, d)
         PROVE  Solvency'
    BY <1>3, <2>12 DEF GroupSigns, bondingVars
  <2> QED
    BY <1>7, <2>1, <2>2, <2>3, <2>4, <2>5, <2>6, <2>7, <2>8, <2>9, <2>10, <2>11, <2>12
       DEF KeepNext
<1>8. CASE UNCHANGED vars
  <2>1. UNCHANGED <<balance, unbondedValue, lockedBonds>>
    BY <1>8 DEF vars, bondingVars
  <2> QED
    BY <1>3, <2>1
<1> QED
  BY <1>4, <1>5, <1>6, <1>7, <1>8 DEF Next

\* The factory and its keeps keep the bonding contract solvent: opening, closing
\* and seizing for a whole group moves exactly the wei of its members.
THEOREM KeepsAreSolvent == Spec => []Solvency
<1>1. Init => IInv /\ Solvency
  BY InvInit, BondingStart DEF Init
<1>2. (IInv /\ Solvency) /\ [Next]_vars => (IInv /\ Solvency)'
  BY InvStep, SystemStep
<1> QED
  BY <1>1, <1>2, PTL DEF Spec
=============================================================================
