----------------------- MODULE ContractBindingProofs -----------------------
(***************************************************************************)
(* Proofs about the transactions of the generated bindings: one call is    *)
(* mined at most once whatever is lost, resubmitted or retried, and while  *)
(* nothing is lost concurrent calls of one account do not get in each      *)
(* other's way.                                                            *)
(*                                                                         *)
(* The invariant says which nonce a transaction has (the one its caller    *)
(* took in that attempt), that nonces grow along the chain and, as long as *)
(* nothing has failed, that the pool holds exactly the nonces from the one *)
(* of the account up to the one the manager hands out next.                *)
(***************************************************************************)
EXTENDS BondedECDSAKeepFactoryBinding, FiniteSetTheorems,
        WellFoundedInduction, TLAPS

\* Wei and gas that calls may ask for.
Amounts ==
    {0} \cup {s.calls[g].value : s \in Scenarios, g \in Callers}
        \cup {s.calls[g].gas : s \in Scenarios, g \in Callers}

Txs ==
    [caller : Callers \cup {NoCaller}, try : Nat, nonce : Nat,
     value : Amounts, gas : Amounts, price : Nat]

AccountTypes ==
    /\ scenario \in Scenarios
    /\ binding \in [value : Amounts, gas : Amounts]
    /\ mutex \in Callers \cup {NoCaller}
    /\ pc \in [Callers -> {"start", "locked", "submit", "sent", "failed", "refused"}]
    /\ nonce \in [Callers -> Nat] /\ tries \in [Callers -> Nat]
    /\ manager \in [local : Nat, trusted : BOOLEAN]
    /\ waiter \in [Callers -> {"none", "forcing", "finished", "gaveUp"}]
    /\ pool \subseteq Txs /\ IsFiniteSet(pool)
    /\ chain \in Seq(Txs)
    /\ faults \in Nat

Blocks == 1..Len(chain)
MinedTxs == {chain[b] : b \in {c \in Blocks : chain[c] # NoTx}}
AllTxs == pool \cup MinedTxs

\* A transaction of the current attempt of its caller has the nonce the caller took.
TxOK(t) ==
    /\ t.caller \in Callers
    /\ t.try <= tries[t.caller]
    /\ t.try = tries[t.caller] =>
          pc[t.caller] \in {"sent", "failed"} /\ t.nonce = nonce[t.caller]

NonceInv ==
    /\ \A g \in Callers : waiter[g] = "forcing" => pc[g] = "sent"
    /\ \A t \in AllTxs : TxOK(t)
    /\ \A t, u \in AllTxs : t.caller = u.caller /\ t.try = u.try => t.nonce = u.nonce

ChainInv ==
    /\ \A b \in Blocks : chain[b] # NoTx => chain[b].nonce < AccountNonce
    /\ \A b, c \in Blocks : b < c /\ chain[b] # NoTx /\ chain[c] # NoTx
                               => chain[b].nonce < chain[c].nonce

MutexInv == \A g \in Callers : pc[g] \in {"locked", "submit"} <=> mutex = g

\* The nonce after the ones of the account and of the pool.
NextNonce == AccountNonce + Cardinality(pool)

PoolInv ==
    /\ \A t, u \in pool : t.nonce = u.nonce => t = u
    /\ \A t \in pool : AccountNonce <= t.nonce /\ t.nonce < NextNonce
    /\ \A n \in AccountNonce..(NextNonce - 1) : \E t \in pool : t.nonce = n

ManagerInv ==
    /\ manager.trusted => manager.local = NextNonce
    /\ \A g \in Callers : pc[g] = "submit" => manager.trusted /\ nonce[g] = NextNonce

Own(t, g) == t.caller = g /\ t.try = tries[g] /\ t.nonce = nonce[g]

SentInv ==
    \A g \in Callers :
        /\ pc[g] # "failed"
        /\ pc[g] = "sent" => (\E t \in pool : Own(t, g)) \/ Mined(g, tries[g])

Orderly == PoolInv /\ ManagerInv /\ SentInv

BindingInv ==
    /\ AccountTypes
    /\ NonceInv
    /\ ChainInv
    /\ MutexInv
    /\ faults = 0 => Orderly

----------------------------------------------------------------------------
(* Facts about the account, the chain and the pool. *)

LEMMA AccountNonceNat ==
    ASSUME chain \in Seq(Txs)
    PROVE  /\ AccountNonce \in Nat /\ Len(chain) \in Nat
           /\ IsFiniteSet({b \in 1..Len(chain) : chain[b] # NoTx})
<1>1. Len(chain) \in Nat /\ IsFiniteSet(1..Len(chain))
  BY FS_Interval
<1>2. IsFiniteSet({b \in 1..Len(chain) : chain[b] # NoTx})
  BY <1>1, FS_Subset
<1> QED
  BY <1>1, <1>2, FS_CardinalityType DEF AccountNonce

LEMMA AppendTx ==
    ASSUME chain \in Seq(Txs), NEW tx \in Txs, chain' = Append(chain, tx)
    PROVE  /\ chain' \in Seq(Txs) /\ Len(chain') = Len(chain) + 1
           /\ \A b \in 1..Len(chain) : chain'[b] = chain[b]
           /\ chain'[Len(chain) + 1] = tx
           /\ AccountNonce' = IF tx = NoTx THEN AccountNonce ELSE AccountNonce + 1
<1>1. /\ chain' \in Seq(Txs) /\ Len(chain') = Len(chain) + 1 /\ Len(chain) \in Nat
      /\ \A b \in 1..Len(chain) : chain'[b] = chain[b]
      /\ chain'[Len(chain) + 1] = tx
  OBVIOUS
<1> DEFINE old == {b \in 1..Len(chain) : chain[b] # NoTx}
           new == {b \in 1..Len(chain') : chain'[b] # NoTx}
           last == Len(chain) + 1
<1>2. IsFiniteSet(old) /\ last \notin old
  BY <1>1, AccountNonceNat
<1>3. \A b : b \in 1..Len(chain') <=> b \in 1..Len(chain) \/ b = last
  BY <1>1
<1>4. CASE tx = NoTx
  <2>1. new = old
    BY <1>1, <1>3, <1>4
  <2> QED
    BY <1>1, <1>4, <2>1 DEF AccountNonce
<1>5. CASE tx # NoTx
  <2>1. new = old \cup {last}
    BY <1>1, <1>3, <1>5
  <2>2. Cardinality(new) = Cardinality(old) + 1
    BY <1>2, <2>1, FS_AddElement
  <2> QED
    BY <1>1, <1>5, <2>2 DEF AccountNonce
<1> QED
  BY <1>4, <1>5

LEMMA NoTxIs == NoTx.caller = NoCaller /\ NoTx \in Txs
<1>1. 0 \in Amounts /\ 0 \in Nat
  BY DEF Amounts
<1> QED
  BY <1>1 DEF NoTx, Txs

\* The nonce the host reports is the one after the pool's.
LEMMA PendingIs ==
    ASSUME AccountTypes, PoolInv
    PROVE  PendingNonce = NextNonce /\ NextNonce \in Nat /\ AccountNonce <= NextNonce
<1>1. AccountNonce \in Nat /\ Cardinality(pool) \in Nat
  BY AccountNonceNat, FS_CardinalityType DEF AccountTypes
<1>2. PICK a \in Nat : a = AccountNonce
  BY <1>1
<1>3. PICK z \in Nat : z = NextNonce /\ a <= z
  BY <1>1, <1>2 DEF NextNonce
<1> DEFINE Free(n) == /\ \A t \in pool : t.nonce # n
                      /\ \A m \in a..(n - 1) : \E t \in pool : t.nonce = m
<1>4. \A t \in pool : t.nonce \in Nat /\ a <= t.nonce /\ t.nonce < z
  BY <1>2, <1>3 DEF PoolInv, AccountTypes, Txs
<1>5. Free(z) /\ z \in a..z
  BY <1>2, <1>3, <1>4 DEF PoolInv
<1>6. \A n \in a..z : Free(n) => n = z
  <2> SUFFICES ASSUME NEW n \in a..z, Free(n), n # z PROVE FALSE
    OBVIOUS
  <2>1. n \in a..(z - 1)
    BY <1>2, <1>3
  <2>2. \E t \in pool : t.nonce = n
    BY <1>2, <1>3, <2>1 DEF PoolInv
  <2> QED
    BY <2>2
<1>7. PendingNonce = CHOOSE n \in a..z : Free(n)
  BY <1>2, <1>3 DEF PendingNonce, NextNonce
<1> HIDE DEF Free
<1>8. (CHOOSE n \in a..z : Free(n)) = z
  BY <1>5, <1>6
<1> QED
  BY <1>2, <1>3, <1>7, <1>8

LEMMA CurrentIs ==
    ASSUME AccountTypes, PoolInv, ManagerInv
    PROVE  CurrentNonce = {NextNonce}
<1>1. PICK z \in Nat : z = NextNonce /\ PendingNonce = z /\ AccountNonce \in Nat /\ AccountNonce <= z
  BY PendingIs, AccountNonceNat DEF AccountTypes
<1>2. CASE ~manager.trusted
  BY <1>1, <1>2 DEF CurrentNonce
<1>3. CASE manager.trusted
  <2>1. manager.local = z
    BY <1>1, <1>3 DEF ManagerInv
  <2>2. CurrentNonce = {IF seen < z THEN z ELSE seen : seen \in AccountNonce..z}
    BY <1>1, <1>3, <2>1 DEF CurrentNonce
  <2>3. \A seen \in AccountNonce..z : (IF seen < z THEN z ELSE seen) = z
    BY <1>1
  <2>4. z \in AccountNonce..z
    BY <1>1
  <2> QED
    BY <1>1, <2>2, <2>3, <2>4
<1> QED
  BY <1>2, <1>3

\* Sets of numbers have a least one.
LEMMA LessThan == OpToRel(<, Nat) = {ss \in Nat \X Nat : ss[1] < ss[2]}
BY Zenon DEF OpToRel

LEMMA LeastNumber ==
    ASSUME NEW T, T \subseteq Nat, T # {}
    PROVE  \E x \in T : \A y \in T : x <= y
<1> DEFINE R == {ss \in Nat \X Nat : ss[1] < ss[2]}
<1>1. IsWellFoundedOn(R, Nat)
  BY NatLessThanWellFounded, LessThan, Zenon
<1> HIDE DEF R
<1>2. PICK x \in T : \A y \in T : ~(<<y, x>> \in R)
  BY <1>1, WFMin
<1>3. ASSUME NEW y \in T PROVE x <= y
  <2>1. x \in Nat /\ y \in Nat
    OBVIOUS
  <2>2. y < x => <<y, x>> \in R
    BY <2>1 DEF R
  <2>3. ~(y < x)
    BY <1>2, <2>2
  <2> QED
    BY <2>1, <2>3
<1> QED
  BY <1>3

\* Some nonce is free whatever the pool holds, and the host reports the first one.
LEMMA PendingNat ==
    ASSUME AccountTypes
    PROVE  PendingNonce \in Nat /\ AccountNonce \in Nat
<1>1. PICK a \in Nat : a = AccountNonce
  BY AccountNonceNat DEF AccountTypes
<1>2. PICK c \in Nat : c = Cardinality(pool)
  BY FS_CardinalityType DEF AccountTypes
<1> DEFINE window == a..(a + c)
           T == {n \in Nat : n >= a /\ \A t \in pool : t.nonce # n}
<1>3. \E n \in window : n \in T
  <2> SUFFICES ASSUME \A n \in window : \E t \in pool : t.nonce = n PROVE FALSE
    BY <1>1, <1>2
  <2> DEFINE f == [n \in window |-> CHOOSE t \in pool : t.nonce = n]
  <2>1. f \in [window -> pool] /\ \A n \in window : f[n].nonce = n
    OBVIOUS
  <2> HIDE DEF f
  <2>2. IsFiniteSet(window) /\ Cardinality(window) = c + 1
    <3>1. a \in Int /\ a + c \in Int /\ ~(a > a + c) /\ a + c - a + 1 = c + 1
      BY <1>1, <1>2
    <3> QED
      BY <3>1, FS_Interval
  <2>3. Cardinality(pool) < Cardinality(window)
    BY <1>2, <2>2
  <2>4. \E x, y \in window : x # y /\ f[x] = f[y]
    <3>1. IsFiniteSet(pool) /\ IsFiniteSet(window) /\ f \in [window -> pool]
      BY <2>1, <2>2 DEF AccountTypes
    <3> HIDE DEF window
    <3> QED
      BY <2>3, <3>1, FS_PigeonHole
  <2> QED
    BY <2>1, <2>4
<1>4. PICK z \in T : \A y \in T : z <= y
  BY <1>3, LeastNumber
<1>5. z \in window
  BY <1>1, <1>2, <1>3, <1>4
<1> DEFINE Free(n) == /\ \A t \in pool : t.nonce # n
                      /\ \A m \in a..(n - 1) : \E t \in pool : t.nonce = m
<1>6. Free(z)
  BY <1>1, <1>2, <1>4
<1>7. PendingNonce = CHOOSE n \in window : Free(n)
  BY <1>1, <1>2 DEF PendingNonce
<1> HIDE DEF Free
<1>8. (CHOOSE n \in window : Free(n)) \in window
  BY <1>5, <1>6
<1> QED
  BY <1>1, <1>2, <1>7, <1>8

LEMMA CurrentNat ==
    ASSUME AccountTypes, NEW n \in CurrentNonce
    PROVE  n \in Nat
<1>1. PendingNonce \in Nat /\ AccountNonce \in Nat
  BY PendingNat
<1>2. manager.local \in Nat
  BY DEF AccountTypes
<1>3. CASE manager.trusted
  <2>1. PICK seen \in AccountNonce..PendingNonce :
             n = IF seen < manager.local THEN manager.local ELSE seen
    BY <1>3 DEF CurrentNonce
  <2> QED
    BY <1>1, <1>2, <2>1
<1>4. CASE ~manager.trusted
  BY <1>1, <1>4 DEF CurrentNonce
<1> QED
  BY <1>3, <1>4

----------------------------------------------------------------------------
(* What the steps are. *)

\* Every method and every event runs the code of the template.
LEMMA StepKinds ==
    ASSUME BindingNext
    PROVE  \/ \E g \in Callers : /\ LockMutex(g) \/ TakeNonce(g) \/ SubmitTransaction(g)
                                 /\ UNCHANGED scenario
           \/ UNCHANGED <<scenario, senders, host>> /\ (Fault \/ NoFault)
           \/ \E g \in Callers : withRetry(g) \/ ForceMining(g)
           \/ NonceExpires \/ DropTransaction \/ Mine \/ MineEmpty
<1>1. ASSUME NEW event, NEW filters, Pipe(event, filters)
      PROVE  UNCHANGED <<scenario, senders, host>> /\ (Fault \/ NoFault)
  BY <1>1 DEF Pipe, Tick, PushFetched, CallHandler, Unsubscribe, StopReceiver
<1>2. ASSUME NEW event, Watch(event)
      PROVE  UNCHANGED <<scenario, senders, host>> /\ (Fault \/ NoFault)
  BY <1>2 DEF Watch, PushStreamed, StreamFails, Resubscribe
<1>3. ASSUME NEW g \in Callers, NEW method, NEW payable, Transact(g, method, payable)
      PROVE  \E c \in Callers : /\ LockMutex(c) \/ TakeNonce(c) \/ SubmitTransaction(c)
                                /\ UNCHANGED scenario
  BY <1>3 DEF Transact
<1>4. CASE Environment
  BY <1>4 DEF Environment
<1>5. CASE KeepBindingNext
  BY <1>1, <1>2, <1>3, <1>5
     DEF KeepBindingNext, CloseKeep, DistributeERC20Reward, DistributeETHReward,
         InitializeKeep, ReturnPartialSignerBonds, SeizeSignerBonds, Sign, SubmitPublicKey,
         SubmitSignature, SubmitSignatureFraud, Withdraw, ConflictingPublicKeySubmitted,
         watchConflictingPublicKeySubmitted, ERC20RewardDistributed,
         watchERC20RewardDistributed, ETHRewardDistributed, watchETHRewardDistributed,
         KeepClosed, watchKeepClosed, KeepTerminated, watchKeepTerminated,
         PublicKeyPublished, watchPublicKeyPublished, SignatureRequested,
         watchSignatureRequested, SignatureSubmitted, watchSignatureSubmitted,
         SlashingFailed, watchSlashingFailed
<1>6. CASE FactoryBindingNext
  BY <1>1, <1>2, <1>3, <1>6
     DEF FactoryBindingNext, BeaconCallback, CreateSortitionPool, IsRecognized, OpenKeep,
         RegisterMemberCandidate, RequestNewGroupSelectionSeed, SetMinimumBondableValue,
         UpdateOperatorStatus, CompleteFactoryUpgrade, InitializeVendor, UpgradeFactory,
         BondedECDSAKeepCreated, watchBondedECDSAKeepCreated, SortitionPoolCreated,
         watchSortitionPoolCreated, FactoryUpgradeCompleted, watchFactoryUpgradeCompleted,
         FactoryUpgradeStarted, watchFactoryUpgradeStarted
<1> QED
  BY <1>4, <1>5, <1>6 DEF BindingNext

----------------------------------------------------------------------------
(* Steps that leave the account alone. *)

LEMMA BindingInitInv == BindingInit => BindingInv
<1> SUFFICES ASSUME BindingInit PROVE BindingInv
  OBVIOUS
<1>1. chain = <<>> /\ pool = {} /\ Len(chain) = 0 /\ chain \in Seq(Txs) /\ AllTxs = {}
  BY DEF BindingInit, AllTxs, MinedTxs, Blocks
<1>2. AccountTypes
  <2>1. 0 \in Amounts
    BY DEF Amounts
  <2>2. IsFiniteSet(pool)
    BY <1>1, FS_EmptySet
  <2>3. manager \in [local : Nat, trusted : BOOLEAN]
    BY DEF BindingInit
  <2> QED
    BY <1>1, <2>1, <2>2, <2>3 DEF BindingInit, AccountTypes
<1>3. NonceInv /\ ChainInv
  BY <1>1 DEF BindingInit, NonceInv, ChainInv, Blocks
<1>4. MutexInv
  BY BindingAssumption DEF BindingInit, MutexInv
<1>5. NextNonce = AccountNonce /\ AccountNonce \in Nat
  BY <1>1, FS_EmptySet, AccountNonceNat DEF NextNonce
<1>6. Orderly
  BY <1>1, <1>5 DEF Orderly, PoolInv, ManagerInv, SentInv, BindingInit
<1> QED
  BY <1>2, <1>3, <1>4, <1>6 DEF BindingInv

LEMMA FaultsAre ==
    ASSUME faults \in Nat, Fault \/ NoFault
    PROVE  /\ faults' \in Nat
           /\ faults' = 0 => faults = 0 /\ ~Fault
BY DEF Fault, NoFault

LEMMA AccountFrame ==
    ASSUME BindingInv, faults' \in Nat, faults' = 0 => faults = 0,
           UNCHANGED <<scenario, binding, mutex, pc, nonce, tries, manager, waiter, pool, chain>>
    PROVE  BindingInv'
<1>1. AccountTypes'
  BY DEF BindingInv, AccountTypes
<1>2. AllTxs' = AllTxs /\ Blocks' = Blocks /\ AccountNonce' = AccountNonce
      /\ NextNonce' = NextNonce
  BY DEF AllTxs, MinedTxs, Blocks, AccountNonce, NextNonce
<1>3. NonceInv' /\ ChainInv' /\ MutexInv'
  BY <1>2 DEF BindingInv, NonceInv, TxOK, ChainInv, MutexInv
<1>4. Orderly' <=> Orderly
  BY <1>2 DEF Orderly, PoolInv, ManagerInv, SentInv, Own, Mined
<1> QED
  BY <1>1, <1>3, <1>4 DEF BindingInv

LEMMA TxsTyped ==
    ASSUME AccountTypes
    PROVE  AllTxs \subseteq Txs
<1>1. \A b \in 1..Len(chain) : chain[b] \in Txs
  BY DEF AccountTypes
<1> QED
  BY <1>1 DEF AccountTypes, AllTxs, MinedTxs, Blocks

\* A caller without a transaction in its attempt may change its nonce.
LEMMA NoncePcFrame ==
    ASSUME NonceInv, UNCHANGED <<tries, waiter, pool, chain>>,
           NEW g \in Callers, pc[g] \notin {"sent", "failed"},
           \A h \in Callers \ {g} : pc'[h] = pc[h] /\ nonce'[h] = nonce[h]
    PROVE  NonceInv'
<1>1. AllTxs' = AllTxs
  BY DEF AllTxs, MinedTxs, Blocks
<1>2. \A t \in AllTxs : TxOK(t)'
  BY DEF NonceInv, TxOK
<1>3. \A h \in Callers : waiter'[h] = "forcing" => pc'[h] = "sent"
  BY DEF NonceInv
<1> QED
  BY <1>1, <1>2, <1>3 DEF NonceInv

LEMMA LockInv ==
    ASSUME BindingInv, NEW g \in Callers, LockMutex(g), UNCHANGED scenario
    PROVE  BindingInv'
<1>1. /\ pc[g] = "start" /\ mutex = NoCaller /\ mutex' = g
      /\ pc' = [pc EXCEPT ![g] = "locked"] /\ faults' = faults
      /\ UNCHANGED <<scenario, binding, nonce, tries, manager, waiter, pool, chain>>
  BY DEF LockMutex, NoFault, host
<1>2. pc'[g] = "locked" /\ \A h \in Callers \ {g} : pc'[h] = pc[h]
  BY <1>1 DEF BindingInv, AccountTypes
<1>3. AccountTypes'
  BY <1>1 DEF BindingInv, AccountTypes
<1>4. NonceInv'
  BY <1>1, <1>2, NoncePcFrame DEF BindingInv
<1>5. ChainInv' /\ MutexInv'
  BY <1>1, <1>2, BindingAssumption DEF BindingInv, ChainInv, MutexInv, Blocks, AccountNonce
<1>6. NextNonce' = NextNonce /\ AccountNonce' = AccountNonce
  BY <1>1 DEF NextNonce, AccountNonce
<1>7. PoolInv => PoolInv'
  BY <1>1, <1>6 DEF PoolInv
<1>8. ManagerInv => ManagerInv'
  BY <1>1, <1>2, <1>6 DEF ManagerInv
<1>9. SentInv => SentInv'
  BY <1>1, <1>2 DEF SentInv, Own, Mined
<1> QED
  BY <1>1, <1>3, <1>4, <1>5, <1>7, <1>8, <1>9 DEF BindingInv, Orderly

LEMMA TakeNonceInv ==
    ASSUME BindingInv, NEW g \in Callers, TakeNonce(g), UNCHANGED scenario
    PROVE  BindingInv'
<1>1. /\ pc[g] = "locked" /\ mutex = g /\ (Fault \/ NoFault)
      /\ UNCHANGED <<scenario, binding, tries, waiter, pool, chain>>
  BY DEF TakeNonce, host, BindingInv, MutexInv
<1>2. faults' \in Nat /\ (faults' = 0 => faults = 0 /\ ~Fault)
  BY <1>1, FaultsAre DEF BindingInv, AccountTypes
<1>3. CASE \E result \in {"refused", "failed"} :
             /\ Return(g, result) /\ UNCHANGED <<nonce, manager>>
             /\ result = "failed" => Fault
  <2>1. PICK result \in {"refused", "failed"} :
             /\ pc' = [pc EXCEPT ![g] = result] /\ mutex' = NoCaller /\ UNCHANGED <<nonce, manager>>
             /\ result = "failed" => Fault
    BY <1>3 DEF Return
  <2>2. pc'[g] = result /\ \A h \in Callers \ {g} : pc'[h] = pc[h]
    BY <2>1 DEF BindingInv, AccountTypes
  <2>3. AccountTypes'
    BY <1>1, <1>2, <2>1 DEF BindingInv, AccountTypes
  <2>4. NonceInv'
    BY <1>1, <2>1, <2>2, NoncePcFrame DEF BindingInv
  <2>5. ChainInv' /\ MutexInv'
    BY <1>1, <2>1, <2>2, BindingAssumption
       DEF BindingInv, ChainInv, MutexInv, Blocks, AccountNonce
  <2>6. Orderly /\ ~Fault => Orderly'
    BY <1>1, <2>1, <2>2
       DEF Orderly, PoolInv, ManagerInv, SentInv, Own, Mined, NextNonce, AccountNonce
  <2> QED
    BY <1>2, <2>3, <2>4, <2>5, <2>6 DEF BindingInv
<1>4. CASE \E n \in CurrentNonce :
             /\ nonce' = [nonce EXCEPT ![g] = n]
             /\ manager' = [local |-> n, trusted |-> TRUE]
             /\ pc' = [pc EXCEPT ![g] = "submit"]
             /\ NoFault /\ UNCHANGED mutex
  <2>1. PICK n \in CurrentNonce :
             /\ nonce' = [nonce EXCEPT ![g] = n]
             /\ manager' = [local |-> n, trusted |-> TRUE]
             /\ pc' = [pc EXCEPT ![g] = "submit"]
             /\ faults' = faults /\ UNCHANGED mutex
    BY <1>4 DEF NoFault
  <2>2. n \in Nat /\ (Orderly => n = NextNonce)
    BY CurrentNat, CurrentIs, <2>1 DEF BindingInv, Orderly
  <2>3. /\ pc'[g] = "submit" /\ nonce'[g] = n
        /\ \A h \in Callers \ {g} : pc'[h] = pc[h] /\ nonce'[h] = nonce[h]
    BY <2>1 DEF BindingInv, AccountTypes
  <2>4. AccountTypes'
    <3>1. nonce' \in [Callers -> Nat] /\ manager' \in [local : Nat, trusted : BOOLEAN]
      BY <2>1, <2>2 DEF BindingInv, AccountTypes
    <3>2. pc' \in [Callers -> {"start", "locked", "submit", "sent", "failed", "refused"}]
      BY <2>1 DEF BindingInv, AccountTypes
    <3> QED
      BY <1>1, <1>2, <2>1, <3>1, <3>2 DEF BindingInv, AccountTypes
  <2>5. NonceInv'
    BY <1>1, <2>3, NoncePcFrame DEF BindingInv
  <2>6. ChainInv' /\ MutexInv'
    BY <1>1, <2>1, <2>3 DEF BindingInv, ChainInv, MutexInv, Blocks, AccountNonce
  <2>7. NextNonce' = NextNonce /\ AccountNonce' = AccountNonce
    BY <1>1 DEF NextNonce, AccountNonce
  <2>8. ASSUME Orderly PROVE Orderly'
    <3>1. PoolInv'
      BY <1>1, <2>7, <2>8 DEF Orderly, PoolInv
    <3>2. manager'.trusted /\ manager'.local = n
      BY <2>1
    <3>3. \A h \in Callers \ {g} : pc[h] # "submit"
      BY <1>1 DEF BindingInv, MutexInv
    <3>4. ManagerInv'
      BY <2>2, <2>3, <2>7, <2>8, <3>2, <3>3 DEF ManagerInv
    <3>5. SentInv'
      BY <1>1, <2>3, <2>8 DEF Orderly, SentInv, Own, Mined
    <3> QED
      BY <3>1, <3>4, <3>5 DEF Orderly
  <2> QED
    BY <1>2, <2>4, <2>5, <2>6, <2>8 DEF BindingInv
<1> QED
  BY <1>3, <1>4 DEF TakeNonce

LEMMA RetryInv ==
    ASSUME BindingInv, NEW g \in Callers, withRetry(g)
    PROVE  BindingInv'
<1>1. /\ pc[g] = "failed"
      /\ tries' = [tries EXCEPT ![g] = @ + 1] /\ pc' = [pc EXCEPT ![g] = "start"]
      /\ UNCHANGED <<scenario, binding, mutex, nonce, manager, waiter, pool, chain, faults>>
  BY DEF withRetry, host
<1>2. /\ pc'[g] = "start" /\ tries'[g] = tries[g] + 1
      /\ \A h \in Callers \ {g} : pc'[h] = pc[h] /\ tries'[h] = tries[h]
  BY <1>1 DEF BindingInv, AccountTypes
<1>3. AccountTypes'
  <2>1. tries' \in [Callers -> Nat]
    BY <1>1 DEF BindingInv, AccountTypes
  <2>2. pc' \in [Callers -> {"start", "locked", "submit", "sent", "failed", "refused"}]
    BY <1>1 DEF BindingInv, AccountTypes
  <2> QED
    BY <1>1, <2>1, <2>2 DEF BindingInv, AccountTypes
<1>4. NonceInv'
  <2>1. AllTxs' = AllTxs
    BY <1>1 DEF AllTxs, MinedTxs, Blocks
  <2>2. ASSUME NEW t \in AllTxs PROVE TxOK(t)'
    <3>1. t \in Txs /\ TxOK(t)
      BY TxsTyped DEF BindingInv, NonceInv
    <3>2. t.try \in Nat /\ tries[g] \in Nat
      BY <3>1 DEF Txs, BindingInv, AccountTypes
    <3> QED
      BY <1>1, <1>2, <3>1, <3>2 DEF TxOK
  <2>3. \A h \in Callers : waiter'[h] = "forcing" => pc'[h] = "sent"
    BY <1>1, <1>2 DEF BindingInv, NonceInv
  <2> QED
    BY <2>1, <2>2, <2>3 DEF BindingInv, NonceInv
<1>5. ChainInv' /\ MutexInv'
  BY <1>1, <1>2 DEF BindingInv, ChainInv, MutexInv, Blocks, AccountNonce
<1>6. ~Orderly
  BY <1>1 DEF Orderly, SentInv
<1> QED
  BY <1>1, <1>3, <1>4, <1>5, <1>6 DEF BindingInv

LEMMA ExpiresInv ==
    ASSUME BindingInv, NonceExpires
    PROVE  BindingInv'
<1>1. /\ mutex = NoCaller /\ manager' = [manager EXCEPT !.trusted = FALSE]
      /\ UNCHANGED <<scenario, binding, mutex, pc, nonce, tries, waiter, pool, chain, faults>>
  BY DEF NonceExpires, host
<1>2. manager' \in [local : Nat, trusted : BOOLEAN] /\ ~manager'.trusted
  BY <1>1 DEF BindingInv, AccountTypes
<1>3. AccountTypes'
  BY <1>1, <1>2 DEF BindingInv, AccountTypes
<1>4. AllTxs' = AllTxs /\ Blocks' = Blocks /\ AccountNonce' = AccountNonce
      /\ NextNonce' = NextNonce
  BY <1>1 DEF AllTxs, MinedTxs, Blocks, AccountNonce, NextNonce
<1>5. NonceInv' /\ ChainInv' /\ MutexInv'
  BY <1>1, <1>4 DEF BindingInv, NonceInv, TxOK, ChainInv, MutexInv
<1>6. \A g \in Callers : pc[g] # "submit"
  BY <1>1, BindingAssumption DEF BindingInv, MutexInv
<1>7. Orderly => Orderly'
  BY <1>1, <1>2, <1>4, <1>6 DEF Orderly, PoolInv, ManagerInv, SentInv, Own, Mined
<1> QED
  BY <1>1, <1>3, <1>5, <1>7 DEF BindingInv

----------------------------------------------------------------------------
(* Steps that submit or mine a transaction. *)

LEMMA TransactionIs ==
    ASSUME AccountTypes, NEW g \in Callers, NEW p \in Nat
    PROVE  /\ Transaction(g, p) \in Txs /\ resubmit(g, p) = Transaction(g, p)
           /\ Own(Transaction(g, p), g) /\ Transaction(g, p).price = p
<1>1. call(g).value \in Amounts /\ call(g).gas \in Amounts
  BY DEF call, Amounts, AccountTypes
<1>2. binding.value \in Amounts /\ binding.gas \in Amounts
  BY DEF AccountTypes
<1>3. transactorOptions(g).value \in Amounts /\ transactorOptions(g).gas \in Amounts
  BY <1>1, <1>2 DEF transactorOptions
<1>4. tries[g] \in Nat /\ nonce[g] \in Nat
  BY DEF AccountTypes
<1>5. Transaction(g, p) \in Txs
  BY <1>3, <1>4 DEF Transaction, Txs
<1>6. resubmit(g, p) = Transaction(g, p)
  BY DEF resubmit, Transaction
<1> QED
  BY <1>5, <1>6 DEF Own, Transaction

\* The transaction of an attempt enters the pool.
LEMMA AcceptInv ==
    ASSUME BindingInv, NEW g \in Callers, NEW t \in Txs, Accept(t), Own(t, g),
           UNCHANGED <<nonce, tries>>,
           pc'[g] \in {"sent", "failed"}, \A h \in Callers \ {g} : pc'[h] = pc[h],
           \A h \in Callers : waiter'[h] = "forcing" => pc'[h] = "sent"
    PROVE  /\ pool' \subseteq Txs /\ IsFiniteSet(pool')
           /\ NonceInv' /\ ChainInv'
<1>1. pool' = {u \in pool : u.nonce # t.nonce} \cup {t} /\ chain' = chain
  BY DEF Accept
<1>2. pool' \subseteq Txs /\ IsFiniteSet(pool')
  <2>1. IsFiniteSet({u \in pool : u.nonce # t.nonce})
    BY FS_Subset DEF BindingInv, AccountTypes
  <2>2. IsFiniteSet(pool')
    BY <1>1, <2>1, FS_AddElement
  <2> QED
    BY <1>1, <2>2 DEF BindingInv, AccountTypes
<1>3. MinedTxs' = MinedTxs
  BY <1>1 DEF MinedTxs, Blocks
<1>4. \A u \in AllTxs' : u \in AllTxs \/ u = t
  BY <1>1, <1>3 DEF AllTxs
<1>5. \A u \in AllTxs : u.caller = g /\ u.try = tries[g] => u.nonce = t.nonce
  BY DEF BindingInv, NonceInv, TxOK, Own
<1>6. \A u, v \in AllTxs' : u.caller = v.caller /\ u.try = v.try => u.nonce = v.nonce
  BY <1>4, <1>5 DEF BindingInv, NonceInv, Own
<1>7. \A u \in AllTxs : TxOK(u)'
  BY <1>5 DEF BindingInv, NonceInv, TxOK, Own
<1>8. TxOK(t)'
  <2>1. tries[g] \in Nat
    BY DEF BindingInv, AccountTypes
  <2> QED
    BY <2>1 DEF TxOK, Own
<1>9. NonceInv'
  BY <1>4, <1>6, <1>7, <1>8 DEF NonceInv
<1>10. ChainInv'
  BY <1>1 DEF BindingInv, ChainInv, Blocks, AccountNonce
<1> QED
  BY <1>2, <1>9, <1>10

\* A caller that holds the mutex returns.
LEMMA ReturnInv ==
    ASSUME BindingInv, NEW g \in Callers, pc[g] \in {"locked", "submit"},
           NEW result \in {"sent", "failed", "refused"}, Return(g, result)
    PROVE  /\ pc' \in [Callers -> {"start", "locked", "submit", "sent", "failed", "refused"}]
           /\ mutex' \in Callers \cup {NoCaller} /\ MutexInv'
           /\ pc'[g] = result /\ \A h \in Callers \ {g} : pc'[h] = pc[h]
           /\ \A h \in Callers : pc'[h] # "submit"
<1>1. pc' = [pc EXCEPT ![g] = result] /\ mutex' = NoCaller
  BY DEF Return
<1>2. pc' \in [Callers -> {"start", "locked", "submit", "sent", "failed", "refused"}]
  BY <1>1 DEF BindingInv, AccountTypes
<1>3. pc'[g] = result /\ \A h \in Callers \ {g} : pc'[h] = pc[h]
  BY <1>1 DEF BindingInv, AccountTypes
<1>4. MutexInv' /\ \A h \in Callers : pc'[h] # "submit"
  BY <1>1, <1>3, BindingAssumption DEF BindingInv, MutexInv
<1> QED
  BY <1>1, <1>2, <1>3, <1>4

\* As long as nothing was lost the nonce of a caller is the next free one.
LEMMA OrderlyAccepts ==
    ASSUME BindingInv, Orderly, NEW g \in Callers, pc[g] = "submit", NEW t \in Txs, Own(t, g)
    PROVE  /\ Accepts(t) /\ t.nonce = NextNonce /\ NextNonce \in Nat /\ AccountNonce \in Nat
           /\ AccountNonce <= NextNonce /\ \A u \in pool : u.nonce \in Nat /\ u.nonce < NextNonce
<1>1. t.nonce = NextNonce
  BY DEF Orderly, ManagerInv, Own
<1>2. NextNonce \in Nat /\ AccountNonce \in Nat /\ AccountNonce <= NextNonce
  BY PendingIs, AccountNonceNat DEF BindingInv, Orderly, AccountTypes
<1>3. \A u \in pool : u.nonce \in Nat /\ u.nonce < NextNonce
  BY DEF Orderly, PoolInv, BindingInv, AccountTypes, Txs
<1>4. Accepts(t)
  BY <1>1, <1>2, <1>3 DEF Accepts
<1> QED
  BY <1>1, <1>2, <1>3, <1>4

LEMMA OrderlySubmit ==
    ASSUME BindingInv, Orderly, NEW g \in Callers, pc[g] = "submit", NEW t \in Txs, Own(t, g),
           pool' = {u \in pool : u.nonce # t.nonce} \cup {t}, UNCHANGED <<chain, nonce, tries>>,
           pc'[g] = "sent", \A h \in Callers \ {g} : pc'[h] = pc[h],
           \A h \in Callers : pc'[h] # "submit",
           manager'.local = manager.local + 1, manager'.trusted = manager.trusted
    PROVE  Orderly'
<1>1. PICK z \in Nat, a \in Nat :
           /\ z = NextNonce /\ a = AccountNonce /\ a <= z /\ t.nonce = z
           /\ \A u \in pool : u.nonce \in Nat /\ u.nonce < z
  BY OrderlyAccepts
<1>2. pool' = pool \cup {t} /\ t \notin pool
  BY <1>1
<1>3. Cardinality(pool') = Cardinality(pool) + 1 /\ Cardinality(pool) \in Nat
  <2>1. IsFiniteSet(pool)
    BY DEF BindingInv, AccountTypes
  <2> QED
    BY <1>2, <2>1, FS_AddElement, FS_CardinalityType
<1>4. AccountNonce' = a /\ NextNonce' = z + 1
  <2>1. AccountNonce' = a
    BY <1>1 DEF AccountNonce
  <2> QED
    BY <1>1, <1>3, <2>1 DEF NextNonce
<1>5. PoolInv'
  <2>1. /\ \A u, v \in pool : u.nonce = v.nonce => u = v
        /\ \A u \in pool : a <= u.nonce /\ u.nonce < z
        /\ \A n \in a..(z - 1) : \E u \in pool : u.nonce = n
    BY <1>1 DEF Orderly, PoolInv
  <2>2. \A u, v \in pool' : u.nonce = v.nonce => u = v
    BY <1>1, <1>2, <2>1
  <2>3. \A u \in pool' : a <= u.nonce /\ u.nonce < z + 1
    BY <1>1, <1>2, <2>1
  <2>4. \A n \in a..(z + 1 - 1) : \E u \in pool' : u.nonce = n
    <3> SUFFICES ASSUME NEW n \in a..(z + 1 - 1) PROVE \E u \in pool' : u.nonce = n
      OBVIOUS
    <3>1. n = z \/ n \in a..(z - 1)
      BY <1>1
    <3> QED
      BY <1>1, <1>2, <2>1, <3>1
  <2> QED
    BY <1>4, <2>2, <2>3, <2>4 DEF PoolInv
<1>6. ManagerInv'
  <2>1. manager'.trusted => manager'.local = z + 1
    BY <1>1 DEF Orderly, ManagerInv
  <2> QED
    BY <1>4, <2>1 DEF ManagerInv
<1>7. SentInv'
  <2>1. \A h \in Callers : pc'[h] # "failed"
    BY DEF Orderly, SentInv
  <2>2. t \in pool' /\ Own(t, g)'
    BY <1>2 DEF Own
  <2>3. ASSUME NEW h \in Callers \ {g}, pc'[h] = "sent"
        PROVE  (\E u \in pool' : Own(u, h)') \/ Mined(h, tries[h])'
    <3>1. (\E u \in pool : Own(u, h)) \/ Mined(h, tries[h])
      BY <2>3 DEF Orderly, SentInv
    <3> QED
      BY <1>2, <3>1 DEF Own, Mined
  <2> QED
    BY <2>1, <2>2, <2>3 DEF SentInv
<1> QED
  BY <1>5, <1>6, <1>7 DEF Orderly

LEMMA SubmitFails ==
    ASSUME BindingInv, NEW g \in Callers, pc[g] = "submit", NEW t \in Txs, Own(t, g),
           UNCHANGED <<scenario, binding, nonce, tries, waiter, manager>>,
           Return(g, "failed"), UNCHANGED host \/ Accept(t), faults' \in Nat, faults' # 0
    PROVE  BindingInv'
<1>1. /\ pc' \in [Callers -> {"start", "locked", "submit", "sent", "failed", "refused"}]
      /\ mutex' \in Callers \cup {NoCaller} /\ MutexInv'
      /\ pc'[g] = "failed" /\ \A h \in Callers \ {g} : pc'[h] = pc[h]
  BY ReturnInv
<1>2. \A h \in Callers : waiter'[h] = "forcing" => pc'[h] = "sent"
  BY <1>1 DEF BindingInv, NonceInv
<1>3. /\ pool' \subseteq Txs /\ IsFiniteSet(pool') /\ chain' = chain
      /\ NonceInv' /\ ChainInv'
  <2>1. CASE UNCHANGED host
    <3>1. UNCHANGED <<pool, chain>>
      BY <2>1 DEF host
    <3>2. NonceInv'
      BY <1>1, <3>1, NoncePcFrame DEF BindingInv
    <3> QED
      BY <3>1, <3>2 DEF BindingInv, AccountTypes, ChainInv, Blocks, AccountNonce
  <2>2. CASE Accept(t)
    <3>1. chain' = chain
      BY <2>2 DEF Accept
    <3> QED
      BY <1>1, <1>2, <2>2, <3>1, AcceptInv
  <2> QED
    BY <2>1, <2>2
<1>4. AccountTypes'
  BY <1>1, <1>3 DEF BindingInv, AccountTypes
<1> QED
  BY <1>1, <1>3, <1>4 DEF BindingInv

LEMMA SubmitInv ==
    ASSUME BindingInv, NEW g \in Callers, SubmitTransaction(g), UNCHANGED scenario
    PROVE  BindingInv'
<1> DEFINE t == Transaction(g, 1)
<1>1. t \in Txs /\ Own(t, g)
  BY TransactionIs DEF BindingInv
<1>2. pc[g] = "submit" /\ UNCHANGED <<scenario, binding, nonce, tries>>
  BY DEF SubmitTransaction
<1> HIDE DEF t
<1>3. CASE Accepts(t) /\ Accept(t) /\ waiter' = [waiter EXCEPT ![g] = "forcing"]
           /\ manager' = [manager EXCEPT !.local = @ + 1] /\ Return(g, "sent") /\ NoFault
  <2>1. /\ pc' \in [Callers -> {"start", "locked", "submit", "sent", "failed", "refused"}]
        /\ mutex' \in Callers \cup {NoCaller} /\ MutexInv'
        /\ pc'[g] = "sent" /\ \A h \in Callers \ {g} : pc'[h] = pc[h]
        /\ \A h \in Callers : pc'[h] # "submit"
    BY <1>2, <1>3, ReturnInv
  <2>2. /\ waiter' \in [Callers -> {"none", "forcing", "finished", "gaveUp"}]
        /\ \A h \in Callers \ {g} : waiter'[h] = waiter[h]
    BY <1>3 DEF BindingInv, AccountTypes
  <2>3. \A h \in Callers : waiter'[h] = "forcing" => pc'[h] = "sent"
    BY <2>1, <2>2 DEF BindingInv, NonceInv
  <2>4. /\ pool' \subseteq Txs /\ IsFiniteSet(pool') /\ NonceInv' /\ ChainInv'
    BY <1>1, <1>2, <1>3, <2>1, <2>3, AcceptInv
  <2>5. /\ manager' \in [local : Nat, trusted : BOOLEAN]
        /\ manager'.local = manager.local + 1 /\ manager'.trusted = manager.trusted
    <3>1. manager \in [local : Nat, trusted : BOOLEAN] /\ manager.local + 1 \in Nat
      BY DEF BindingInv, AccountTypes
    <3>2. manager'.local = manager.local + 1 /\ manager'.trusted = manager.trusted
      BY <1>3, <3>1
    <3>3. manager' \in [local : Nat, trusted : BOOLEAN]
      BY <1>3, <3>1
    <3> QED
      BY <3>2, <3>3
  <2>6. pool' = {u \in pool : u.nonce # t.nonce} \cup {t} /\ chain' = chain /\ faults' = faults
    BY <1>3 DEF Accept, NoFault
  <2>7. AccountTypes'
    BY <1>2, <2>1, <2>2, <2>4, <2>5, <2>6 DEF BindingInv, AccountTypes
  <2>8. ASSUME Orderly PROVE Orderly'
    BY <1>1, <1>2, <2>1, <2>5, <2>6, <2>8, OrderlySubmit
  <2> QED
    BY <2>1, <2>4, <2>6, <2>7, <2>8 DEF BindingInv
<1>4. CASE ~Accepts(t) /\ Return(g, "failed") /\ NoFault /\ UNCHANGED <<host, waiter, manager>>
  <2>1. ~Orderly
    BY <1>1, <1>2, <1>4, OrderlyAccepts
  <2>2. faults' \in Nat /\ faults' # 0
    BY <1>4, <2>1 DEF NoFault, BindingInv, AccountTypes
  <2> QED
    BY <1>1, <1>2, <1>4, <2>2, SubmitFails
<1>5. CASE /\ UNCHANGED host \/ (Accepts(t) /\ Accept(t))
           /\ Return(g, "failed") /\ Fault /\ UNCHANGED <<waiter, manager>>
  <2>1. faults' \in Nat /\ faults' # 0
    BY <1>5 DEF Fault, BindingInv, AccountTypes
  <2> QED
    BY <1>1, <1>2, <1>5, <2>1, SubmitFails
<1> QED
  BY <1>3, <1>4, <1>5 DEF SubmitTransaction, t

\* A resubmission replaces the transaction of the same attempt.
LEMMA OrderlyResubmit ==
    ASSUME BindingInv, Orderly, NEW g \in Callers, pc[g] = "sent", ~Mined(g, tries[g]),
           NEW t \in Txs, Own(t, g), Accepts(t),
           pool' = {u \in pool : u.nonce # t.nonce} \cup {t},
           UNCHANGED <<chain, nonce, tries, pc, manager>>
    PROVE  Orderly'
<1>1. PICK old \in pool : Own(old, g)
  BY DEF Orderly, SentInv
<1>2. old.nonce = t.nonce /\ t.price \in Nat
  BY <1>1 DEF Own, Txs
<1>3. t \notin pool
  BY <1>2 DEF Accepts
<1>4. pool' = (pool \ {old}) \cup {t}
  BY <1>1, <1>2 DEF Orderly, PoolInv
<1>5. Cardinality(pool') = Cardinality(pool)
  <2>1. IsFiniteSet(pool) /\ t \notin pool \ {old}
    BY <1>3 DEF BindingInv, AccountTypes
  <2>2. /\ IsFiniteSet(pool \ {old}) /\ Cardinality(pool \ {old}) = Cardinality(pool) - 1
        /\ Cardinality(pool) \in Nat
    BY <1>1, <2>1, FS_RemoveElement, FS_CardinalityType
  <2>3. Cardinality(pool') = Cardinality(pool \ {old}) + 1
    BY <1>4, <2>1, <2>2, FS_AddElement
  <2> QED
    BY <2>2, <2>3
<1>6. AccountNonce' = AccountNonce /\ NextNonce' = NextNonce
  BY <1>5 DEF AccountNonce, NextNonce
<1>7. PoolInv'
  <2>1. \A u, v \in pool' : u.nonce = v.nonce => u = v
    BY <1>2, <1>4 DEF Orderly, PoolInv
  <2>2. \A u \in pool' : AccountNonce <= u.nonce /\ u.nonce < NextNonce
    BY <1>2, <1>4 DEF Orderly, PoolInv
  <2>3. \A u \in pool : \E v \in pool' : v.nonce = u.nonce
    BY <1>2, <1>4
  <2>4. \A n \in AccountNonce..(NextNonce - 1) : \E u \in pool' : u.nonce = n
    BY <2>3 DEF Orderly, PoolInv
  <2> QED
    BY <1>6, <2>1, <2>2, <2>4 DEF PoolInv
<1>8. ManagerInv'
  BY <1>6 DEF Orderly, ManagerInv
<1>9. SentInv'
  <2>1. \A h \in Callers : pc'[h] # "failed"
    BY DEF Orderly, SentInv
  <2>2. t \in pool' /\ Own(t, g)'
    BY <1>4 DEF Own
  <2>3. ASSUME NEW h \in Callers \ {g}, pc'[h] = "sent"
        PROVE  (\E u \in pool' : Own(u, h)') \/ Mined(h, tries[h])'
    <3>1. (\E u \in pool : Own(u, h)) \/ Mined(h, tries[h])
      BY <2>3 DEF Orderly, SentInv
    <3>2. \A u \in pool : Own(u, h) => u \in pool' /\ Own(u, h)'
      BY <1>1, <1>4 DEF Own
    <3>3. Mined(h, tries[h]) => Mined(h, tries[h])'
      BY DEF Mined
    <3> QED
      BY <3>1, <3>2, <3>3
  <2> QED
    BY <2>1, <2>2, <2>3 DEF SentInv
<1> QED
  BY <1>7, <1>8, <1>9 DEF Orderly

LEMMA ForceMiningInv ==
    ASSUME BindingInv, NEW g \in Callers, ForceMining(g)
    PROVE  BindingInv'
<1>1. /\ waiter[g] = "forcing" /\ pc[g] = "sent"
      /\ UNCHANGED <<scenario, binding, mutex, pc, nonce, tries, manager>>
  BY DEF ForceMining, BindingInv, NonceInv
<1>2. ASSUME NEW result \in {"finished", "gaveUp"}, waiter' = [waiter EXCEPT ![g] = result],
             UNCHANGED host, Fault \/ NoFault
      PROVE  BindingInv'
  <2>1. UNCHANGED <<pool, chain>> /\ faults' \in Nat /\ (faults' = 0 => faults = 0)
    BY <1>2, FaultsAre DEF host, BindingInv, AccountTypes
  <2>2. /\ waiter' \in [Callers -> {"none", "forcing", "finished", "gaveUp"}]
        /\ \A h \in Callers : waiter'[h] = "forcing" => waiter[h] = "forcing"
    BY <1>2 DEF BindingInv, AccountTypes
  <2>3. AccountTypes'
    BY <1>1, <2>1, <2>2 DEF BindingInv, AccountTypes
  <2>4. AllTxs' = AllTxs /\ Blocks' = Blocks /\ AccountNonce' = AccountNonce
        /\ NextNonce' = NextNonce
    BY <2>1 DEF AllTxs, MinedTxs, Blocks, AccountNonce, NextNonce
  <2>5. NonceInv' /\ ChainInv' /\ MutexInv'
    BY <1>1, <2>1, <2>2, <2>4 DEF BindingInv, NonceInv, TxOK, ChainInv, MutexInv
  <2>6. Orderly' <=> Orderly
    BY <1>1, <2>1, <2>4 DEF Orderly, PoolInv, ManagerInv, SentInv, Own, Mined
  <2> QED
    BY <2>1, <2>3, <2>5, <2>6 DEF BindingInv
<1>3. ASSUME ~Mined(g, tries[g]), NEW p \in 2..MaxPrice,
             Accepts(resubmit(g, p)), Accept(resubmit(g, p)), NoFault, UNCHANGED waiter
      PROVE  BindingInv'
  <2>1. PICK t \in Txs : Own(t, g) /\ Accepts(t) /\ Accept(t)
    <3>1. p \in Nat
      BY BindingAssumption
    <3> QED
      BY <1>3, <3>1, TransactionIs DEF BindingInv
  <2>2. faults' = faults /\ chain' = chain /\ pool' = {u \in pool : u.nonce # t.nonce} \cup {t}
    BY <1>3, <2>1 DEF NoFault, Accept
  <2>3. pool' \subseteq Txs /\ IsFiniteSet(pool') /\ NonceInv' /\ ChainInv'
    <3>1. \A h \in Callers : waiter'[h] = "forcing" => pc'[h] = "sent"
      BY <1>1, <1>3 DEF BindingInv, NonceInv
    <3>2. pc'[g] \in {"sent", "failed"} /\ \A h \in Callers \ {g} : pc'[h] = pc[h]
      BY <1>1
    <3> QED
      BY <1>1, <2>1, <3>1, <3>2, AcceptInv
  <2>4. AccountTypes' /\ MutexInv'
    BY <1>1, <1>3, <2>2, <2>3 DEF BindingInv, AccountTypes, MutexInv
  <2>5. Orderly => Orderly'
    BY <1>1, <1>3, <2>1, <2>2, OrderlyResubmit
  <2> QED
    BY <2>2, <2>3, <2>4, <2>5 DEF BindingInv
<1>4. ASSUME NEW p \in 2..MaxPrice, Accepts(resubmit(g, p)) => Fault,
             ~Accepts(resubmit(g, p)) => NoFault
      PROVE  Fault \/ NoFault
  BY <1>4
<1> QED
  BY <1>2, <1>3, <1>4 DEF ForceMining

LEMMA DropInv ==
    ASSUME BindingInv, DropTransaction
    PROVE  BindingInv'
<1>1. PICK t \in pool : pool' = pool \ {t}
  BY DEF DropTransaction
<1>2. /\ UNCHANGED <<scenario, binding, mutex, pc, nonce, tries, manager, waiter, chain>>
      /\ faults' \in Nat /\ faults' # 0
  BY DEF DropTransaction, senders, Fault, BindingInv, AccountTypes
<1>3. AccountTypes'
  <2>1. IsFiniteSet(pool') /\ pool' \subseteq Txs
    BY <1>1, FS_Subset DEF BindingInv, AccountTypes
  <2> QED
    BY <1>2, <2>1 DEF BindingInv, AccountTypes
<1>4. AllTxs' \subseteq AllTxs /\ Blocks' = Blocks /\ AccountNonce' = AccountNonce
  BY <1>1, <1>2 DEF AllTxs, MinedTxs, Blocks, AccountNonce
<1>5. NonceInv' /\ ChainInv' /\ MutexInv'
  BY <1>2, <1>4 DEF BindingInv, NonceInv, TxOK, ChainInv, MutexInv
<1> QED
  BY <1>2, <1>3, <1>5 DEF BindingInv

LEMMA MinedTxsGrow ==
    ASSUME chain \in Seq(Txs), NEW tx \in Txs, chain' = Append(chain, tx)
    PROVE  \A t \in MinedTxs' : t \in MinedTxs \/ (t = tx /\ tx # NoTx)
<1> SUFFICES ASSUME NEW b \in 1..Len(chain'), chain'[b] # NoTx
             PROVE  chain'[b] \in MinedTxs \/ (chain'[b] = tx /\ tx # NoTx)
  BY DEF MinedTxs, Blocks
<1>1. b \in 1..Len(chain) \/ b = Len(chain) + 1
  BY AppendTx
<1>2. CASE b \in 1..Len(chain)
  BY <1>2, AppendTx DEF MinedTxs, Blocks
<1>3. CASE b = Len(chain) + 1
  BY <1>3, AppendTx
<1> QED
  BY <1>1, <1>2, <1>3

\* A block is added: empty, or with the transaction of the account's nonce.
LEMMA BlockInv ==
    ASSUME BindingInv, NEW tx \in Txs, AddBlock(tx), pool' \subseteq pool,
           tx # NoTx => tx \in pool /\ tx.nonce = AccountNonce
    PROVE  /\ AccountTypes' /\ NonceInv' /\ ChainInv' /\ MutexInv'
           /\ UNCHANGED <<pc, nonce, tries, manager, faults>> /\ chain' = Append(chain, tx)
<1>1. /\ UNCHANGED <<scenario, binding, mutex, pc, nonce, tries, manager, waiter, faults>>
      /\ chain' = Append(chain, tx)
  BY DEF AddBlock, senders
<1>2. chain \in Seq(Txs)
  BY DEF BindingInv, AccountTypes
<1>3. PICK l \in Nat, a \in Nat, b \in Nat :
           /\ l = Len(chain) /\ Len(chain') = l + 1 /\ a = AccountNonce /\ b = AccountNonce'
           /\ b = IF tx = NoTx THEN a ELSE a + 1
           /\ chain' \in Seq(Txs) /\ chain'[l + 1] = tx
           /\ \A c \in 1..l : chain'[c] = chain[c]
  BY <1>1, <1>2, AppendTx, AccountNonceNat
<1>4. AccountTypes'
  <2>1. IsFiniteSet(pool') /\ pool' \subseteq Txs
    BY FS_Subset DEF BindingInv, AccountTypes
  <2> QED
    BY <1>1, <1>3, <2>1 DEF BindingInv, AccountTypes
<1>5. AllTxs' \subseteq AllTxs
  BY <1>1, <1>2, MinedTxsGrow DEF AllTxs
<1>6. NonceInv' /\ MutexInv'
  BY <1>1, <1>5 DEF BindingInv, NonceInv, TxOK, MutexInv
<1>7. /\ \A c \in 1..l : chain[c] # NoTx => chain[c].nonce \in Nat /\ chain[c].nonce < a
      /\ \A c, d \in 1..l : c < d /\ chain[c] # NoTx /\ chain[d] # NoTx
                               => chain[c].nonce < chain[d].nonce
  <2>1. \A c \in 1..l : chain[c] \in Txs
    BY <1>2, <1>3
  <2>2. \A c \in 1..l : chain[c].nonce \in Nat
    BY <2>1 DEF Txs
  <2>3. \A c \in 1..l : chain[c] # NoTx => chain[c].nonce < a
    BY <1>3 DEF BindingInv, ChainInv, Blocks
  <2>4. \A c, d \in 1..l : c < d /\ chain[c] # NoTx /\ chain[d] # NoTx
                              => chain[c].nonce < chain[d].nonce
    BY <1>3 DEF BindingInv, ChainInv, Blocks
  <2> QED
    BY <2>2, <2>3, <2>4
<1>8. ChainInv'
  <2>1. \A c \in 1..(l + 1) : c \in 1..l \/ c = l + 1
    BY <1>3
  <2>2. \A c \in 1..(l + 1) : chain'[c] # NoTx => chain'[c].nonce < b
    BY <1>3, <1>7, <2>1
  <2>3. ASSUME NEW c \in 1..(l + 1), NEW d \in 1..(l + 1), c < d, chain'[c] # NoTx, chain'[d] # NoTx
        PROVE  chain'[c].nonce < chain'[d].nonce
    <3>1. c \in 1..l
      BY <1>3, <2>1, <2>3
    <3>2. CASE d \in 1..l
      BY <1>3, <1>7, <2>3, <3>1, <3>2
    <3>3. CASE d = l + 1
      BY <1>3, <1>7, <2>3, <3>1, <3>3
    <3> QED
      BY <2>1, <3>2, <3>3
  <2> QED
    BY <1>3, <2>2, <2>3 DEF ChainInv, Blocks
<1> QED
  BY <1>1, <1>4, <1>6, <1>8

\* The oldest transaction of the pool moves to the chain.
LEMMA MineInv ==
    ASSUME BindingInv, Mine
    PROVE  BindingInv'
<1>1. PICK t \in pool : /\ t.nonce = AccountNonce
                        /\ pool' = {u \in pool : u.nonce # t.nonce}
                        /\ AddBlock(t)
  BY DEF Mine
<1>2. t \in Txs /\ t.caller \in Callers /\ t # NoTx
  BY <1>1, NoTxIs, BindingAssumption DEF BindingInv, AccountTypes, NonceInv, AllTxs, TxOK
<1>3. /\ AccountTypes' /\ NonceInv' /\ ChainInv' /\ MutexInv'
      /\ UNCHANGED <<pc, nonce, tries, manager, faults>> /\ chain' = Append(chain, t)
  BY <1>1, <1>2, BlockInv
<1>4. chain \in Seq(Txs)
  BY DEF BindingInv, AccountTypes
<1>5. ASSUME Orderly PROVE Orderly'
  <2>1. pool' = pool \ {t}
    BY <1>1, <1>5 DEF Orderly, PoolInv
  <2>2. PICK a \in Nat, z \in Nat :
             a = AccountNonce /\ AccountNonce' = a + 1 /\ z = NextNonce /\ NextNonce' = z
    <3>1. AccountNonce \in Nat /\ AccountNonce' = AccountNonce + 1
      BY <1>2, <1>3, <1>4, AppendTx, AccountNonceNat
    <3>2. IsFiniteSet(pool)
      BY DEF BindingInv, AccountTypes
    <3>3. Cardinality(pool') = Cardinality(pool) - 1 /\ Cardinality(pool) \in Nat
      BY <2>1, <3>2, FS_RemoveElement, FS_CardinalityType
    <3> QED
      BY <3>1, <3>3 DEF NextNonce
  <2>3. /\ \A u, v \in pool : u.nonce = v.nonce => u = v
        /\ \A u \in pool : a <= u.nonce /\ u.nonce < z
        /\ \A n \in a..(z - 1) : \E u \in pool : u.nonce = n
    BY <1>5, <2>2 DEF Orderly, PoolInv
  <2>4. \A u \in pool : u.nonce \in Nat
    BY DEF BindingInv, AccountTypes, Txs
  <2>5. PoolInv'
    <3>1. \A u \in pool' : a + 1 <= u.nonce /\ u.nonce < z
      BY <1>1, <2>1, <2>2, <2>3, <2>4
    <3>2. \A n \in (a + 1)..(z - 1) : \E u \in pool' : u.nonce = n
      <4> SUFFICES ASSUME NEW n \in (a + 1)..(z - 1) PROVE \E u \in pool' : u.nonce = n
        OBVIOUS
      <4>1. n \in a..(z - 1) /\ n # a
        BY <2>2
      <4> QED
        BY <1>1, <2>2, <2>3, <4>1
    <3> QED
      BY <2>1, <2>2, <2>3, <3>1, <3>2 DEF PoolInv
  <2>6. ManagerInv'
    BY <1>3, <1>5, <2>2 DEF Orderly, ManagerInv
  <2>7. SentInv'
    <3> SUFFICES ASSUME NEW h \in Callers, pc[h] = "sent"
                 PROVE  (\E u \in pool' : Own(u, h)') \/ Mined(h, tries[h])'
      BY <1>3, <1>5 DEF Orderly, SentInv
    <3>1. CASE Mined(h, tries[h])
      <4>1. tries'[h] = tries[h]
        BY <1>3
      <4>2. PICK b \in 1..Len(chain) : chain[b].caller = h /\ chain[b].try = tries[h]
        BY <3>1 DEF Mined
      <4>3. b \in 1..Len(chain') /\ chain'[b] = chain[b]
        BY <1>2, <1>3, <1>4, AppendTx
      <4> QED
        BY <4>1, <4>2, <4>3 DEF Mined
    <3>2. CASE \E u \in pool : u # t /\ Own(u, h)
      BY <1>3, <2>1, <3>2 DEF Own
    <3>3. CASE Own(t, h)
      <4>1. Len(chain) + 1 \in 1..Len(chain') /\ chain'[Len(chain) + 1] = t
        BY <1>2, <1>3, <1>4, AppendTx, AccountNonceNat
      <4>2. t.caller = h /\ t.try = tries'[h]
        BY <1>3, <3>3 DEF Own
      <4> QED
        BY <4>1, <4>2 DEF Mined
    <3> QED
      BY <1>5, <3>1, <3>2, <3>3 DEF Orderly, SentInv
  <2> QED
    BY <2>5, <2>6, <2>7 DEF Orderly
<1> QED
  BY <1>3, <1>5 DEF BindingInv

LEMMA MineEmptyInv ==
    ASSUME BindingInv, MineEmpty
    PROVE  BindingInv'
<1>1. AddBlock(NoTx) /\ pool' = pool /\ NoTx \in Txs
  BY NoTxIs DEF MineEmpty
<1>2. /\ AccountTypes' /\ NonceInv' /\ ChainInv' /\ MutexInv'
      /\ UNCHANGED <<pc, nonce, tries, manager, faults>> /\ chain' = Append(chain, NoTx)
  BY <1>1, BlockInv
<1>3. chain \in Seq(Txs)
  BY DEF BindingInv, AccountTypes
<1>4. AccountNonce' = AccountNonce
  BY <1>1, <1>2, <1>3, AppendTx
<1>5. NextNonce' = NextNonce
  BY <1>1, <1>4 DEF NextNonce
<1>6. ASSUME Orderly PROVE Orderly'
  <2>1. PoolInv'
    BY <1>1, <1>4, <1>5, <1>6 DEF Orderly, PoolInv
  <2>2. ManagerInv'
    BY <1>2, <1>5, <1>6 DEF Orderly, ManagerInv
  <2>3. \A h \in Callers : Mined(h, tries[h]) => Mined(h, tries[h])'
    <3> SUFFICES ASSUME NEW h \in Callers, Mined(h, tries[h]) PROVE Mined(h, tries[h])'
      OBVIOUS
    <3>1. PICK b \in 1..Len(chain) : chain[b].caller = h /\ chain[b].try = tries[h]
      BY DEF Mined
    <3>2. b \in 1..Len(chain') /\ chain'[b] = chain[b]
      BY <1>1, <1>2, <1>3, AppendTx
    <3> QED
      BY <1>2, <3>1, <3>2 DEF Mined
  <2>4. SentInv'
    BY <1>1, <1>2, <1>6, <2>3 DEF Orderly, SentInv, Own
  <2> QED
    BY <2>1, <2>2, <2>4 DEF Orderly
<1> QED
  BY <1>2, <1>6 DEF BindingInv

----------------------------------------------------------------------------
LEMMA BindingStepInv ==
    ASSUME BindingInv, [BindingNext]_bindingVars
    PROVE  BindingInv'
<1>1. CASE UNCHANGED bindingVars
  <2>1. UNCHANGED <<scenario, binding, mutex, pc, nonce, tries, manager, waiter, pool, chain, faults>>
    BY <1>1 DEF bindingVars, senders, host
  <2> QED
    BY <2>1, AccountFrame DEF BindingInv, AccountTypes
<1>2. ASSUME NEW g \in Callers, LockMutex(g) \/ TakeNonce(g) \/ SubmitTransaction(g),
             UNCHANGED scenario
      PROVE  BindingInv'
  BY <1>2, LockInv, TakeNonceInv, SubmitInv
<1>3. CASE UNCHANGED <<scenario, senders, host>> /\ (Fault \/ NoFault)
  <2>1. UNCHANGED <<scenario, binding, mutex, pc, nonce, tries, manager, waiter, pool, chain>>
    BY <1>3 DEF senders, host
  <2>2. faults' \in Nat /\ (faults' = 0 => faults = 0)
    BY <1>3, FaultsAre DEF BindingInv, AccountTypes
  <2> QED
    BY <2>1, <2>2, AccountFrame
<1>4. ASSUME NEW g \in Callers, withRetry(g) \/ ForceMining(g)
      PROVE  BindingInv'
  BY <1>4, RetryInv, ForceMiningInv
<1>5. CASE NonceExpires \/ DropTransaction \/ Mine \/ MineEmpty
  BY <1>5, ExpiresInv, DropInv, MineInv, MineEmptyInv
<1> QED
  BY <1>1, <1>2, <1>3, <1>4, <1>5, StepKinds

\* The invariant holds of the calls and subscriptions through all bindings of
\* an account.
THEOREM BindingInvariant == BindingSpec => []BindingInv
<1>1. BindingInit => BindingInv
  BY BindingInitInv
<1>2. BindingInv /\ [BindingNext]_bindingVars => BindingInv'
  BY BindingStepInv
<1> QED
  BY <1>1, <1>2, PTL DEF BindingSpec

\* However many goroutines call, however often the mining waiter submits again
\* and whatever the host chain loses, one call of a method is mined at most
\* once: a resubmission has the nonce of what it replaces.
THEOREM CallsMinedOnce == BindingSpec => []MinedOnce
<1>1. ASSUME BindingInv PROVE MinedOnce
  <2> SUFFICES ASSUME NEW b \in 1..Len(chain), NEW c \in 1..Len(chain), chain[b] # NoTx,
                      chain[b].caller = chain[c].caller, chain[b].try = chain[c].try,
                      b # c
               PROVE  FALSE
    BY DEF MinedOnce
  <2>1. chain[b] \in AllTxs /\ chain[b].caller \in Callers
    BY <1>1 DEF BindingInv, NonceInv, TxOK, AllTxs, MinedTxs, Blocks
  <2>2. chain[c] # NoTx
    BY <2>1, NoTxIs, BindingAssumption
  <2>3. chain[c] \in AllTxs
    BY <2>2 DEF AllTxs, MinedTxs, Blocks
  <2>4. chain[b].nonce = chain[c].nonce
    BY <1>1, <2>1, <2>3 DEF BindingInv, NonceInv
  <2>5. chain[b].nonce \in Nat
    BY <1>1, <2>1, TxsTyped DEF BindingInv, Txs
  <2>6. b < c \/ c < b
    OBVIOUS
  <2>7. chain[b].nonce < chain[c].nonce \/ chain[c].nonce < chain[b].nonce
    BY <1>1, <2>2, <2>6 DEF BindingInv, ChainInv, Blocks
  <2> QED
    BY <2>4, <2>5, <2>7
<1> QED
  BY <1>1, BindingInvariant, PTL

\* As long as the chain client loses nothing, no call of any number of
\* concurrent ones fails for its nonce or has its nonce used by another.
THEOREM NoncesDoNotCollide == BindingSpec => []OwnNonce
<1>1. ASSUME BindingInv PROVE OwnNonce
  <2> SUFFICES ASSUME faults = 0, NEW g \in Callers
               PROVE  /\ pc[g] # "failed"
                      /\ pc[g] = "sent" /\ nonce[g] < AccountNonce => Mined(g, tries[g])
    BY DEF OwnNonce
  <2>1. PoolInv /\ SentInv
    BY <1>1 DEF BindingInv, Orderly
  <2>2. AccountNonce \in Nat /\ nonce[g] \in Nat
    BY <1>1, AccountNonceNat DEF BindingInv, AccountTypes
  <2>3. \A t \in pool : Own(t, g) => AccountNonce <= nonce[g]
    BY <2>1 DEF PoolInv, Own
  <2> QED
    BY <2>1, <2>2, <2>3 DEF SentInv
<1> QED
  BY <1>1, BindingInvariant, PTL
=============================================================================
