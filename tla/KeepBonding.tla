---------------------------- MODULE KeepBonding ----------------------------
(***************************************************************************)
(* The bonding contract: AbstractBonding.sol and KeepBonding.sol.          *)
(*                                                                         *)
(* Operators deposit wei, an authorized contract locks part of it as a     *)
(* bond in favour of a holder, and the holder frees, reassigns or seizes   *)
(* the bond.  Two functions send wei with `call.value`, which runs the     *)
(* code of the receiver before they return.  `stack` holds these pending   *)
(* calls, the latest first: while it is not empty, the account that acts   *)
(* is the receiver of the latest call.  A call that reverts restores the   *)
(* state (and the stack) it started from, so a revert adds no state.       *)
(***************************************************************************)
EXTENDS Integers, Sequences, FiniteSets, Functions

CONSTANTS
    Accounts,       \* addresses that own wei and sign transactions
    Operators,      \* the accounts that are operators
    Holders,        \* contracts bonds are locked for
    Refs,           \* reference IDs of bonds
    Creators,       \* contracts that ask for bonds (keep factories)
    Pools,          \* sortition pools
    BeneficiaryOf,  \* operator -> account, or NoAccount (TokenStaking, external)
    OwnerOf,        \* operator -> token owner or grantee (TokenStaking, external)
    NoAccount,      \* address(0)
    NoHolder,       \* no contract waits for the pending call
    InitialWei,     \* account -> wei it starts with
    MaxDepth        \* bound on the depth of pending calls

ASSUME BondingAssumption ==
    /\ Operators \subseteq Accounts
    /\ BeneficiaryOf \in [Operators -> Accounts \cup {NoAccount}]
    /\ OwnerOf \in [Operators -> Accounts]
    /\ NoAccount \notin Accounts
    /\ NoHolder \notin Holders
    /\ InitialWei \in [Accounts -> Nat]
    /\ MaxDepth \in Nat
    \* Addresses and reference IDs have a fixed number of bytes.
    /\ IsFiniteSet(Operators) /\ IsFiniteSet(Holders) /\ IsFiniteSet(Refs)

VARIABLES
    wallet,           \* account -> wei it owns
    balance,          \* wei the bonding contract owns
    unbondedValue,    \* operator -> wei available for bonding
    lockedBonds,      \* bond -> wei locked, 0 when there is no bond
    authorizedPools,  \* operator -> sortition pools its authorizer allows
    authorizedFor,    \* operator -> creators approved and authorized (external)
    stack             \* pending calls that run the code of a receiver

bondingVars == <<wallet, balance, unbondedValue, lockedBonds,
                 authorizedPools, authorizedFor, stack>>

\* bondID: keccak256(operator, holder, referenceID)
BondIds == Operators \X Holders \X Refs

Frames == [callee : Accounts, resume : Holders \cup {NoHolder}]

BondingTypeOK ==
    /\ wallet \in [Accounts -> Nat]
    /\ balance \in Int
    /\ unbondedValue \in [Operators -> Nat]
    /\ lockedBonds \in [BondIds -> Nat]
    /\ authorizedPools \in [Operators -> SUBSET Pools]
    /\ authorizedFor \in [Operators -> SUBSET Creators]
    /\ stack \in Seq(Frames)

BondingInit ==
    /\ wallet = InitialWei
    /\ balance = 0
    /\ unbondedValue = [o \in Operators |-> 0]
    /\ lockedBonds = [b \in BondIds |-> 0]
    /\ authorizedPools = [o \in Operators |-> {}]
    /\ authorizedFor = [o \in Operators |-> Creators]
    /\ stack = << >>

-----------------------------------------------------------------------------
(* The calls in progress.                                                  *)

\* Account a can send a message: it starts a transaction, or it is the
\* receiver whose code runs in the latest pending call.
Calling(a) == stack # << >> => Head(stack).callee = a

\* destination.call.value(amount)(""): the wei move, then `callee` runs.
Enter(callee, resume) ==
    /\ Len(stack) < MaxDepth
    /\ stack' = <<[callee |-> callee, resume |-> resume]>> \o stack

-----------------------------------------------------------------------------
(* Operations.                                                             *)

Deposit(a, o, v) ==
    /\ Calling(a)
    /\ BeneficiaryOf[o] # NoAccount
    /\ v <= wallet[a]
    /\ wallet' = [wallet EXCEPT ![a] = @ - v]
    /\ balance' = balance + v
    /\ unbondedValue' = [unbondedValue EXCEPT ![o] = @ + v]
    /\ UNCHANGED <<lockedBonds, authorizedPools, authorizedFor, stack>>

\* Mutant of Withdraw: the unbonded value is not compared with the amount.
WithdrawUnchecked(a, o, v) ==
    /\ Calling(a)
    /\ a \in {o, OwnerOf[o]}
    /\ BeneficiaryOf[o] # NoAccount
    /\ unbondedValue' = [unbondedValue EXCEPT ![o] = @ - v]
    /\ balance' = balance - v
    /\ wallet' = [wallet EXCEPT ![BeneficiaryOf[o]] = @ + v]
    /\ Enter(BeneficiaryOf[o], NoHolder)
    /\ UNCHANGED <<lockedBonds, authorizedPools, authorizedFor>>

\* withdraw, withdrawAsManagedGrantee and withdrawBond: the beneficiary is paid
\* after the unbonded value is reduced.
Withdraw(a, o, v) ==
    /\ Calling(a)
    /\ a \in {o, OwnerOf[o]}
    /\ unbondedValue[o] >= v
    /\ BeneficiaryOf[o] # NoAccount
    /\ unbondedValue' = [unbondedValue EXCEPT ![o] = @ - v]
    /\ balance' = balance - v
    /\ wallet' = [wallet EXCEPT ![BeneficiaryOf[o]] = @ + v]
    /\ Enter(BeneficiaryOf[o], NoHolder)
    /\ UNCHANGED <<lockedBonds, authorizedPools, authorizedFor>>

availableUnbondedValue(o, c, p) ==
    IF c \in authorizedFor[o] /\ p \in authorizedPools[o]
    THEN unbondedValue[o]
    ELSE 0

CreateBond(c, o, h, r, v, p) ==
    /\ availableUnbondedValue(o, c, p) >= v
    /\ lockedBonds[<<o, h, r>>] = 0
    /\ unbondedValue' = [unbondedValue EXCEPT ![o] = @ - v]
    /\ lockedBonds' = [lockedBonds EXCEPT ![<<o, h, r>>] = @ + v]
    /\ UNCHANGED <<wallet, balance, authorizedPools, authorizedFor, stack>>

\* Mutant of ReassignBond: the old bond is not removed.
ReassignBondTwice(h, o, r, newHolder, newRef) ==
    /\ lockedBonds[<<o, h, r>>] > 0
    /\ lockedBonds[<<o, newHolder, newRef>>] = 0
    /\ lockedBonds' = [lockedBonds EXCEPT
                         ![<<o, newHolder, newRef>>] = lockedBonds[<<o, h, r>>]]
    /\ UNCHANGED <<wallet, balance, unbondedValue, authorizedPools,
                   authorizedFor, stack>>

ReassignBond(h, o, r, newHolder, newRef) ==
    /\ lockedBonds[<<o, h, r>>] > 0
    /\ lockedBonds[<<o, newHolder, newRef>>] = 0
    /\ lockedBonds' = [lockedBonds EXCEPT
                         ![<<o, newHolder, newRef>>] = lockedBonds[<<o, h, r>>],
                         ![<<o, h, r>>] = 0]
    /\ UNCHANGED <<wallet, balance, unbondedValue, authorizedPools,
                   authorizedFor, stack>>

FreeBond(h, o, r) ==
    /\ lockedBonds[<<o, h, r>>] > 0
    /\ lockedBonds' = [lockedBonds EXCEPT ![<<o, h, r>>] = 0]
    /\ unbondedValue' = [unbondedValue EXCEPT ![o] = @ + lockedBonds[<<o, h, r>>]]
    /\ UNCHANGED <<wallet, balance, authorizedPools, authorizedFor, stack>>

\* What seizeBond does before the code of `destination` runs.
SeizeBondEffect(h, o, r, v, destination) ==
    /\ v > 0
    /\ lockedBonds[<<o, h, r>>] >= v
    /\ lockedBonds' = [lockedBonds EXCEPT ![<<o, h, r>>] = @ - v]
    /\ balance' = balance - v
    /\ wallet' = [wallet EXCEPT ![destination] = @ + v]
    /\ UNCHANGED <<unbondedValue, authorizedPools, authorizedFor>>

SeizeBond(h, o, r, v, destination) ==
    /\ SeizeBondEffect(h, o, r, v, destination)
    /\ Enter(destination, h)

AuthorizeSortitionPoolContract(o, p) ==
    /\ authorizedPools' = [authorizedPools EXCEPT ![o] = @ \cup {p}]
    /\ UNCHANGED <<wallet, balance, unbondedValue, lockedBonds,
                   authorizedFor, stack>>

DeauthorizeSortitionPoolContract(o, p) ==
    /\ authorizedPools' = [authorizedPools EXCEPT ![o] = @ \ {p}]
    /\ UNCHANGED <<wallet, balance, unbondedValue, lockedBonds,
                   authorizedFor, stack>>

\* External: the authorizer authorizes an operator contract in TokenStaking, or
\* KeepRegistry approves or disables it.
SetOperatorContract(o, S) ==
    /\ authorizedFor' = [authorizedFor EXCEPT ![o] = S]
    /\ UNCHANGED <<wallet, balance, unbondedValue, lockedBonds,
                   authorizedPools, stack>>

\* The code of the latest receiver ends: require(success) holds and the
\* function that made the call returns.
Return ==
    /\ stack # << >>
    /\ stack' = Tail(stack)
    /\ UNCHANGED <<wallet, balance, unbondedValue, lockedBonds,
                   authorizedPools, authorizedFor>>

-----------------------------------------------------------------------------
(* The bonding contract with arbitrary holders and creators.               *)

Amounts == 1..SumFunction(InitialWei)

BondingNext ==
    \/ \E a \in Accounts, o \in Operators, v \in Amounts : Deposit(a, o, v)
    \/ \E a \in Accounts, o \in Operators, v \in Amounts : Withdraw(a, o, v)
    \/ \E c \in Creators, o \in Operators, h \in Holders, r \in Refs,
          v \in Amounts, p \in Pools : CreateBond(c, o, h, r, v, p)
    \/ \E o \in Operators, h, g \in Holders, r, q \in Refs : ReassignBond(h, o, r, g, q)
    \/ \E o \in Operators, h \in Holders, r \in Refs : FreeBond(h, o, r)
    \/ \E o \in Operators, h \in Holders, r \in Refs, v \in Amounts,
          d \in Accounts : SeizeBond(h, o, r, v, d)
    \/ \E o \in Operators, p \in Pools : AuthorizeSortitionPoolContract(o, p)
    \/ \E o \in Operators, p \in Pools : DeauthorizeSortitionPoolContract(o, p)
    \/ \E o \in Operators, S \in SUBSET Creators : SetOperatorContract(o, S)
    \/ Return

BondingSpec == BondingInit /\ [][BondingNext]_bondingVars

-----------------------------------------------------------------------------
(* Properties.                                                             *)

\* The wei the contract owns are exactly the wei it owes: what operators can
\* withdraw and what is locked in bonds.  It holds in the middle of every
\* transfer too, when the receiver's code runs and calls back into deposit,
\* withdraw, createBond, reassignBond, freeBond or seizeBond.
Solvency ==
    balance = SumFunction(unbondedValue) + SumFunction(lockedBonds)
=============================================================================
