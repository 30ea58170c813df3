-------------------------- MODULE BondedECDSAKeep --------------------------
(***************************************************************************)
(* The keep contract: AbstractBondedECDSAKeep.sol and BondedECDSAKeep.sol, *)
(* on top of the bonding contract.  A keep uses its own address both as    *)
(* the holder and as the reference ID of its members' bonds.               *)
(*                                                                         *)
(* A digest stands for the preimage it is the sha256 hash of, and a        *)
(* signature for the digest it is valid for under the key of the keep.     *)
(***************************************************************************)
EXTENDS KeepBonding

CONSTANTS
    Keys,      \* 64-byte public keys
    NoKey,     \* the empty bytes value
    Digests,
    NoDigest,
    MaxTime    \* bound on block.timestamp

Keeps == Holders

ASSUME KeepAssumption ==
    /\ Refs = Holders
    /\ NoKey \notin Keys
    /\ NoDigest \notin Digests
    /\ MaxTime \in Nat

VARIABLES
    status,               \* keep -> "None" until it is opened, then its Status
    owner,
    members,              \* keep -> sequence of operators
    submittedPublicKeys,  \* keep -> operator -> key
    publicKey,
    digest,               \* keep -> digest of the latest signing request
    digests,              \* keep -> digests ever requested (digests[d] != 0)
    signingStartTimestamp,
    memberETHBalances,
    keepBalance,          \* keep -> wei the keep contract owns
    fraudulentPreimages,
    seizeNext,            \* keep -> loop index of seizeSignerBonds
    lockedStakes,         \* keep -> operators whose stake it locks (TokenStaking)
    slashes,              \* keep -> calls to TokenStaking.slash that succeeded
    signed,               \* keep -> digests its members signed together
    rogue,                \* history: those signed before the owner requested them
    memberBond,           \* history: bond per member the keep was opened with
    now                   \* block.timestamp

keyVars == <<submittedPublicKeys, publicKey>>
signingVars == <<digest, digests, signingStartTimestamp>>
rewardVars == <<memberETHBalances, keepBalance>>
fraudVars == <<fraudulentPreimages, slashes, signed, rogue>>
lifeVars == <<status, seizeNext, lockedStakes>>
groupVars == <<owner, members, memberBond>>
keepVars == <<keyVars, signingVars, rewardVars, fraudVars, lifeVars, groupVars, now>>

KeepTypeOK ==
    /\ status \in [Keeps -> {"None", "Active", "Closed", "Terminated"}]
    /\ owner \in [Keeps -> Accounts \cup {NoAccount}]
    /\ members \in [Keeps -> Seq(Operators)]
    /\ submittedPublicKeys \in [Keeps -> [Operators -> Keys \cup {NoKey}]]
    /\ publicKey \in [Keeps -> Keys \cup {NoKey}]
    /\ digest \in [Keeps -> Digests \cup {NoDigest}]
    /\ digests \in [Keeps -> SUBSET Digests]
    /\ signingStartTimestamp \in [Keeps -> Nat]
    /\ memberETHBalances \in [Keeps -> [Operators -> Nat]]
    /\ keepBalance \in [Keeps -> Int]
    /\ fraudulentPreimages \in [Keeps -> SUBSET Digests]
    /\ seizeNext \in [Keeps -> Nat]
    /\ lockedStakes \in [Keeps -> SUBSET Operators]
    /\ slashes \in [Keeps -> Nat]
    /\ signed \in [Keeps -> SUBSET Digests]
    /\ rogue \in [Keeps -> SUBSET Digests]
    /\ memberBond \in [Keeps -> Nat]
    /\ now \in Nat

KeepInit ==
    /\ status = [k \in Keeps |-> "None"]
    /\ owner = [k \in Keeps |-> NoAccount]
    /\ members = [k \in Keeps |-> << >>]
    /\ submittedPublicKeys = [k \in Keeps |-> [o \in Operators |-> NoKey]]
    /\ publicKey = [k \in Keeps |-> NoKey]
    /\ digest = [k \in Keeps |-> NoDigest]
    /\ digests = [k \in Keeps |-> {}]
    /\ signingStartTimestamp = [k \in Keeps |-> 0]
    /\ memberETHBalances = [k \in Keeps |-> [o \in Operators |-> 0]]
    /\ keepBalance = [k \in Keeps |-> 0]
    /\ fraudulentPreimages = [k \in Keeps |-> {}]
    /\ seizeNext = [k \in Keeps |-> 1]
    /\ lockedStakes = [k \in Keeps |-> {}]
    /\ slashes = [k \in Keeps |-> 0]
    /\ signed = [k \in Keeps |-> {}]
    /\ rogue = [k \in Keeps |-> {}]
    /\ memberBond = [k \in Keeps |-> 0]
    /\ now = 1

-----------------------------------------------------------------------------
(* Helpers.                                                                *)

memberCount(k) == Len(members[k])
IsMember(k, o) == \E i \in 1..memberCount(k) : members[k][i] = o
\* Mutant of isActive: a terminated keep is not told from an active one.
isNotClosed(k) == status[k] \notin {"None", "Closed"}
isActive(k) == status[k] = "Active"
isSigningInProgress(k) == signingStartTimestamp[k] # 0
isAwaitingSignature(k, d) == isSigningInProgress(k) /\ digest[k] = d
bondAmount(o, k) == lockedBonds[<<o, k, k>>]

\* Mutant of ShareOf: the remainder is given to nobody.
ShareOfNoRemainder(k, v, o) == v \div memberCount(k)

\* What member o of keep k gets of v wei split between the members: the last
\* member also takes the remainder.
ShareOf(k, v, o) ==
    IF o = members[k][memberCount(k)]
    THEN (v \div memberCount(k)) + (v % memberCount(k))
    ELSE v \div memberCount(k)

-----------------------------------------------------------------------------
(* Key generation.                                                         *)

\* Mutant of SubmitPublicKey: a member may submit again.
SubmitPublicKeyAgain(o, k, key) ==
    /\ Calling(o)
    /\ IsMember(k, o)
    /\ submittedPublicKeys' = [submittedPublicKeys EXCEPT ![k][o] = key]
    /\ publicKey' =
         IF \A i \in 1..memberCount(k) : submittedPublicKeys'[k][members[k][i]] = key
         THEN [publicKey EXCEPT ![k] = key]
         ELSE publicKey
    /\ UNCHANGED <<signingVars, rewardVars, fraudVars, lifeVars, groupVars, now,
                   bondingVars>>

\* Neither submitPublicKey nor submitSignature checks that the keep is active.
SubmitPublicKey(o, k, key) ==
    /\ Calling(o)
    /\ IsMember(k, o)
    /\ submittedPublicKeys[k][o] = NoKey
    /\ submittedPublicKeys' = [submittedPublicKeys EXCEPT ![k][o] = key]
    /\ publicKey' =
         IF \A i \in 1..memberCount(k) : submittedPublicKeys'[k][members[k][i]] = key
         THEN [publicKey EXCEPT ![k] = key]
         ELSE publicKey
    /\ UNCHANGED <<signingVars, rewardVars, fraudVars, lifeVars, groupVars, now,
                   bondingVars>>

-----------------------------------------------------------------------------
(* Signing.                                                                *)

Sign(a, k, d) ==
    /\ Calling(a)
    /\ owner[k] = a
    /\ isActive(k)
    /\ publicKey[k] # NoKey
    /\ ~isSigningInProgress(k)
    /\ signingStartTimestamp' = [signingStartTimestamp EXCEPT ![k] = now]
    /\ digests' = [digests EXCEPT ![k] = @ \cup {d}]
    /\ digest' = [digest EXCEPT ![k] = d]
    /\ UNCHANGED <<keyVars, rewardVars, fraudVars, lifeVars, groupVars, now,
                   bondingVars>>

\* External: the members compute a signature over d off the chain, whether the
\* owner asked for it or not.
GroupSigns(k, d) ==
    /\ publicKey[k] # NoKey
    /\ signed' = [signed EXCEPT ![k] = @ \cup {d}]
    /\ rogue' = [rogue EXCEPT ![k] = IF d \in digests[k] THEN @ ELSE @ \cup {d}]
    /\ UNCHANGED <<keyVars, signingVars, rewardVars, fraudulentPreimages, slashes,
                   lifeVars, groupVars, now, bondingVars>>

SubmitSignature(o, k) ==
    /\ Calling(o)
    /\ IsMember(k, o)
    /\ isSigningInProgress(k)
    /\ digest[k] \in signed[k]
    /\ signingStartTimestamp' = [signingStartTimestamp EXCEPT ![k] = 0]
    /\ UNCHANGED <<keyVars, digest, digests, rewardVars, fraudVars, lifeVars,
                   groupVars, now, bondingVars>>

\* Mutant of checkSignatureFraud: only the latest request is remembered.
checkLatestDigest(k, d) ==
    /\ publicKey[k] # NoKey
    /\ d \in signed[k]
    /\ d # digest[k]

\* checkSignatureFraud: a valid signature over a digest never requested.
checkSignatureFraud(k, d) ==
    /\ publicKey[k] # NoKey
    /\ d \in signed[k]
    /\ d \notin digests[k]

\* slashForSignatureFraud swallows a failure of TokenStaking.slash.
SubmitSignatureFraud(k, d, slashed) ==
    /\ isActive(k)
    /\ checkSignatureFraud(k, d)
    /\ slashes' = IF slashed /\ d \notin fraudulentPreimages[k]
                  THEN [slashes EXCEPT ![k] = @ + 1]
                  ELSE slashes
    /\ fraudulentPreimages' = [fraudulentPreimages EXCEPT ![k] = @ \cup {d}]
    /\ UNCHANGED <<keyVars, signingVars, rewardVars, signed, rogue, lifeVars,
                   groupVars, now, bondingVars>>

-----------------------------------------------------------------------------
(* Rewards.                                                                *)

DistributeETHReward(a, k, v) ==
    /\ Calling(a)
    /\ status[k] # "None"
    /\ v <= wallet[a]
    /\ v \div memberCount(k) > 0
    /\ wallet' = [wallet EXCEPT ![a] = @ - v]
    /\ keepBalance' = [keepBalance EXCEPT ![k] = @ + v]
    /\ memberETHBalances' =
         [memberETHBalances EXCEPT ![k] =
            [o \in Operators |-> IF IsMember(k, o) THEN @[o] + ShareOf(k, v, o) ELSE @[o]]]
    /\ UNCHANGED <<balance, unbondedValue, lockedBonds, authorizedPools,
                   authorizedFor, stack, keyVars, signingVars, fraudVars,
                   lifeVars, groupVars, now>>

\* withdraw(_member): the balance is cleared before the beneficiary is paid.
WithdrawReward(a, k, o) ==
    /\ Calling(a)
    /\ memberETHBalances[k][o] > 0
    /\ BeneficiaryOf[o] # NoAccount
    /\ memberETHBalances' = [memberETHBalances EXCEPT ![k][o] = 0]
    /\ keepBalance' = [keepBalance EXCEPT ![k] = @ - memberETHBalances[k][o]]
    /\ wallet' = [wallet EXCEPT ![BeneficiaryOf[o]] = @ + memberETHBalances[k][o]]
    /\ Enter(BeneficiaryOf[o], NoHolder)
    /\ UNCHANGED <<balance, unbondedValue, lockedBonds, authorizedPools,
                   authorizedFor, keyVars, signingVars, fraudVars, lifeVars,
                   groupVars, now>>

\* returnPartialSignerBonds: one deposit per member.
ReturnPartialSignerBonds(a, k, v) ==
    /\ Calling(a)
    /\ status[k] # "None"
    /\ v <= wallet[a]
    /\ v \div memberCount(k) > 0
    /\ \A i \in 1..memberCount(k) : BeneficiaryOf[members[k][i]] # NoAccount
    /\ wallet' = [wallet EXCEPT ![a] = @ - v]
    /\ balance' = balance + v
    /\ unbondedValue' =
         [o \in Operators |-> IF IsMember(k, o) THEN unbondedValue[o] + ShareOf(k, v, o)
                              ELSE unbondedValue[o]]
    /\ UNCHANGED <<lockedBonds, authorizedPools, authorizedFor, stack, keepVars>>

-----------------------------------------------------------------------------
(* The end of a keep.                                                      *)

\* closeKeep, markAsClosed, freeMembersBonds and unlockMemberStakes.
CloseKeep(a, k) ==
    /\ Calling(a)
    /\ owner[k] = a
    /\ isActive(k)
    /\ \A i \in 1..memberCount(k) : bondAmount(members[k][i], k) > 0
    /\ status' = [status EXCEPT ![k] = "Closed"]
    /\ lockedStakes' = [lockedStakes EXCEPT ![k] = {o \in @ : ~IsMember(k, o)}]
    /\ unbondedValue' =
         [o \in Operators |-> IF IsMember(k, o) THEN unbondedValue[o] + bondAmount(o, k)
                              ELSE unbondedValue[o]]
    /\ lockedBonds' =
         [b \in BondIds |-> IF b[2] = k /\ b[3] = k /\ IsMember(k, b[1])
                            THEN 0 ELSE lockedBonds[b]]
    /\ UNCHANGED <<wallet, balance, authorizedPools, authorizedFor, stack,
                   keyVars, signingVars, rewardVars, fraudVars, seizeNext,
                   groupVars, now>>

\* One turn of the loop of seizeSignerBonds, up to the transfer to the owner.
SeizeMemberBond(k) ==
    /\ seizeNext[k] <= memberCount(k)
    /\ LET o == members[k][seizeNext[k]]
       IN  SeizeBondEffect(k, o, k, bondAmount(o, k), owner[k])
    /\ seizeNext' = [seizeNext EXCEPT ![k] = @ + 1]

\* seizeSignerBonds, terminateKeep, markAsTerminated and unlockMemberStakes; the
\* first member's bond is sent and the owner's code runs.
SeizeSignerBonds(a, k) ==
    /\ Calling(a)
    /\ owner[k] = a
    /\ isActive(k)
    /\ status' = [status EXCEPT ![k] = "Terminated"]
    /\ lockedStakes' = [lockedStakes EXCEPT ![k] = {o \in @ : ~IsMember(k, o)}]
    /\ SeizeMemberBond(k)
    /\ Enter(owner[k], k)
    /\ UNCHANGED <<keyVars, signingVars, rewardVars, fraudVars, groupVars, now>>

\* Mutant of ReturnToKeep: the loop ends before the last member.
ReturnToKeepEarly ==
    /\ stack # << >>
    /\ LET k == Head(stack).resume
       IN  IF k # NoHolder /\ seizeNext[k] < memberCount(k)
           THEN /\ SeizeMemberBond(k)
                /\ UNCHANGED <<stack, status, lockedStakes>>
           ELSE /\ Return
                /\ UNCHANGED lifeVars
    /\ UNCHANGED <<keyVars, signingVars, rewardVars, fraudVars, groupVars, now>>

\* The receiver's code ends.  A keep that seizes bonds goes on with the next
\* member, whose bond runs the owner's code again.
ReturnToKeep ==
    /\ stack # << >>
    /\ LET k == Head(stack).resume
       IN  IF k # NoHolder /\ seizeNext[k] <= memberCount(k)
           THEN /\ SeizeMemberBond(k)
                /\ UNCHANGED <<stack, status, lockedStakes>>
           ELSE /\ Return
                /\ UNCHANGED lifeVars
    /\ UNCHANGED <<keyVars, signingVars, rewardVars, fraudVars, groupVars, now>>

\* A new block is mined; a transaction does not span blocks.
NextBlock ==
    /\ stack = << >>
    /\ now < MaxTime
    /\ now' = now + 1
    /\ UNCHANGED <<keyVars, signingVars, rewardVars, fraudVars, lifeVars,
                   groupVars, bondingVars>>
=============================================================================
