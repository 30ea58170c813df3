---------------------- MODULE MCBondedECDSAKeepFactory ----------------------
(***************************************************************************)
(* Two operators and the application that opens and owns the keeps.        *)
(***************************************************************************)
EXTENDS BondedECDSAKeepFactory, TLC

CONSTANTS op1, op2, app, k1, k2

MCAccounts == {op1, op2, app}
MCOwners == {app}
MCOperators == {op1, op2}
MCBeneficiaryOf == [o \in MCOperators |-> o]
MCOwnerOf == [o \in MCOperators |-> o]
\* Rewards of up to 4 wei split between members that bond 1 wei each.
MCRichOwner == [a \in MCAccounts |-> IF a = app THEN 4 ELSE 1]
\* Operators that can bond for two keeps at once.
MCRichOperators == [a \in MCAccounts |-> IF a = app THEN 0 ELSE 2]

\* Rewards and signing do not depend on each other, so they are not mixed: either
\* no key was submitted, or the owner has paid for nothing but the keep and no
\* call runs inside a call and no time passes.
MCRewardsOrSigning ==
    \/ \A k \in Holders : submittedPublicKeys[k] = [o \in Operators |-> NoKey] /\ digests[k] = {}
    \/ wallet[app] + Fee >= InitialWei[app] /\ Len(stack) <= 1 /\ now = 1

\* The operators have the same role in every constant, and so have the keeps,
\* the keys and the digests.
MCOneKeep == {k1}
MCTwoKeeps == {k1, k2}
MCSymmetry ==
    UNION {Permutations(S) : S \in {MCOperators, MCTwoKeeps, Keys, Digests}}
=============================================================================
