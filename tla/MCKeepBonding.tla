--------------------------- MODULE MCKeepBonding ---------------------------
(***************************************************************************)
(* Two operators and their token owner.  The owner is the beneficiary of   *)
(* both operators.                                                         *)
(***************************************************************************)
EXTENDS KeepBonding

CONSTANTS op1, op2, tokenOwner

MCAccounts == {op1, op2, tokenOwner}
MCOperators == {op1, op2}
MCBeneficiaryOf == [o \in MCOperators |-> tokenOwner]
MCInitialWei == [a \in MCAccounts |-> 1]
MCOwnerOf == [o \in MCOperators |-> tokenOwner]
=============================================================================
