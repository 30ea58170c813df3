------------------------------ MODULE MCSigning ------------------------------
(* Signing for TLC: two members, so one of them may miss the last messages. *)
EXTENDS Signing

CONSTANTS m1, m2

MCMembers == {m1, m2}
=============================================================================
