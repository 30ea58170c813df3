------------------------ MODULE MCThresholdProtocols ------------------------
(***************************************************************************)
(* The protocols of a keep for TLC.                                        *)
(***************************************************************************)
EXTENDS ThresholdProtocols, TLC

CONSTANTS m1, m2, m3

MCFee == (m1 :> 2) @@ (m2 :> 1) @@ (m3 :> 2)

\* The order of the members by their addresses is another one for every index.
MCAddress ==
    (m1 :> (0 :> 1 @@ 1 :> 6 @@ 2 :> 8)) @@
    (m2 :> (0 :> 4 @@ 1 :> 2 @@ 2 :> 9)) @@
    (m3 :> (0 :> 7 @@ 1 :> 5 @@ 2 :> 3))

MCGroup(set, task, bound) == [members |-> set, job |-> task, faults |-> bound]
MCGroups ==
    UNION {{MCGroup({m1, m2}, task, 3), MCGroup({m1, m2, m3}, task, 0)} :
             task \in {"keygen", "signing", "recovery"}}
=============================================================================
