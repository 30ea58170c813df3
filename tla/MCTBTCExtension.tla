--------------------------- MODULE MCTBTCExtension ---------------------------
(***************************************************************************)
(* The tbtc extension for TLC: a deposit that waits for its keep to sign   *)
(* up, one that is redeemed with every monitor and faults, and two whose   *)
(* fee is increased, with a fault and again and again.                     *)
(***************************************************************************)
EXTENDS TBTCExtension

MCHandlers == 1..2

MCScenario(first, names, n, bound) ==
    [state |-> first, monitors |-> names, rounds |-> n, faults |-> bound]
MCScenarios ==
    {MCScenario("AwaitingSignerSetup", {"pubkey"}, 0, 2),
     MCScenario("Funding", {"signature", "proof"}, 1, 1),
     MCScenario("Funding", {"proof"}, 2, 1),
     MCScenario("Funding", {"proof"}, 3, 0)}
=============================================================================
