------------------------- MODULE MCContractBinding -------------------------
(***************************************************************************)
(* The bindings for TLC: concurrent transactions, and subscriptions.       *)
(***************************************************************************)
EXTENDS BondedECDSAKeepFactoryBinding, TLC

CONSTANTS c1, c2

MCCallers == {c1, c2}
MCEmits == KeepEmits @@ FactoryEmits @@ VendorEmits
MCPayable == {"distributeETHReward", "returnPartialSignerBonds", "openKeep",
              "requestNewGroupSelectionSeed"}

MCCall(m, options) ==
    [method |-> m, value |-> IF m \in MCPayable THEN 1 ELSE 0, gas |-> 0,
     options |-> options, attempts |-> 1, emits |-> MCEmits[m], topic |-> "t1"]

\* A goroutine that calls nothing, and no subscription.
MCIdle == [MCCall("withdraw", 0) EXCEPT !.method = "none"]

\* Two goroutines send transactions: a submission of a public key beside a call
\* of any method of any binding.
MCTransactions ==
    {[calls |-> (c1 :> first) @@ (c2 :> SubmitKeepPublicKey), event |-> "none", filter |-> {},
      faults |-> CASE first.method = "submitSignature" -> 2
                  [] first.method \in MCPayable -> 1
                  [] OTHER -> 0] :
        first \in {MCCall(m, 0) : m \in DOMAIN MCEmits} \cup {SubmitSignatureCall, MCCall("closeKeep", 2)}}

\* One goroutine sends a transaction whose event is subscribed to.
MCSubscription(m, event, filter) ==
    [calls |-> (c1 :> MCCall(m, 0)) @@ (c2 :> MCIdle), event |-> event, filter |-> filter,
     faults |-> IF event = "KeepClosed" THEN 2 ELSE 1]

MCSubscriptions ==
    UNION {{MCSubscription(m, e, {}) : e \in MCEmits[m]} : m \in DOMAIN MCEmits}
    \cup {MCSubscription("sign", "SignatureRequested", {"t1"})}

MCScenarios == MCTransactions \cup MCSubscriptions
=============================================================================
