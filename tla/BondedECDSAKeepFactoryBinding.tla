-------------------- MODULE BondedECDSAKeepFactoryBinding --------------------
(***************************************************************************)
(* Generated bindings of the keep factory and of the keep vendor over the  *)
(* common template.                                                        *)
(***************************************************************************)
EXTENDS BondedECDSAKeepBinding

FactoryEmits ==
    [beaconCallback |-> {}, createSortitionPool |-> {"SortitionPoolCreated"},
     isRecognized |-> {}, openKeep |-> {"BondedECDSAKeepCreated"},
     registerMemberCandidate |-> {}, requestNewGroupSelectionSeed |-> {},
     setMinimumBondableValue |-> {}, updateOperatorStatus |-> {}]

BeaconCallback(g) == Transact(g, "beaconCallback", FALSE)
CreateSortitionPool(g) == Transact(g, "createSortitionPool", FALSE)
IsRecognized(g) == Transact(g, "isRecognized", FALSE)
OpenKeep(g) == Transact(g, "openKeep", TRUE)
RegisterMemberCandidate(g) == Transact(g, "registerMemberCandidate", FALSE)
RequestNewGroupSelectionSeed(g) == Transact(g, "requestNewGroupSelectionSeed", TRUE)
SetMinimumBondableValue(g) == Transact(g, "setMinimumBondableValue", FALSE)
UpdateOperatorStatus(g) == Transact(g, "updateOperatorStatus", FALSE)

BondedECDSAKeepCreated == Pipe("BondedECDSAKeepCreated", Filtered)
watchBondedECDSAKeepCreated == Watch("BondedECDSAKeepCreated")
SortitionPoolCreated == Pipe("SortitionPoolCreated", Filtered)
watchSortitionPoolCreated == Watch("SortitionPoolCreated")

VendorEmits ==
    [completeFactoryUpgrade |-> {"FactoryUpgradeCompleted"}, initializeVendor |-> {},
     upgradeFactory |-> {"FactoryUpgradeStarted"}]

CompleteFactoryUpgrade(g) == Transact(g, "completeFactoryUpgrade", FALSE)
InitializeVendor(g) == Transact(g, "initializeVendor", FALSE)
UpgradeFactory(g) == Transact(g, "upgradeFactory", FALSE)

FactoryUpgradeCompleted == Pipe("FactoryUpgradeCompleted", Unfiltered)
watchFactoryUpgradeCompleted == Watch("FactoryUpgradeCompleted")
FactoryUpgradeStarted == Pipe("FactoryUpgradeStarted", Unfiltered)
watchFactoryUpgradeStarted == Watch("FactoryUpgradeStarted")

----------------------------------------------------------------------------
FactoryBindingNext ==
    \/ \E g \in Callers :
        \/ BeaconCallback(g) \/ CreateSortitionPool(g) \/ IsRecognized(g)
        \/ OpenKeep(g) \/ RegisterMemberCandidate(g) \/ RequestNewGroupSelectionSeed(g)
        \/ SetMinimumBondableValue(g) \/ UpdateOperatorStatus(g)
        \/ CompleteFactoryUpgrade(g) \/ InitializeVendor(g) \/ UpgradeFactory(g)
    \/ BondedECDSAKeepCreated \/ watchBondedECDSAKeepCreated
    \/ SortitionPoolCreated \/ watchSortitionPoolCreated
    \/ FactoryUpgradeCompleted \/ watchFactoryUpgradeCompleted
    \/ FactoryUpgradeStarted \/ watchFactoryUpgradeStarted

Environment ==
    \/ \E g \in Callers : withRetry(g) \/ ForceMining(g)
    \/ NonceExpires \/ DropTransaction \/ Mine \/ MineEmpty

BindingNext == KeepBindingNext \/ FactoryBindingNext \/ Environment

BindingSpec == BindingInit /\ [][BindingNext]_bindingVars

Sending(g) == call(g).method # "none" /\ UNCHANGED <<scenario, subscriber>>

\* Goroutines that can run do run in the end, transactions with the next nonce
\* are mined and the ticker fires. Nobody is bound to unsubscribe, and nothing
\* is assumed of the stream.
BindingFairSpec ==
    /\ BindingSpec
    /\ \A g \in Callers :
        /\ SF_bindingVars(Sending(g) /\ LockMutex(g))
        /\ WF_bindingVars(Sending(g) /\ (TakeNonce(g) \/ SubmitTransaction(g)))
        /\ WF_bindingVars(ForceMining(g)) /\ WF_bindingVars(withRetry(g))
    /\ WF_bindingVars(Mine)
    /\ WF_bindingVars(Tick /\ faults' = faults /\ UNCHANGED <<scenario, senders, host>>)
    /\ SF_bindingVars(PushFetched /\ UNCHANGED <<scenario, senders, host>>)
    /\ WF_bindingVars(CallHandler /\ UNCHANGED <<scenario, senders, host>>)
=============================================================================
