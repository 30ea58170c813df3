----------------------- MODULE BondedECDSAKeepBinding -----------------------
(***************************************************************************)
(* Generated binding of the keep contract: its methods and its events over *)
(* the common template, and the handle the client uses it through.         *)
(***************************************************************************)
EXTENDS ContractBinding

\* Events the contract emits when a call of the method is mined.
KeepEmits ==
    [closeKeep |-> {"KeepClosed"}, distributeERC20Reward |-> {"ERC20RewardDistributed"},
     distributeETHReward |-> {"ETHRewardDistributed"}, initialize |-> {},
     returnPartialSignerBonds |-> {}, seizeSignerBonds |-> {"KeepTerminated"},
     sign |-> {"SignatureRequested"},
     submitPublicKey |-> {"PublicKeyPublished", "ConflictingPublicKeySubmitted"},
     submitSignature |-> {"SignatureSubmitted"},
     submitSignatureFraud |-> {"SlashingFailed"}, withdraw |-> {}]

CloseKeep(g) == Transact(g, "closeKeep", FALSE)
DistributeERC20Reward(g) == Transact(g, "distributeERC20Reward", FALSE)
DistributeETHReward(g) == Transact(g, "distributeETHReward", TRUE)
InitializeKeep(g) == Transact(g, "initialize", FALSE)
ReturnPartialSignerBonds(g) == Transact(g, "returnPartialSignerBonds", TRUE)
SeizeSignerBonds(g) == Transact(g, "seizeSignerBonds", FALSE)
Sign(g) == Transact(g, "sign", FALSE)
SubmitPublicKey(g) == Transact(g, "submitPublicKey", FALSE)
SubmitSignature(g) == Transact(g, "submitSignature", FALSE)
SubmitSignatureFraud(g) == Transact(g, "submitSignatureFraud", FALSE)
Withdraw(g) == Transact(g, "withdraw", FALSE)

\* A subscription without indexed arguments has no filter.
Unfiltered == {{}}
\* One with indexed arguments may ask for some of their values only.
Filtered == SUBSET {"t1"}

ConflictingPublicKeySubmitted == Pipe("ConflictingPublicKeySubmitted", Filtered)
watchConflictingPublicKeySubmitted == Watch("ConflictingPublicKeySubmitted")
ERC20RewardDistributed == Pipe("ERC20RewardDistributed", Filtered)
watchERC20RewardDistributed == Watch("ERC20RewardDistributed")
ETHRewardDistributed == Pipe("ETHRewardDistributed", Unfiltered)
watchETHRewardDistributed == Watch("ETHRewardDistributed")
KeepClosed == Pipe("KeepClosed", Unfiltered)
watchKeepClosed == Watch("KeepClosed")
KeepTerminated == Pipe("KeepTerminated", Unfiltered)
watchKeepTerminated == Watch("KeepTerminated")
PublicKeyPublished == Pipe("PublicKeyPublished", Unfiltered)
watchPublicKeyPublished == Watch("PublicKeyPublished")
SignatureRequested == Pipe("SignatureRequested", Filtered)
watchSignatureRequested == Watch("SignatureRequested")
SignatureSubmitted == Pipe("SignatureSubmitted", Filtered)
watchSignatureSubmitted == Watch("SignatureSubmitted")
SlashingFailed == Pipe("SlashingFailed", Unfiltered)
watchSlashingFailed == Watch("SlashingFailed")

----------------------------------------------------------------------------
(* Calls of the chain handle: wei, gas limit, option sets, attempts. *)

SubmitKeepPublicKey ==
    [method |-> "submitPublicKey", value |-> 0, gas |-> 1, options |-> 1, attempts |-> 2,
     emits |-> KeepEmits.submitPublicKey, topic |-> "t2"]

SubmitSignatureCall ==
    [method |-> "submitSignature", value |-> 0, gas |-> 0, options |-> 0, attempts |-> 1,
     emits |-> KeepEmits.submitSignature, topic |-> "t1"]

\* Subscriptions of the handle: none of them filters.
OnSignatureRequested == [event |-> "SignatureRequested", filter |-> {}]
OnConflictingPublicKeySubmitted == [event |-> "ConflictingPublicKeySubmitted", filter |-> {}]
OnPublicKeyPublished == [event |-> "PublicKeyPublished", filter |-> {}]
OnKeepClosed == [event |-> "KeepClosed", filter |-> {}]
OnKeepTerminated == [event |-> "KeepTerminated", filter |-> {}]

\* Some step of the keep binding.
KeepBindingNext ==
    \/ \E g \in Callers :
        \/ CloseKeep(g) \/ DistributeERC20Reward(g) \/ DistributeETHReward(g)
        \/ InitializeKeep(g) \/ ReturnPartialSignerBonds(g) \/ SeizeSignerBonds(g)
        \/ Sign(g) \/ SubmitPublicKey(g) \/ SubmitSignature(g)
        \/ SubmitSignatureFraud(g) \/ Withdraw(g)
    \/ ConflictingPublicKeySubmitted \/ watchConflictingPublicKeySubmitted
    \/ ERC20RewardDistributed \/ watchERC20RewardDistributed
    \/ ETHRewardDistributed \/ watchETHRewardDistributed
    \/ KeepClosed \/ watchKeepClosed
    \/ KeepTerminated \/ watchKeepTerminated
    \/ PublicKeyPublished \/ watchPublicKeyPublished
    \/ SignatureRequested \/ watchSignatureRequested
    \/ SignatureSubmitted \/ watchSignatureSubmitted
    \/ SlashingFailed \/ watchSlashingFailed
=============================================================================
