# A TLA+ verification project for keep-ecdsa

keep-ecdsa lets groups of bonded operators hold ECDSA keys ("keeps") and sign
with them.  Contracts on a host chain (Ethereum or Celo) open keeps, lock the
operators' bonds and order signatures; every operator runs a Go client that
follows the chain, generates its share of a key together with the other
members, signs, and lets go of the keep when it ends.

This directory holds TLA+ modules that model the contracts and the client, TLC
configurations that check them on small instances, and TLAPS proofs of the
properties that matter most for every size.  `PROJECT.json` lists the
components, the source lines every definition stands for, the runs with the
mutants that show they can fail, the hazards they are aimed at, the findings
and the theorems.

## 1. Inventory

| Part | State it keeps | Operations | Interacts with |
|---|---|---|---|
| `AbstractBonding`, `KeepBonding` | unbonded value, locked bonds, authorised sortition pools | deposit, withdraw, create, reassign, free and seize bonds | pays receivers with `call.value`, which runs their code; called by factory and keeps |
| `AbstractBondedECDSAKeep`, `BondedECDSAKeep` | members, submitted keys, public key, current digest, requested digests, rewards, fraud reports, status | submit key, sign, submit signature, report fraud, distribute and withdraw rewards, return bonds, close, seize | bonding, token staking (locks, slashing), owner |
| `BondedECDSAKeepFactory`, `KeepCreator`, `GroupSelectionSeed` | keeps opened, seed, reseed pool | open keep, reseed | sortition pools, random beacon, bonding, new keeps |
| client event handlers (`pkg/client`) | subscriptions, one goroutine per event | keep created, signature requested, keep closed, keep terminated; checks at start-up | deduplicator, registry, node, chain |
| deduplicator (`pkg/client/event`) | keys, digests and ends being handled | Notify...Started, Notify...Completed | registry, chain |
| registry (`pkg/registry`) | signers in memory; current files, snapshots, archive | register, snapshot, unregister, load | disk |
| node (`pkg/node`) | pre-parameters pool; loops over attempts | generate a signer, monitor its key, calculate and publish a signature | threshold protocols, chain, registry |
| threshold protocols (`pkg/ecdsa/tss`) | messages received per round | announce, ready, recovery address, key generation, signing | broadcast and unicast channels |
| generated bindings (`pkg/chain/gen`) and chain handles | nonce and mutex of the account, options, subscriptions | send a transaction and have it mined, call, subscribe to an event with a stream and a ticker | host chain node, everything above |
| messages and signers (`pkg/ecdsa/tss/gen/pb`, `marshaling.go`) | none | marshal, unmarshal | network, disk |
| liquidation recovery | derivation indexes on disk | agree on addresses and fee, sign and broadcast a bitcoin transaction | protocols, bitcoin, tBTC |
| tBTC extension | monitoring lock per deposit, caches | monitor and act on key retrieval, redemption signature and proof | chain |
| sortition pool registration (`pkg/client`) | where its loop is | register, wait, keep the status up to date | chain |
| firewall (`pkg/firewall`) | caches of authorizations, memberships, active keeps and members | validate a peer | chain |

What is hard: contract calls that run foreign code in the middle of a loop; bonds
of one operator behind several keeps; goroutines that check and then act; events
delivered late, twice, or from a fork that is dropped; crashes between writing
to disk and sending a transaction; several members that each rely on another
one to publish; retry loops and their timeouts.  The list with source lines is
under `hazards` in `PROJECT.json`.

## 2. Modules

    KeepBonding <- BondedECDSAKeep <- BondedECDSAKeepFactory   (contracts)
                                       |  INSTANCE KeepLifecycle (abstract keep)
    KeepRegistry <- KeyGeneration                              (client)
    KeepRegistry <- KeepClosing
    Signing                                                    (clients of all members)
    ContractBinding <- BondedECDSAKeepBinding <- BondedECDSAKeepFactoryBinding
    ThresholdProtocols                                         (members of a keep)
    ProtobufWire <- TSSMessages <- Marshaling
    TBTCExtension
    LiquidationRecovery, Registration, Firewall                (MCClientServices)

An arrow means EXTENDS.  `MC...` modules give constants their values for TLC and
`...Proofs` modules hold the theorems about the module they are named after
(`ClientServicesProofs`: those about `TBTCExtension`, `LiquidationRecovery` and
`Firewall`).

**KeepBonding.** State variables have the names of the contract's.  `stack` holds
the pending `call.value` calls: while it is not empty, only the receiver of the
latest one acts, and it may call any public function.  `resume` of a frame names
the keep that waits in `seizeSignerBonds`.  A call that reverts is an action that
is not enabled, because it restores the state it started from.  Token staking
(who owns, benefits from and authorises an operator) is external and given by
constants.

**BondedECDSAKeep.** One action per public function.  `seizeSignerBonds` is split
where it runs foreign code: `SeizeSignerBonds` terminates the keep and pays for
the first member, `ReturnToKeep` resumes the loop.  `GroupSigns` stands for what
the members' clients may have signed, requested (legitimate) or not (`rogue`).
ECDSA recovery is modelled by which group signed which digest.

**BondedECDSAKeepFactory.** `OpenKeep` with everything it calls: the beacon
request that may fail, the group chosen by the pool (any group of operators with
enough available value), creating and initialising the keep, locking stakes and
creating a bond for each member.  The whole system of contracts is its `Spec`.

**KeepLifecycle.** What a keep promises: opened once, ended once, one key, one
request at a time.  The contracts are shown to implement it with a refinement
mapping (`ImplementsLifecycle`).

**KeepRegistry.** One keep: the signer in memory, in the current file, in the
snapshots and in the archive, with storage calls that may fail.  A signer is
named after the key it holds a share of.

**KeyGeneration.** One client and one keep.  Goroutines are event handlers and
the start-up check; their program counter moves through `NotifyKeyGenStarted`
(three critical sections, so three actions), the attempts of
`GenerateSignerForKeep`, snapshot, submission and registration.  The monitor of
the public key submission runs beside them, one per submitted key.  Transactions
wait in `pending` and are mined in order; a fork may be dropped.  An attempt of
the threshold protocol (external cryptography) fails or yields a fresh key.  The
keep was opened within the period the start-up check looks back.

**KeepClosing.** One client and one keep with a registered signer.  Handlers of
closed and terminated events share their deduplication steps; the recovery is a
step that succeeds, fails or finds the deposit not funded.  Start-up is the
goroutine that checks a stored keep.  Blocks have an age counted up to
`Confirmations`; an end of that age is not dropped any more.  The channel to the
monitor has no buffer: `Notify` is not enabled for a second handler, which then
stays where it is, as the goroutine does.

**Signing.** The clients of all members and one digest of one keep.  Each member
has an event handler and a start-up check that race in the deduplicator;
`CalculateSignature` is the joint step of the threshold protocol, which some of
the members may miss; then each member runs the loop of `publishSignature` with
its first look at the chain, submission, `waitForSignature` and
`confirmSignature`.  Transactions may be lost, revert, or return to the pool when
a fork is dropped.  The publication delay by signer index is only time and is
left out.

**ContractBinding** is what the generated bindings of every contract do:
`Transact` is a method that changes state, split at the calls to the chain node
(mutex, nonce, submission, start of the mining waiter), and a subscription is its
stream, its ticker and the channel both push into.  The nonce manager, the
mining waiter and the resubscription are libraries, modelled from how they are
used.  **BondedECDSAKeepBinding** and **BondedECDSAKeepFactoryBinding** give the
methods and the events of the contracts, one definition each, with the handle the
client uses them through; the Ethereum and the Celo bindings differ in types only.

**ThresholdProtocols.** The members of one keep generate a key, sign or recover:
announcement, exchange of recovery infos, connection, readiness, and two rounds
that stand for those of the threshold library.  Messages are lost and late, and
carry no number of the attempt.  The pool and the box of pre-parameters are part
of the module.  `DestroyContent` empties the box; how many parties were started with
the pre-parameters of the box is counted apart from it, in the history variable
`shown`, so that a box that keeps its content would be noticed.  An address or a
fee that is received again replaces the one received before.  The members gather
the addresses in any order (a Go map is iterated over) and sort them; what
a member signs is the list that results.

**TBTCExtension.** `monitorAndAct` for one deposit with a goroutine per start
event: `shouldMonitorDeposit` with its cache, the lock, the stop events and their
confirmation, the deadline, the attempts.  The deposit contract is external.  Its
history field `watchers` holds the monitorings that began no later than the deposit's
present stay in its state; a fork takes it back together with the state.

**ProtobufWire, TSSMessages, Marshaling.** The generated protobuf code: sizes,
varints, field by field unmarshalling with its index and its errors, unknown
fields and groups, and the conversions of messages and signers around it.  Bytes
are numbers.  A word has 22 bits and an int32 11 in the run: as with 64 and 32,
the word fills its last group of seven bits only with one, and a negative integer
is extended to a word.  A field that a later version added is a sequence of
elements (varints, fixed 64 and 32 bit values, strings, starts and ends of groups)
with a number no message knows; `UnknownFields` says which sequences are one field,
and `Additions` are some of them.  `big.Int` is a natural number, written highest
byte first and without leading zeros (`BigBytes`, `SetBytes`).  `WireAssumption`
says what is marshalled: values of the fields' types, signers whose points are on
the curve, encodings whose length an int holds.  The persistence layer also
encrypts signers, which is left out.

**LiquidationRecovery.** The recoveries of several keeps of one client side by
side: every call that may fail, the index files on disk with their mutex, and the
fee in integers of `IntBits` bits.  A restart archives the keep without a
recovery, as `KeepClosing` shows.

**Registration.** The three loops of `registration.go` as one goroutine; the pool
is external.

**Firewall.** A validation is a goroutine, step by step through the caches.  A
cache maps what it holds to an age, and time passes between validations (a
validation is short beside periods of hours and days).

**MCClientServices** puts the last three together.  They share no state, so a
behaviour is one of one service (`service`), and the others keep their initial
state.

## 3. Runs

Passing runs:

| Run | Shows | Bounds |
|---|---|---|
| `bonding` | the contract owns exactly the wei it owes, with receivers that call back | 2 operators, 2 holders, nested calls of depth 2 |
| `keep` | keep and factory own exactly the wei they owe: rewards with a remainder, partial returns of bonds, reseeding; key agreement, only rogue groups are slashed, the lifecycle is implemented | 1 keep, 2 members, depth 2, amounts up to a few wei, 2 keys, 2 digests |
| `keep_pair` | active keeps are fully backed, ended keeps hold nothing, a seizure never gets stuck | 2 keeps over the same operators, depth 2 |
| `key_generation` | shares survive, registry and disk agree, handlers exclude each other and are tracked exactly as long as they run | 2 handlers and the start-up check, 2 keys, crashes, a dropped fork |
| `closing` | only keeps that ended for good are archived, funds are recovered once; a closed keep is unregistered in the end | 3 handlers, 2 confirmations, 2 crashes, 1 dropped fork, with and without chain errors, fairness |
| `signing` | exact deduplication; only confirmed requests are signed; published signatures stay; a confirmed request is served | 2 members with 2 goroutines each, 1 confirmation, 1 crash, 1 dropped fork, with and without errors and timeouts, fairness |
| `bindings` | nonces do not mix, a call is mined once, no nonce blocks the account, every event reaches its handler | every method beside another transaction, every event subscribed to, up to 2 faults, fairness |
| `protocols` | pre-parameters are shown once and not thrown away before, nobody starts the party early, recoveries agree, attempts complete | for each task, 2 members with 3 faults and 3 members without, addresses that sort differently for every index, fairness |
| `tbtc` | monitorings exclude each other, stop for confirmed changes only, end, and get the key retrieved | 2 handlers; set-up with 2 faults, a redemption with 1, 2 rounds of its proof with 1, 3 rounds with none; 3 attempts; fairness |
| `marshaling` | what was not damaged comes back, a cut signer is refused, reading stays within the data | every message, lengths around a varint boundary, negative integers; cut at every place, a byte changed, unknown fields |
| `services` | no address twice, recoveries end; the pool status settles; the firewall admits and refuses for recent reasons | 2 keeps with 2 faults; 3 changes of stake with 2 faults; 2 peers and 1 keep, 1 peer and 2 keeps, 2 validations at once; cache periods of 1 |

The type invariants of the contracts, of key generation, signing and closing, of the
protocols, of the tBTC extension and of marshaling are proved (section 4), and `keep` checks the one
of the contracts as well.  Those of the other modules describe the domains of the
variables; their proofs use the parts of them that they need, and the runs spend their
time on other properties.

`keep` asks two questions of one keep.  They are not mixed: the constraint
`MCRewardsOrSigning` leaves out states in which keys or digests meet rewards,
nested calls or the passing of time, which no action combines.  Runs that choose
a scenario, a case or a fault mode in the initial state (`bindings`, `protocols`,
`tbtc`, `services`, `closing`, `signing`) have one part of the state space for
each.

Why the bounds are enough: races in the deduplicator need two goroutines (three
for a late duplicate after a first handler finished); re-entrancy needs one
callback inside another; cross-keep effects need two keeps; a remainder needs
two members and an odd amount; a confirmation count needs one block more than
zero, and two, in `closing`, to tell "some" from "enough".  One dropped fork is what waiting
for confirmations is meant to survive: with a second one, a request or
signature that was mined again during the wait can be dropped again, and
`SignsOnlyRequested` and `SignatureStays` do not hold.  `MaxRestarts`,
`MaxReorgs`, `MaxPending`, `MaxDepth` and `MaxTime` bound what would make the
state space infinite.  The proofs below need none of these bounds.

One run is expected to find a violation and shows where a comment says something
else than the code (`findings` in `PROJECT.json`): in `key_generation_twice` the
start-up check does not use the deduplicator, and two key generations of one keep
run at once.

The models show more such places, without a run of their own:

- `closeKeep` and `seizeSignerBonds` end a keep whose signature was just requested;
  their comments say that no signing may be in progress.
- A terminated keep whose deposit was not funded, or whose retries end, is never
  unregistered (`RecoveryNotFunded`); the comment of `monitorKeepTerminatedEvent`
  says that it is.
- A closed event of a dropped fork can archive the signer of a keep that was then
  terminated before its recovery starts, and a restart archives it without a recovery.
- While `IsActive` fails, `GenerateSignerForKeep` goes on past its context.
- `confirmSignature` counts confirmations from the block it starts at, so a
  signature that was dropped and mined again meanwhile is accepted with fewer;
  `SignatureStays` holds for one dropped fork nevertheless.
- tBTC: a monitoring that raised the fee holds its lock until the change is
  confirmed; a signature of the new round within that time finds the lock taken,
  and the new round is monitored by nobody (`tbtc.go:627`; the comment at 394 says
  "Start right after a redemption signature has been provided").
- The derivation index storage removes the old index before it writes the new one:
  a crash or a failing write between gives addresses out again, which its comment
  excludes.  `AddressIsFresh` names that case, `interrupted`.
- After a registration was sent, `waitUntilRegistered` waits for ever when the
  transaction is lost (`missed` in `StatusSettles`).
- One failing call to the chain makes the firewall refuse a member of an active
  keep for a whole period (`failure` in `RefusalIsRecent`).
- A failing block counter makes a ticker of a binding search from block
  `0 - PastBlocks`, wrapped around: that tick fetches nothing (`EventIsHandled`).

### Fairness

- `KeepClosing!FairSpec`: blocks are mined, goroutines run, a stopped client is
  started again with readable files, and subscriptions deliver past events again
  at every tick (`Tick: 4 * time.Hour, PastBlocks: 2000`).
- `Signing!FairSpec`: the same, an attempt of the threshold protocol succeeds
  for some member once all members stay in it, and a transaction that is sent
  again and again is mined.  Both ask fairness only of behaviours without failing
  calls and timeouts: a handler gives up for good after an error or its timeout, so
  the properties are about what happens without.  Past events are fetched again
  only for a limited number of blocks; the property uses that for an event that
  arrives while an older one of a dropped fork is still handled.
- `BindingFairSpec`: goroutines run, blocks are mined, a broken stream is
  resubscribed and the ticker ticks, all of which the library and the chain do
  for ever; a request that is made again and again succeeds in the end (faults
  are bounded).
- `ProtocolFairSpec`: weak fairness of each member's `Progress`, which includes
  hearing what another member sends again and again, of `pumpPool`, and of dropping
  messages nobody needs; strong fairness of the timeout of a member in a group in
  which nothing can happen any more, since the timeouts of others may interrupt
  that.  Time is not modelled: with
  three members and a fault, untimed timeouts can rotate among the members for
  ever, so attempts with faults are checked for two members.
- `TBTCFairSpec`: handlers run, the clock reaches deadlines, the members sign.
- `RecoveryFairSpec`, `RegistrationFairSpec`: the goroutine runs and the chain
  mines transactions that are not lost.  `Firewall` has safety properties only.

## 4. Proofs

All theorems hold for every value of the constants allowed by the named
assumptions (`BondingAssumption`, `FactoryAssumption`, `GenerationAssumption`,
...), which TLC also evaluates in the runs.

Every safety property that a passing run checks is the statement of a theorem.

**BondedECDSAKeepFactoryProofs**: `TypeCorrect`, `Backing` (ActiveKeepIsBacked),
`NothingLeftLocked` (EndedKeepHoldsNothing), `SeizureNeverReverts`
(SeizureCanContinue).  None of them is inductive: what a callback may find in the
middle of a seizure has to be said.  `IInv` adds, per keep, which members' bonds
are still locked (all while it is active; from `seizeNext` on while it is being
seized; none once it ended), that keeps not yet opened hold nothing, and
`StackInv`, that every frame that resumes a keep belongs to a terminated one and
that an unfinished seizure has such a frame.  One lemma per action shows that it
is preserved.

- `KeyAgreement` (PublicKeyAgreement) and `SlashedOnlyForFraud`
  (OnlyRogueGroupsSlashed) need two more invariants: `RequestInv`, that a keep not yet
  opened has no key and no request and that a request in progress has a digest, and
  `FraudInv`, that whatever was signed was requested or is marked as rogue, and every
  reported fraud is one of the latter.
- `LifecycleImplemented` is the refinement `Spec => ImplementsLifecycle`.  The steps
  are sorted by what they do to the three mapped variables (`Effect`), and each kind
  is a step of `KeepLifecycle` or a stutter.
- `BondsAreSolvent` and `KeepsAreSolvent` (Solvency, of the bonding contract with
  arbitrary holders and of the whole system) and `RewardsAreSolvent`
  (RewardsSolvency).  These are about sums over functions.  `SumFunction` is a fold
  that picks the elements of the domain in an order of its own; `SubsetInduction`,
  an induction over the subsets of a finite set from the well-foundedness of strict
  inclusion, shows that the order does not matter (`IterAny`), and from it follow
  the three lemmas the contracts need: what a sum does when one entry changes
  (`SumChanges`), when wei move between two ledgers along an injection
  (`SumMoves`: opening and closing move the bonds of a whole group at once), and
  when wei are split between members with a remainder (`SharesAdd`).  The ledgers
  are finite because addresses and reference IDs have a fixed number of bytes, which
  `BondingAssumption` says.

**KeyGenerationProofs**: `GenerationTypeCorrect`, `ShareSafety`,
`RegisteredSubmitted`, `RegistryDurability`, `HandlerExclusion`.  `IInv` adds to
the types how far each goroutine is (`SavedInv`: from the snapshot on, its key is
in a snapshot; from the submission on, it was sent; everything pending or
monitored was sent), where keys come from (`SentInv`), that a handler generates
exactly while the keep is tracked, and that the start-up check never is in the
steps of the deduplicator (`TrackInv`).

**SigningProofs**: `SigningTypeCorrect`, `SigningDeduplicated`
(DeduplicatorIsExact).  Exactness is inductive once one knows that a client that
is down has no goroutine (`DownIsIdle`).  Each step is one of three moves, within
`Handling`, into it or out of it, with a lemma for each.  `SignedWasRequested`
(SignsOnlyRequested) and `PublishedStays` (SignatureStays) hold while at most one
fork is dropped, for every number of confirmations, members, crashes and errors.
`ForkInv` has two parts: before the fork, no goroutine and no event counts more
blocks than the chain has on top of the request or of the signature it is about
(`BeforeFork`); and whatever the members did is about a request or a signature that
is either old enough or was mined again after the fork (`Founded`).

**KeepClosingProofs**: `ClosingTypeCorrect`, `RecoveryIsOnce` (RecoveredOnce),
`ArchivedIsOver` (ArchivedHasEnded, with at most one dropped fork).  `OneBusy` says
that the deduplicator lets one handler per kind of event past it, and
`RecoveryUsesSigner` that after the recovery the signer is gone or its handler is
about to remove it, so that a late event finds none.  `ForkInv` is as for signing,
with the end of the keep in place of the request.

**ContractBindingProofs**: `CallsMinedOnce` (MinedOnce), `NoncesDoNotCollide`
(OwnNonce), both from `BindingInvariant`.  `NonceInv` and `ChainInv` relate the
nonces of the calls, of the transactions in the pool and of the mined ones (a
resubmission has the nonce of what it replaces), `MutexInv` says that one caller at
a time is between reading the nonce and submitting, and `Orderly` what holds while
the chain client has lost nothing.  They are about the methods and events of every
binding at once.

**ThresholdProtocolsProofs**, for groups of every size: `ProtocolTypeCorrect`,
`ShownOnce` (PreParamsShownOnce), `NobodyStartsEarly` (NoEarlyStart),
`RecoveriesAgree` (RecoveryAgreement) and `UndisturbedAttemptsGoOn`, that without a
fault no member falls back to another attempt.  `BoxInv` relates the box to the
count of parties its pre-parameters were shown to: a full box was never shown,
an empty one exactly once.  The agreement needs that sorting gives one list whatever
the order of gathering (`SortedAlike`).  `AttemptInv` holds
with faults: a message of a round belongs to the attempt its sender is in, and what
a member has of another fits its own attempt unless one of the two cannot finish
(`RoundFits`).  Without faults the members pass the stages in step (`InStep`) and
whatever a member still waits for is offered or on its way (`Supplied`,
`RoundsSupplied`), which is why they cannot all wait.

**ClientServicesProofs**: `AddressesFresh` (AddressIsFresh): the mutex gives the
storage to one recovery at a time, and every index that was given out is covered by
a file or by the save that has just removed it (`IndexInv`).  `AdmissionsAreRecent`
and `RefusalsAreRecent` (AdmissionIsRecent, RefusalIsRecent), for any cache periods:
every cached answer is as good as its age (`CacheInv`), and a search under way has
evidence for what it looked at so far (`ValidationInv`).

About the tBTC extension the same module proves `TBTCTypeCorrect`, `LocksAreExact` (LockIsExact),
`StopsAreConfirmed` (StopIsConfirmed, an action property), `FeeStepIsRight`, that
the step read off the past requests is the deposit's.  `StopInv` says that when a
stop is about to be sent, neither the deposit nor what a fork would make of it is
back where the monitoring began.

**MarshalingProofs**, for words and integers of any widths (`WidthAssumption`), every
message and every signer:

- `SizeIsLength`: the generated Size is the length of what Marshal writes, of every
  message.  It rests on what a varint takes (`SovIs`, `EncodeIs`) and on a table of the
  kinds of messages with the types of their fields (`MsgOf`).
- `UnmarshalTyped` and `UnmarshalInBounds` (IndexInBounds), whatever the bytes:
  `WireInv` says that a running call fills a message of its kind, that its index
  is within its data, and that the call was made for a field of its caller that
  holds such messages and ends within the caller's data (`Nested`).
- `CutSignersAreRejected` (CutSignerIsRejected): the bytes of a signer are its group info
  followed by its key.  While a cut signer is read (`CutInv`), the outermost call is at
  the start or behind the group info with a prefix of the rest; so it fails in a field or
  ends before the key, which then is empty and has no point on the curve.
- `RoundTrips` (RoundTrip).  `Reads(kind, m, b, to)` is the least relation, an
  intersection of all those closed under the rules, that says that bytes b turn message
  m into message to: nothing left, a field of the kind's table, or an unknown field.
  What Marshal writes is `Reads` from the zero value to the message (`SentReads`, with
  an induction over the elements of each list and, for numbers, over their groups
  and bytes), it composes over concatenation (`ReadsBoth`), and an unknown field reads to
  the same message (`ReadsAddition`).  `RoundInv` says that the innermost call reads
  on to a message T[n], or skips a field at the depth the elements so far gave it and
  reads on behind it (`GoesOn`), that every caller reads on once it is given what the
  call it waits for reads (`Waits`), and that the outermost one reads what was sent
  (`Final`).  A step of Unmarshal takes the bytes of one rule of `Reads` (`ReadGoes`,
  `SkipNext`, `SkipGoes`), so none fails, and at the end the message is what was sent
  (`ReadsEnd`).  Induction over data is done with sets: `Induction` states it for
  sets of numbers, from the well-foundedness of <, instead of for operators.

Only model-checked:

- All liveness properties (`ClosedIsUnregistered`, `RequestIsServed`,
  `NonceIsConsumed`, `EventIsHandled`, `AttemptsComplete`, `MonitoringEnds`,
  `PubkeyIsRetrieved`, `RecoveryCompletes`, `StatusSettles`): liveness under
  fairness is out of the prover's reach.
- With two dropped forks `SignsOnlyRequested`, `SignatureStays` and
  `ArchivedHasEnded` are not claimed; see section 3 on bounds.

## 5. Not modelled

ERC20 rewards, the exact choice of groups by the sortition pool, cryptography
(signatures, key shares, hashes, the derivation of bitcoin addresses, scripts),
gas, time in seconds, file names, command line, configuration and metrics, the
contracts for rewards (their intervals are in a library that is not in the
repository), the clone factory and migrations, the fully backed variant of the
contracts, the vendor contract, candidates pools, and the scripts for staker
rewards.  Of the generated bindings the read-only calls are left out: they return
what the chain node answers.  `components` in `PROJECT.json` gives the reason for
each.

Some definitions carry detail no property depends on: the amounts `resolveVbyteFee`
and `perRecipientValue` compute decide which branch a recovery takes, and that they
are the right amounts is not checked.  Some `hazards` are covered in part only, and
their notes say which part: a crash between removing an index file and writing it
again, a registration whose event was missed, one failing call among
several of the firewall, failing requests of a subscription's ticker,
and late messages for `NoEarlyStart`, which is about undisturbed groups.

## 6. Plan

1. Contracts core: bonding, keep, factory, abstract lifecycle, with proofs. *Done.*
2. Client: key generation with proofs, closing and recovery, signing and
   publication with the first proofs. *Done.*
3. Bindings, threshold protocols with pre-parameters, messages. *Done.*
4. tBTC extension, liquidation recovery with its storage and fee, firewall,
   registration. *Done.*
5. Proofs of the safety properties of contracts, client, bindings, protocols, tBTC
   extension, services and messages, and of the refinement of `KeepLifecycle`. *Done.*
   Left: safety halves of the liveness properties.
6. `CandidatesPools`, the vendor's upgrade in two steps and the fully backed
   contracts over the same bonding module.

## 7. How to run

    tlc -config MCSigning.cfg MCSigning
    tlapm SigningProofs.tla
