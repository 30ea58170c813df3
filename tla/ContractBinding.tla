-------------------------- MODULE ContractBinding --------------------------
(***************************************************************************)
(* What every generated contract binding does, whatever the contract.      *)
(*                                                                         *)
(* A method that changes state takes the mutex all bindings of the account *)
(* share, copies the options of the binding, asks the nonce manager for    *)
(* the nonce, submits, starts the mining waiter in the background and      *)
(* moves the nonce on; an error on the way returns without moving it. A    *)
(* subscription is fed by a stream of new events, resubscribed when it     *)
(* breaks, and by a ticker that fetches the events of the last PastBlocks  *)
(* blocks again; both push into one unbuffered channel.                    *)
(*                                                                         *)
(* The nonce manager, the mining waiter, the resubscription and the host   *)
(* chain client are libraries: they are modelled from how the bindings use *)
(* them.                                                                   *)
(***************************************************************************)
EXTENDS Integers, Sequences, FiniteSets

CONSTANTS
    Callers,        \* goroutines that call a method of some binding
    NoCaller,       \* the mutex is free
    Scenarios,      \* what the callers call, which event is subscribed to, and
                    \* how many transactions, streams and requests may be lost
    MaxPrice,       \* highest gas price the mining waiter may offer
    MaxEmptyBlocks, \* bound on the blocks without a transaction of the account
    FirstBlock,     \* number of the block before the first one of the run
    PastBlocks,     \* SubscribeOpts.PastBlocks
    BlocksPerTick,  \* blocks added during one SubscribeOpts.Tick, at most
    Word            \* block numbers are unsigned integers below Word

ASSUME BindingAssumption ==
    /\ NoCaller \notin Callers
    /\ {MaxPrice, MaxEmptyBlocks, FirstBlock, PastBlocks, Word} \subseteq Nat
    /\ BlocksPerTick \in 1..PastBlocks
    \* The chain is older than the window the ticker looks back on.
    /\ PastBlocks <= FirstBlock /\ FirstBlock < Word - PastBlocks

VARIABLES
    scenario,   \* [calls, event, filter, faults]
    binding,    \* transactorOptions of the binding: [value, gas]
    mutex,      \* holder of transactionMutex
    pc, nonce, tries,   \* each caller: where it is, its nonce, its attempt
    manager,    \* nonce manager: [local, trusted]
    waiter,     \* mining waiter of each caller
    pool,       \* transactions that wait to be mined
    used,       \* nonces of the transactions the pool ever accepted
    chain,      \* blocks added: a transaction or NoTx each
    faults,
    stream,     \* live subscription: [up, events]
    ticker,     \* events the ticker fetched and has not pushed yet
    sinceTick,  \* blocks added since the ticker last fired
    missedTick, \* a tick failed to fetch its events
    receiver,   \* goroutine of OnEvent: block of the event it handles, Ready or Stopped
    handled,    \* blocks of the events the handler was called for
    cancelled   \* Unsubscribe was called

senders == <<binding, mutex, pc, nonce, tries, manager, waiter>>
host == <<pool, used, chain>>
subscriber == <<stream, ticker, sinceTick, missedTick, receiver, handled, cancelled>>
bindingVars == <<scenario, senders, host, faults, subscriber>>

NoTx == [caller |-> NoCaller, try |-> 0, nonce |-> 0, value |-> 0, gas |-> 0, price |-> 0]
call(g) == scenario.calls[g]

\* The goroutine of OnEvent waits for an event, or has ended.
Ready == 0
Stopped == -1

Mined(g, i) == \E b \in 1..Len(chain) : chain[b].caller = g /\ chain[b].try = i
AccountNonce == Cardinality({b \in 1..Len(chain) : chain[b] # NoTx})
Height == FirstBlock + Len(chain)

\* First nonce the pool has no transaction for.
PendingNonce ==
    CHOOSE n \in AccountNonce..(AccountNonce + Cardinality(pool)) :
        /\ \A t \in pool : t.nonce # n
        /\ \A m \in AccountNonce..(n - 1) : \E t \in pool : t.nonce = m

Fault == faults < scenario.faults /\ faults' = faults + 1
NoFault == faults' = faults

BindingInit ==
    /\ scenario \in Scenarios
    /\ binding = [value |-> 0, gas |-> 0]
    /\ mutex = NoCaller
    /\ pc = [g \in Callers |-> "start"]
    /\ nonce = [g \in Callers |-> 0]
    /\ tries = [g \in Callers |-> 1]
    /\ manager = [local |-> 0, trusted |-> FALSE]
    /\ waiter = [g \in Callers |-> "none"]
    /\ pool = {} /\ used = {} /\ chain = <<>> /\ faults = 0
    /\ stream = [up |-> TRUE, events |-> {}]
    /\ ticker = <<>> /\ sinceTick = 0 /\ missedTick = FALSE
    /\ receiver = Ready /\ handled = {} /\ cancelled = FALSE

----------------------------------------------------------------------------
(* Submission of a transaction. *)

\* Mutant of LockMutex: the mutex is not shared.
LockMutexUnguarded(g) ==
    /\ pc[g] = "start"
    /\ mutex' = g
    /\ pc' = [pc EXCEPT ![g] = "locked"]
    /\ NoFault /\ UNCHANGED <<binding, nonce, tries, manager, waiter, host>>

LockMutex(g) ==
    /\ pc[g] = "start" /\ mutex = NoCaller
    /\ mutex' = g
    /\ pc' = [pc EXCEPT ![g] = "locked"]
    /\ NoFault /\ UNCHANGED <<binding, nonce, tries, manager, waiter, host>>

\* Every return runs the deferred Unlock.
Return(g, result) ==
    /\ pc' = [pc EXCEPT ![g] = result]
    /\ mutex' = NoCaller

\* Nodes behind a load balancer may not know of the latest transactions yet;
\* they have caught up once the local nonce is not trusted any more.
CurrentNonce ==
    IF manager.trusted
    THEN {IF seen < manager.local THEN manager.local ELSE seen
            : seen \in AccountNonce..PendingNonce}
    ELSE {PendingNonce}

TakeNonce(g) ==
    /\ pc[g] = "locked"
    /\ \/ \* Only one set of options can be applied.
          /\ call(g).options > 1
          /\ Return(g, "refused") /\ NoFault /\ UNCHANGED <<nonce, manager>>
       \/ \* The nonce cannot be retrieved.
          /\ call(g).options <= 1
          /\ Return(g, "failed") /\ Fault /\ UNCHANGED <<nonce, manager>>
       \/ \E n \in CurrentNonce :
          /\ call(g).options <= 1
          /\ nonce' = [nonce EXCEPT ![g] = n]
          /\ manager' = [local |-> n, trusted |-> TRUE]
          /\ pc' = [pc EXCEPT ![g] = "submit"]
          /\ NoFault /\ UNCHANGED mutex
    /\ UNCHANGED <<binding, tries, waiter, host>>

\* The pool accepts a transaction of a known nonce only for a higher price.
Accepts(t) == t.nonce >= AccountNonce /\ \A u \in pool : u.nonce = t.nonce => u.price < t.price
Accept(t) ==
    /\ pool' = {u \in pool : u.nonce # t.nonce} \cup {t}
    /\ used' = used \cup {t.nonce}
    /\ UNCHANGED chain

\* Options of the transaction: a copy of the binding's, with what the caller
\* asked for applied to it.
transactorOptions(g) ==
    [value |-> IF call(g).value # 0 THEN call(g).value ELSE binding.value,
     gas |-> IF call(g).gas # 0 THEN call(g).gas ELSE binding.gas]

Transaction(g, price) ==
    [caller |-> g, try |-> tries[g], nonce |-> nonce[g], price |-> price,
     value |-> transactorOptions(g).value, gas |-> transactorOptions(g).gas]

\* Mutant of SubmitTransaction: a failed submission moves the nonce on.
SubmitTransactionSkips(g) ==
    /\ pc[g] = "submit"
    /\ \/ /\ Accepts(Transaction(g, 1)) /\ Accept(Transaction(g, 1))
          /\ waiter' = [waiter EXCEPT ![g] = "forcing"]
          /\ Return(g, "sent") /\ NoFault
       \/ /\ Return(g, "failed") /\ Fault /\ UNCHANGED <<host, waiter>>
    /\ manager' = [manager EXCEPT !.local = @ + 1]
    /\ UNCHANGED <<binding, nonce, tries>>

SubmitTransaction(g) ==
    /\ pc[g] = "submit"
    /\ \/ /\ Accepts(Transaction(g, 1)) /\ Accept(Transaction(g, 1))
          /\ waiter' = [waiter EXCEPT ![g] = "forcing"]
          /\ manager' = [manager EXCEPT !.local = @ + 1]
          /\ Return(g, "sent") /\ NoFault
       \/ /\ ~Accepts(Transaction(g, 1))
          /\ Return(g, "failed") /\ NoFault /\ UNCHANGED <<host, waiter, manager>>
       \/ \* The request is lost, or its answer is.
          /\ \/ UNCHANGED host
             \/ Accepts(Transaction(g, 1)) /\ Accept(Transaction(g, 1))
          /\ Return(g, "failed") /\ Fault /\ UNCHANGED <<waiter, manager>>
    /\ UNCHANGED <<binding, nonce, tries>>

\* A method with the wei it may carry.
Transact(g, method, payable) ==
    /\ call(g).method = method
    /\ payable \/ call(g).value = 0
    /\ LockMutex(g) \/ TakeNonce(g) \/ SubmitTransaction(g)
    /\ UNCHANGED <<scenario, subscriber>>

\* withRetry of the chain handle calls the method again when it failed.
withRetry(g) ==
    /\ pc[g] = "failed" /\ tries[g] < call(g).attempts
    /\ tries' = [tries EXCEPT ![g] = @ + 1]
    /\ pc' = [pc EXCEPT ![g] = "start"]
    /\ UNCHANGED <<scenario, binding, mutex, nonce, manager, waiter, host, faults, subscriber>>

----------------------------------------------------------------------------
(* Mining waiter, nonce manager and host chain. *)

\* Mutant of resubmit: a resubmission takes a new nonce.
resubmitFresh(g, price) ==
    [caller |-> g, try |-> tries[g], nonce |-> PendingNonce, price |-> price,
     value |-> transactorOptions(g).value, gas |-> transactorOptions(g).gas]

\* The closure the waiter calls to submit again: same nonce, and the gas limit
\* of the client if it set one (with 0 it is estimated anew).
resubmit(g, price) ==
    [caller |-> g, try |-> tries[g], nonce |-> nonce[g], price |-> price,
     value |-> transactorOptions(g).value, gas |-> transactorOptions(g).gas]

OwnPrice(g) == {t.price : t \in {u \in pool : u.caller = g /\ u.nonce = nonce[g]}}

ForceMining(g) ==
    /\ waiter[g] = "forcing"
    /\ \/ /\ Mined(g, tries[g])
          /\ waiter' = [waiter EXCEPT ![g] = "finished"]
          /\ NoFault /\ UNCHANGED host
       \/ /\ ~Mined(g, tries[g])
          /\ \E p \in 2..MaxPrice :
             /\ \A q \in OwnPrice(g) : p = q + 1
             /\ \/ /\ Accepts(resubmit(g, p)) /\ Accept(resubmit(g, p))
                   /\ NoFault /\ UNCHANGED waiter
                \/ \* A failed resubmission ends the waiter.
                   /\ Accepts(resubmit(g, p)) => Fault
                   /\ ~Accepts(resubmit(g, p)) => NoFault
                   /\ waiter' = [waiter EXCEPT ![g] = "gaveUp"]
                   /\ UNCHANGED host
       \/ /\ ~Mined(g, tries[g])
          /\ MaxPrice \in OwnPrice(g)
          /\ waiter' = [waiter EXCEPT ![g] = "gaveUp"]
          /\ NoFault /\ UNCHANGED host
    /\ UNCHANGED <<scenario, binding, mutex, pc, nonce, tries, manager, subscriber>>

\* No nonce was asked for during the time the local one is trusted.
NonceExpires ==
    /\ manager.trusted /\ mutex = NoCaller
    /\ manager' = [manager EXCEPT !.trusted = FALSE]
    /\ UNCHANGED <<scenario, binding, mutex, pc, nonce, tries, waiter, host, faults, subscriber>>

DropTransaction ==
    /\ Fault
    /\ \E t \in pool : pool' = pool \ {t}
    /\ UNCHANGED <<scenario, senders, used, chain, subscriber>>

Matches(b, c) ==
    /\ c[b].caller \in Callers
    /\ scenario.event \in call(c[b].caller).emits
    /\ scenario.filter = {} \/ call(c[b].caller).topic \in scenario.filter

\* There is a subscription whose ticker runs.
Subscribed == scenario.event # "none" /\ ~cancelled

AddBlock(tx) ==
    /\ Subscribed => sinceTick < BlocksPerTick
    /\ chain' = Append(chain, tx)
    /\ sinceTick' = IF Subscribed THEN sinceTick + 1 ELSE 0
    /\ stream' = IF stream.up /\ Matches(Len(chain'), chain')
                 THEN [stream EXCEPT !.events = @ \cup {Len(chain')}] ELSE stream
    /\ UNCHANGED <<scenario, senders, used, faults, ticker, missedTick, receiver, handled, cancelled>>

Mine ==
    \E t \in pool :
        /\ t.nonce = AccountNonce
        /\ pool' = {u \in pool : u.nonce # t.nonce}
        /\ AddBlock(t)

MineEmpty ==
    /\ Subscribed /\ Len(chain) - AccountNonce < MaxEmptyBlocks
    /\ AddBlock(NoTx) /\ UNCHANGED pool

----------------------------------------------------------------------------
(* Subscription. *)

\* PastXEvents: blocks from start on with an event that passes the filter.
PastEvents(start) == {b \in 1..Len(chain) : Matches(b, chain) /\ FirstBlock + b >= start}

Ascending(S) == CHOOSE s \in [1..Cardinality(S) -> S] : \A i, j \in DOMAIN s : i < j => s[i] < s[j]

\* Mutant of Tick: the ticker does not look back.
TickForward ==
    /\ ticker = <<>> /\ ~cancelled
    /\ ticker' = Ascending(PastEvents(Height))
    /\ sinceTick' = 0
    /\ NoFault /\ UNCHANGED <<missedTick, stream, receiver, handled, cancelled>>

\* An error of the block counter is only logged: the last block is then 0 and
\* the difference wraps around.
Tick ==
    /\ ticker = <<>> /\ ~cancelled
    /\ \/ /\ ticker' = Ascending(PastEvents((Height - PastBlocks) % Word))
          /\ NoFault /\ UNCHANGED missedTick
       \/ /\ ticker' = Ascending(PastEvents((0 - PastBlocks) % Word))
          /\ Fault /\ missedTick' = TRUE
       \/ /\ UNCHANGED ticker \* PastXEvents fails
          /\ Fault /\ missedTick' = TRUE
    /\ sinceTick' = 0
    /\ UNCHANGED <<stream, receiver, handled, cancelled>>

\* The push does not look at the context: it waits for a receiver for ever.
PushFetched ==
    /\ ticker # <<>> /\ receiver = Ready
    /\ receiver' = Head(ticker)
    /\ ticker' = Tail(ticker)
    /\ NoFault /\ UNCHANGED <<stream, sinceTick, missedTick, handled, cancelled>>

CallHandler ==
    /\ receiver > Ready
    /\ handled' = handled \cup {receiver}
    /\ receiver' = Ready
    /\ NoFault /\ UNCHANGED <<stream, ticker, sinceTick, missedTick, cancelled>>

Unsubscribe ==
    /\ ~cancelled
    /\ cancelled' = TRUE /\ sinceTick' = 0
    /\ stream' = [up |-> FALSE, events |-> {}]
    /\ NoFault /\ UNCHANGED <<ticker, missedTick, receiver, handled>>

\* A cancelled receiver that is offered an event may still take it first.
StopReceiver ==
    /\ cancelled /\ receiver = Ready
    /\ receiver' = Stopped
    /\ NoFault /\ UNCHANGED <<stream, ticker, sinceTick, missedTick, handled, cancelled>>

\* OnEvent and Pipe of an event with or without indexed arguments to filter.
Pipe(event, filters) ==
    /\ scenario.event = event
    /\ scenario.filter \in filters
    /\ Tick \/ PushFetched \/ CallHandler \/ Unsubscribe \/ StopReceiver
    /\ UNCHANGED <<scenario, senders, host>>

PushStreamed ==
    /\ receiver = Ready
    /\ \E b \in stream.events :
        /\ \A c \in stream.events : b <= c
        /\ receiver' = b
        /\ stream' = [stream EXCEPT !.events = @ \ {b}]
    /\ NoFault

\* What the stream has not pushed yet is lost with it.
StreamFails ==
    /\ stream.up
    /\ stream' = [up |-> FALSE, events |-> {}]
    /\ Fault /\ UNCHANGED receiver

Resubscribe ==
    /\ ~stream.up /\ ~cancelled
    /\ stream' = [stream EXCEPT !.up = TRUE]
    /\ NoFault /\ UNCHANGED receiver

\* watchX: the stream with its resubscription.
Watch(event) ==
    /\ scenario.event = event
    /\ PushStreamed \/ StreamFails \/ Resubscribe
    /\ UNCHANGED <<scenario, senders, host, ticker, sinceTick, missedTick, handled, cancelled>>

----------------------------------------------------------------------------
(* Correctness. *)

\* Types of the calls, the account, the chain and the subscription of a binding.
BindingTypeOK ==
    /\ scenario \in Scenarios
    /\ mutex \in Callers \cup {NoCaller}
    /\ pc \in [Callers -> {"start", "locked", "submit", "sent", "failed", "refused"}]
    /\ nonce \in [Callers -> Nat] /\ tries \in [Callers -> Nat]
    /\ manager \in [local : Nat, trusted : BOOLEAN]
    /\ waiter \in [Callers -> {"none", "forcing", "finished", "gaveUp"}]
    /\ \A t \in pool : t.caller \in Callers /\ t.nonce \in used
    /\ faults \in 0..scenario.faults
    /\ stream.events \subseteq 1..Len(chain) /\ handled \subseteq 1..Len(chain)
    /\ receiver \in Stopped..Len(chain)

\* As long as the chain client works and loses nothing, concurrent calls through
\* the bindings of one account never get in each other's way: none is turned
\* down for its nonce and none loses its nonce to another (transactionMutex and
\* the order CurrentNonce, submit, IncrementNonce, also when the node asked for
\* the pending nonce lags behind).
OwnNonce ==
    faults = 0 =>
        \A g \in Callers :
            /\ pc[g] # "failed"
            /\ pc[g] = "sent" /\ nonce[g] < AccountNonce => Mined(g, tries[g])

\* Whatever is resubmitted, one call of a method is mined at most once: every
\* resubmission takes the nonce of the transaction it replaces.
MinedOnce ==
    \A b, c \in 1..Len(chain) :
        /\ chain[b] # NoTx /\ chain[b].caller = chain[c].caller
        /\ chain[b].try = chain[c].try
        => b = c

\* A nonce whose transaction was lost with nobody left to submit it again.
Abandoned ==
    \E n \in used :
        /\ n >= AccountNonce /\ \A t \in pool : t.nonce # n
        /\ \A g \in Callers : ~(waiter[g] = "forcing" /\ nonce[g] = n)

\* The account is never stuck behind a nonce nobody uses: the nonce of every
\* submitted transaction is consumed in the end, unless a transaction was lost
\* after its waiter had given up.
NonceIsConsumed ==
    []<>(\A g \in Callers : pc[g] = "sent" => AccountNonce > nonce[g] \/ Abandoned)

\* The handler is called for every event of the contract that passes the
\* filter, although the stream may break, unless a tick failed to fetch its
\* events or the subscription was cancelled: the ticker looks back over at least
\* the blocks since the tick before.
EventIsHandled ==
    []<>(\A b \in 1..Len(chain) : Matches(b, chain) => b \in handled \/ missedTick \/ cancelled)
=============================================================================
