# A verification of the code of *Ethereum Development with Go*

The repository is a book (`src/en`, `src/zh`) and the Go programs it explains
(`src/code`), with the libraries they use in `src/vendor`. This directory holds
TLA+ models of the programs that do something a test hardly reaches: they race
for a nonce, lose an answer, close an iterator while it is read, or subscribe
over a connection that breaks. The vendored go-ethereum is modelled only where
such a program depends on what it does.

## 1. Inventory

All programs are small `main` functions over a client (`ethclient.Dial`), plus
two libraries: `helper` (`Service`, which other code may call from several
goroutines) and `util`. Every request waits with `context.Background()`.

| Component | State | Operations | Talks to | What makes it correct | Modelled |
|---|---|---|---|---|---|
| Transaction senders: `helper.go` (TransferEth, TransferTokens, SendTx), `transfer_eth`, `transfer_tokens`, `transaction_raw_create/send`, `contract_deploy`, `contract_write` | nonce and price read so far, the outcome | read nonce, price, head, chain id, gas estimate; sign; send; send again | the node, through bind.transact or directly | an accepted payment keeps its nonce; no gap; a refused call is not paid; calls that do not overlap all pay | TxSubmit |
| Node: pool and chain (vendored) | pool, the blocks it stands on, the blocks there are | admit, replace, mine, undo a block, reset the pool, evict | the senders | one holder per nonce; an offer is lost only to a better one, a block or an eviction | TxSubmit, ContractCalls |
| Event iterators: `Filter*`, `Next`, `Close` of `Store.go`, `erc20.go`, `Exchange.go` | answer, channel, producer goroutine, subscription flags, done/fail | send a log, Next, Close | `bind.FilterLogs`, `event.NewSubscription` | complete answer in order; Close takes the goroutine down | LogIterator, LogStream |
| Event watchers: `Watch*` of the same files | two stacked subscriptions, two queues | forward, parse, deliver, Unsubscribe, Err | RPC client, user | order; a reason for every end; Unsubscribe never hangs | LogWatch |
| RPC client with `event_subscribe`, `block_subscribe` | connection, requests under way, dispatch loop, forwarding loop | send, write, reconnect, read, deliver, report | node over a websocket | a fetch inside the subscription loop returns; nobody waits for ever; losses are reported | RpcClient (in part) |
| Store and token programs: `contract_load/read/read_erc20/bytecode/write_estimate_gas`, the end of `contract_write`, the getters and writes of `Store.go` and `erc20.go` | the contract, at each head | deploy, write, every getter, look for code | node, through `BoundContract` | a read hands out what some head held; a write after its deployment has its effect; an address is lost only to a higher price or an eviction | ContractCalls |
| `helper` reads and gas price | none | GetGasPrice, GetTokenBalance, GetTokenDecimals, GetLatestBlockNumber | node | a read hands out what some head held | Units, ContractCalls (in part) |
| `util` numbers and signatures | none | ToDecimal, ToWei, CalcGasCost, SigRSV, IsValidAddress, IsZeroAddress | none | agree with exact arithmetic where they claim to | Units, Tools |
| Event readers `event_read*` | position in the answer | query, choose by topic, decode | node | every known event is printed; only a foreign one stops the program | EventRead |
| Block and transaction queries | position in a block | one request after another | node | every transaction is printed, unless its block is undone | EventRead (`transactions`), Units (V of `transaction_raw_read`) |
| `client_simulated` | simulated chain | send, commit, receipt | simulated backend | a receipt after the commit | no: one goroutine, and the backend is a library |
| `keystore` | key files | create, (import, remove) | file system | a key is never lost | no: see section 7 |
| Line scanners `reval`, `operate_file`, `util/operate_file_by_line` | position in the file, the reader's buffer | read a line, ask the node, log | file, node | each line once, including the last; the scan ends | Tools |
| Whisper programs (`*.go.md`) | filters, messages | subscribe, post, poll | node | a posted message is received | no: text, not compiled |
| Addresses, wallets, single requests, rlp, trie, swarm | none | one library call each | | | no: nothing but the library |

How the parts interact: a sender calls the node over the RPC client; the
bindings' iterators make one `eth_getLogs` call and hand its answer from a
goroutine to the reader through a channel; the watchers subscribe over the RPC
client, whose forwarding goroutine feeds the watcher's channel, and the watcher
feeds the user's. `event_subscribe` and `block_subscribe` receive from the
forwarding goroutine directly.

What is hard here: values read from the node and used several requests later
(`helper.go:108`), errors that do not tell whether a request was executed
(`helper.go:123`), a pool that learns of a block after it is in the chain
(`tx_pool.go:358`), selects with two ready cases (`Store.go:302-318`), a
goroutine that blocks on a channel nobody reads (`Store.go:372`), an Unsubscribe
that races with the end of what it unsubscribes (`event/subscription.go:51-84`),
a request over the connection that delivers its own notifications
(`block_subscribe.go:31`), and a connection replaced while it is used
(`rpc/client.go:495-629`), a value and the look for code that are answered at two
different heads (`base.go:180-187`), a block that is undone between the requests
about its transactions (`transactions.go:44`), and conversions that are right
only within bounds nobody states (`util.go`). `PROJECT.json` lists these hazards at their lines,
with the properties that cover them.

## 2. Modules

| Module | Models |
|---|---|
| `TxSubmit` | seven programs that sign for an account, as sequences of requests, over the pool and the chain; implements `Ledger` |
| `Ledger` | what the node promises those who send it transactions (abstract) |
| `LogStream` | what an iterator promises (abstract) |
| `LogIterator` | the iterators; implements `LogStream` |
| `LogWatch` | the watchers over the RPC client's subscription |
| `RpcClient` | the RPC client under `event_subscribe` and `block_subscribe` |
| `ContractCalls` | eleven programs and methods that deploy, write and read a contract with one key |
| `EventRead` | the four event readers and `transactions` over the node's past |
| `Units` | the conversions of `util.go` and two others, as operators |
| `Tools` | `util_usage` and the line scanners; extends `Units` |
| `MC*` | the constants of the runs |
| `*Proofs` | theorems, one module beside each model; `RpcOrderProofs` has those of `RpcClient` about the order of what it delivers |

Definitions named *Mutant* in a comment are a plausible mistake in the code; none
is used by a specification. Each shows that some property would notice it.

### TxSubmit

A call is a run of a program or of a `Service` method. `Program[Kind[c]]` is the
list of the requests it sends, in source order, and `at[c]` is the next. An
answer goes to `nonce[c]` and `price[c]` and is used when the transaction is
signed (`TxOf`). `Fail` is any error before the send. The send has three ends:
accepted, refused (with an error the model knows, or any other: funds, gas), and
abandoned, when the connection breaks and the request may have been lost, or may
arrive at any time (`wire`, `LateArrival`, `RequestLost`). Only the operator
sends again, and only a raw transaction.

The node has a pool and a chain that do not move together. `chain` are the
account's transactions in blocks; `base` are those in the blocks the pool stands
on. `Mine` and `Undo` change only the chain: a block is made by anyone, of any
transaction this pool ever took and told its peers (`known`), also one it has
replaced since. `Reset` is `runReorg` with `reset`: the pool moves to the chain
as it is, drops what blocks have overtaken (without a word to its sender), and
takes back what undone blocks contained, except what `add` refuses, whose error
the code ignores; a refused one counts as evicted. Until then `Acceptable`, the
checks of `validateTx` and `txList.Add`, and `IsPendingNonce`, the first nonce
nothing has taken, speak of older blocks, so that a replacement of a transaction
already mined is accepted without an error and lost at the reset. `Reset` never
drops a transaction for its price: those it takes back have a nonce below `base`,
where the pool holds nothing. Nobody signs for the accounts through another node:
all transactions of blocks came through this pool.

`TransferTokens` takes its signer from the caller (`auth`), so it signs
for the node's chain; the others sign as their source does (`SignerChain`).
`known`, `mined`, `evicted` and `overlap` are history variables, read by
properties only, except that `Mine` takes its transactions from `known`.

`Ledger` is what a sender may rely on: a nonce has one holder; it loses its nonce
to one that outbids it, to a block, which may contain any transaction that was
ever offered for it, or by being thrown out, which is known; and a sender is told in
the step in which the node takes its transaction. `TxSubmit` implements it with
`held` the pool and the blocks it stands on, so that `Mine` and `Undo` are no step
of it and `Reset` is a `Settle`, and with `told` the transactions of the calls
that returned without an error. A late request is a `TakeLate`, of which nobody is told.

### LogIterator and LogStream

The goroutine of `bind.FilterLogs` sends the answer through a channel
(`ProducerSend`), or leaves when `unsub` is closed. `ProducerReturn` marks the
subscription under its lock and `ProducerClose` closes `err`: two steps, because
another goroutine can see the mark before the channel is closed. `Unsubscribe`
is the first half of `Close`, `CloseReturns` the second. `Next` is `CallNext`
and one of four answers; `NextErr` is the select that takes the closed error
channel although logs may be left, and then calls itself with `done`. The
refinement maps `got` to what was handed out and `fail`/`ret` to the status.

### LogWatch

The forwarding goroutine (`run`) and the watcher (`watcher`) each have one
action per select case. A send on an unbuffered channel is one step of both
(`ForwardQuit`, `WatchSink`). `logs` is the channel of `WatchLogs` (128 in the
code), `buffer` the list of `forward` (20000). The user may stop reading at any
time: `WatchSink` has no fairness. `cause` is what the forwarding loop returned,
`subErr` and `err` are the two error channels with one place each; the nil error
that `run` sends after `Client.Close` is the value `"quit"` in `subErr`, because
the channel then holds a value that is no error.

### RpcClient

`call[op]` is where the goroutine of a request stands in `Client.send`, `write`
and `reconnect`; `lastOp` and `reqSent` are the write lock of `dispatch`;
`disp` says what `dispatch` does outside its select. `Break` loses the requests
the node has not answered and a suffix of what it sent. A write on a broken
connection may find out or not. Client.Close, batches, HTTP, expiring contexts
and a second subscription are left out: no program here uses them.

One run covers both programs: `program` is chosen at the start, and
`event_subscribe` never fetches. `FetchReturns` and `DropReported` speak of a
connection that holds, `LossReported` of one that breaks.

### ContractCalls

`kind[p]` is the program of a run, chosen from the `Sessions`; `Plan[kind[p]]`
is the list of its requests and `ip[p]` the next one, 0 once log.Fatal stopped
it. The node is that of `TxSubmit` for one account: the same `Mine`, `Undo`,
`Reset` and `Evict`, a send whose answer is lost (`RequestFails`) and that may
still arrive (`Arrive`). A block holds one transaction of the key and the
contracts after it, so that undoing it brings the older ones back. An address is
named by the nonce it is made from; all programs use the one of nonce `Home`, as
the sources name one address. The pending block is made now and then (`Pend`) of
the head and what waits; the miner that makes it is not among the vendored code.

A getter is one request (`Call`), or two when the answer is empty
(`LookForCode`), with blocks between them; what the binding makes of the answer is
`Items`, `Version` and so on, including the results that no answer unpacks
into (`Allowance`) and the texts cut to `Width` bytes. `seen[p]` is a history of
the heads since the request became next. `TokenWrite` is Approve, Transfer and
TransferFrom with no gas limit: base fee, price, pending code, estimate, nonce,
send, each a request of its own. Between the look at the code and the nonce the
deployment may be evicted, and the write then takes its nonce:
`TokenWriteFollowsDeployment` says that this is the only way.

### EventRead

A log is reduced to what its decoder looks at: who emitted it, the event its
first topic names, how many topics and how many words of data. `event_read_erc20`
and the others are the bodies of the loops: a log is printed, skipped, or ends the
program by log.Fatal or by an index out of range. `Interface` has the forms the
contracts declare for the events a program knows: an Approval is one of amounts
(erc20.sol:16) or one of an id, which `event_read_by_transaction` prints.
`StopsAt` names the two that stop their program although they conform: a LogError,
and the Approval of amounts, which the guard at line 29 lets through. The chain grows, and may lose its last block, until the
program ends. `transactions` walks over a block in the same way, with a receipt
request for each transaction answered by the chain of that moment. Its other
requests, by hash, depend on nothing read before and are left out.

### Units and Tools

A decimal is `[num, exp]`. `Precision` is `decimal.DivisionPrecision` (16 in the
vendored library), `Half` is 2^63, the first number an int64 has no place for,
`Digits` the 40 hex digits of an address. `ToWei` keeps what `SetString` leaves of a text with a
fraction: the digits before the point. In `Tools`, `last` is the last
conversion with its arguments and result. `CallToWeiBack` takes the result of
ToDecimal to ToWei. A scan reads what the buffered reader has fetched; the file
may grow between two fetches when `reval` logs to the file it scans (`own`):
it writes `./reval.txt` and reads `code/reval.txt`.

## 3. Runs

| Run | States | Shows |
|---|---|---|
| `TxCalls` | 1 504 044 | five invariants and the refinement of Ledger for a raw transaction sent up to twice and two equal runs of contract_write (no chain id) on one account |
| `TxLiveness` | 71 258 | an accepted nonce of TransferTokens (dynamic fees) or of a raw transaction is used up for good unless something was evicted |
| `LogIteration` | 878 | types, completeness, Close, the refinement of LogStream, Next returns, Close ends the producer |
| `WatchEvents` | 6 068 | order, release, reason, Unsubscribe returns, errors end the watcher |
| `Subscriptions` | 57 782 | both subscribers over up to two breaks and a garbled notification: order, write lock, drops only when full and reported, a fetch inside the loop returns, a loss is reported, dispatch never stuck |
| `ContractUse` | 2 716 644 | reads are genuine and refused only without code; a write after its deployment sticks; addresses are lost only to a higher price, and a token write precedes its deployment only, after an eviction |
| `EventReaders` | 1 365 930 | every known event and transaction is printed; what may stop a reader |
| `Tools` | 6 459 | conversions against exact arithmetic; scans are complete and end |
| `TxNonceReused`, `LogAfterClose`, `CallForgotten`, `TokenAllowance` | | a documented statement the code does not keep (section 5) |

Bounds, and why they are enough:

- TxSubmit: three calls for one account (accounts do not interact), one undone
  block, two sends of a raw transaction, two suggested prices of which one
  outbids the other by the bump. With three calls there is a holder, a rival and a
  later nonce; with one undone block and any transaction in the next one, a
  mined rival takes the place of another. `TxCalls` declares the two equal calls
  symmetric (`Alike`). `MaxNonce` only bounds what TLC enumerates: three calls
  never read a nonce above 2.
- LogIterator: answers of 0 to 3 logs over a channel of 2, so the channel is
  empty, part full and full; a log in the middle that does not parse; two
  goroutines in `Close`.
- LogWatch: five logs through a channel and a queue of one place each: one in
  the watcher's hand, one in the channel, one queued, one that overflows. Log 4
  does not parse and log 5 does not unmarshal.
- RpcClient: five notifications, the last of which is garbled, and a queue of 2:
  one in main's hand, two queued, one that overflows. Up to two broken
  connections: one for the subscription, and one for the request that dials
  again. A third adds no new state of a request, as `write` retries once.
- ContractCalls: three programs of one key in six sessions, which between them
  run every program: a deployer with a second deployer and a token write, with a
  writer and a reader, or with two that read. Two prices, of which one outbids
  the other; one undone block. A version shorter and one longer than the two
  bytes of the array.
- EventRead: two blocks of two logs, so that a foreign log stands before, between
  and after known ones; one undone block. Of every event the form of the
  contract and one or two with other fields indexed. The loops keep nothing from
  one log to the next but their position, so longer answers add nothing.
- Tools: wei around zero in steps below and above half a unit of the precision
  (2, with up to 4 decimals), limits around `Half` (8, as of integers of 4 bits), addresses
  of 4 digits in texts of up to 5; files of up to two lines with or without a
  newline at the end. `MaxLines` stops the file that grows by its own log, about
  which `ScanEnds` says nothing.

`CHECK_DEADLOCK FALSE` is stated where programs end: `TxSubmit` after the last
call, `RpcClient` after `log.Fatal`, `LogWatch` after both goroutines are gone,
`ContractCalls`, `EventRead` and `Tools` when the programs are done.
`LogIteration` keeps the deadlock check, as a reader can always call Next.

### Fairness

Goroutines that can run do run, and the runtime's select is random, so a case
that stays ready is taken (weak fairness), and one that is ready again and again
in a loop is taken too (strong, for the cases of `dispatch` only). The node
answers or the connection breaks. Nothing is assumed of
people: no fairness on Next, Close, Unsubscribe, the user's receive, or another
send of a raw transaction. `LogWatch` assumes that the request of the forwarding
goroutine to unsubscribe ends; `RpcClient` shows the one case in which it does
not (`CallForgotten`). A scan goes on while it has lines to read, and its
requests are answered or fail. `ContractCalls` and `EventRead` have safety
properties only: nobody promises that blocks come. `TxLiveness` assumes of the
node that somebody mines, for each account, what the pool offers (a block with the
next nonce is found in the end) and that the pool learns of new blocks, whose loop
(`tx_pool.go:355`) always runs; it assumes nothing of calls and of requests on
their way, which may stay unanswered for ever.

## 4. Theorems

Each holds for every value of the constants the named assumptions allow.

| Theorem | Statement | Argument |
|---|---|---|
| `TxSubmitProofs!TypeCorrect` | types | one step per action |
| `!OneHolder` | one transaction per nonce, in the pool and the blocks it stands on | `Settled`: blocks are in nonce order, the pool is above those it stands on and has one per nonce; what a reset takes back is below (`ReinjectFacts`) |
| `!NoGap` | no hole below a pooled nonce, without evictions | `NothingSkipped`: everything below a nonce that was read, is on its way or pooled is taken. Needed because a nonce is used long after it was read |
| `!OffersHold` | an accepted nonce keeps a holder at least as good, or a block has contained a cheaper rival, until an eviction there | replacement only raises (`OutbidsTransitive`); a reset keeps the holder, or a block of another of that nonce passed it (`ResetKeepsOrMined`, `HeldKept`) |
| `!RefusedIsTwin` | a refused call whose transaction the pool ever took sent it before, or another call signed the same | `Signed`: what was taken or is on its way was signed and sent by a call; `SentLast`: who has sent reads nothing more; `Twins`: the claim, of what is on its way too |
| `!LedgerImplemented` | `Spec => Promise!Spec` (`Ledger`) | `TakeStep`: what the pool takes outbids its rival and has no nonce of the blocks it stands on; `SettleStep`: a reset gives the nonces of the blocks to what they contain, all of which was offered (`Recorded`), and throws out what it refuses; `DropStep`; `HeldStands`, for blocks found or undone; `ToldOne`, `ToldNothing`, `ToldAgain`: a call that was told reads nothing more (`OkReturned`) |
| `!AlonePays` | calls that do not overlap all pay | `Alone`: of an account one call runs; what it will sign, and what is on its way, has a nonce above all that was ever taken, or was taken already; and all that was taken is held |
| `LogIteratorProofs!CompleteAnswer`, `!CloseReleases`, `!IteratorTypes` | the invariants of the run | where each log is: handed out, rejected, in the channel, or not sent |
| `!Implementation` | `Spec => Stream!Spec` | each step delivers, fails, ends, closes, or stutters |
| `LogWatchProofs!InOrder` | events in order without a gap | `InPlace`: got, the log in hand, channel and queue are consecutive while the watcher listens |
| `!Released`, `!SaysWhy`, `!WatchTypes` | release, the true reason, types | `Endings`: who may have marked the subscription, and that the reason is in the watcher, in `err`, or was read. An Unsubscribe before the mark loses it, even when the producer has returned it; the theorem says that only this and a closed client do |
| `RpcClientProofs!LockExcludes` | one writer | `LockHeld`, `SwapFor`: a result in `reqSent` and a connection being swapped belong to `lastOp` |
| `!RpcTypes` | types, bounded queue | with `FetchCall`, `InHand` |
| `RpcOrderProofs!ReceivedInOrder` | main has the notifications in order, without a gap | `OInv`: `Rises`, the notifications on the wire are in order; `Starting`, behind the answer that grants the subscription they begin with the first; `Forwarding`, while the loop forwards, those with main, in the queue, with dispatch and on the wire continue each other |
| `!DroppedWhenFull` | a subscription overflows only when its queue is full | part of `OInv`; `Causes`: no end has a cause before it came |
| `ContractCallsProofs!WriteSticks` | a write after its deployment has its effect | `InOrder`: blocks are in nonce order, so the write's block is above the deployment's; `Written`: from the deployment's block on the contract is its own, and holds the last write's item |
| `!TokenWriteFollows` | a token write takes the nonce of the deployment it saw, or an earlier one, only after an eviction at or below it | `NothingSkipped`: below what was read, sent or taken every nonce is taken, or its holder was thrown out (`KeptStays`); code in the pending block means that this holds up to `Home` (`PendingTakesHome`) |
| `!AddressKept` | while no holder of the nonce is thrown out, the first deployment the pool took there is mined, or one of a higher price | `FirstOutbid`: all that the pool ever took for a nonce outbids the first, so a block of any of them does |
| `!Genuine`, `!Refused` | reads are genuine, and refused only without code | `Watching`: the head is among those the read may see, and an empty answer came from a head without code |
| `!CallTypes` | types; a transaction has a price the node suggested | `Priced`: who stands behind a request for the price has one, and every program that sends asked before (`SendAfterPrice`, over the eleven lists of requests) |
| `EventReadProofs!PrintsWhatItKnows` | a reader prints every event it knows, once and in order | `Kept`: what was printed are the wanted logs of the answer up to the position; stated by positions, so that it needs no filter of a sequence |
| `!OnlyForeignStops` | only a foreign log, or one of the two of `StopsAt`, stops a reader; `transactions` stops only at a creation or an undone block | `StillThere`, `StoppedBy`: the log at the position is why the program ended |
| `ToolsProofs!ReadsTheFile` | a scan that says it read the file handled each line once, in order | `InOrder`, `Ahead`, `AllSeen`: the lines handled, the lines in the buffer and the rest of the file are the file, which only grows |
| `!WeiComesBack`, `!ConvertsRight` | the conversions of `util.go` agree with exact arithmetic | `Computed`: the last result is what its operator makes of its arguments; then the lemmas on division and rounding below |

The conversions use powers of ten, a recursive function. What it computes for
every exponent is proved by the least counterexample: a non-empty set of naturals
has a least element (`Least`, from the well-foundedness of the naturals), so the
set of exponents up to which no such function exists, or two different ones do, is
empty (`PowersExist`, `PowersUnique`, `Pow10Next`, `Pow10Sum`). Rounding is then
arithmetic: `RoundedIsNear` (at most half a unit away), `TruncExact` (nothing
is lost when the digits suffice), `DivMod`.

The assumptions are the named ones of each model's module: the sets are finite
where the code's are, prices and bounds are naturals, and the markers that stand
for "nothing" are no values. No theorem assumes anything about the size of an
instance.

Only model-checked: the liveness properties (OkSettles, NextReturns, CloseEndsProducer, DispatchGoesOn, FetchReturns, DropReported,
LossReported, UnsubscribeEnds, EndsOnError, ScanEnds), as the prover has no rule
for fairness, and the four statements that the code does not keep. Every
invariant that a passing run checks, and every action property, is a theorem. That
`LogIterator` implements `LogStream`, and `TxSubmit` `Ledger`, is both.

## 5. Where code and text disagree

- `TxNonceReused`: the book calls a nonce a number that is used once and
  PendingNonceAt the one to use; two overlapping TransferEth calls use the same,
  both without error, and the second replaces the first.
- `LogAfterClose`: `Close` "terminates the iteration process", but Next still
  hands out what was in the channel.
- `CallForgotten`: `cancelAllRequests` "unblocks and removes pending requests",
  but one whose write has succeeded and whose `reqSent` dispatch has not received
  is removed and never unblocked.
- `TokenAllowance`: the binding's comment says `allowance` returns the remaining
  amount; Allowance (and TotalSupply) passes results no answer unpacks into.

Found while reading and modelled, each without a run of its own:

- `helper.go:98` signs for chain 1, where en/transfer-eth/README.md:82 derives the
  chain id from the client (`SignerChain` in `TxSubmit`).
- `contract_write.go:75` expects "bar", the value just sent; the read is answered
  at a head that does not hold the transaction yet, or fails.
- `contract_read.go:30` expects "1.0"; 32 bytes are printed, filled up with NUL
  (`AsArray`).
- `Store.go:140` says Raw.Call sets its result; it unpacks into a slice of its own
  (`RawCall`).
- `event_read_0xprotocol.go:144` parses "0x..." to base 16 and ends at the first
  LogError, which en/event-read-0xprotocol/README.md:218 prints.
- `event_read_erc20.go:42` asks for a range that ends before it begins
  (`QueryNothing`); en/event-read-erc20/README.md:57 has it in order.
- `event_read.go:25` names the address of a token, so that its logs are not the
  ItemSet events of en/event-read/README.md:7 (`event_read`).
- `util.go:70` rounds to 16 digits, so that an amount of wei in ether may lose its
  last two (`WeiSurvives`); `util.go:102` makes a large limit negative.
- `transaction_raw_read.go:30` recovers a sender only from a signature for chain
  122 (modulo 128; lemma `RawVOnChain`), and its comment at line 63 shows that of
  the Rinkeby transaction (chain 4) it asks for.
- `GetGasPrice` may return 90 gwei, the cap, or pass on what the node says below
  it, 0 too; helper_test.go:221-231 wants more than 0 and less than 90 gwei.
  Neither is a property of a run: `ConversionsRight` speaks of `util.go` alone.
- `event_read_by_transaction.go:29` lets every Approval with more than two topics
  to `Topics[3]`, so that the ordinary one of erc20.sol:16, with three, panics
  (`StopsAt`).
- `keystore.go:39` imports into the directory that holds the account, which is
  always refused; package `util` declares `main` several times and does not
  compile as it stands.

## 6. Plan

Done, in the order of what goes wrong most easily: the senders, the iterators, the
watchers, the RPC client, the contract programs, the event readers, and the
conversions and scans; then the theorems, until every safety property that the
runs check was one, the ledger of the node, and its pool apart from the chain. What is left is out of reach of the
prover (liveness) or of the models' purpose (section 7).

## 7. Not modelled

- Cryptography, encodings and the EVM (libraries), printing, the book's text, and
  vendored code no modelled program depends on.
- `keystore`: main only creates an account. importKs is not called, and ends at
  line 41 before it removes the old file, so no crash can leave both.
- `client_simulated`: one goroutine sends one transaction and commits it itself.
- Whisper: kept as text; the vendored library no longer contains what it calls.
- Programs of one request (`client`, `rpc_call`, `blocks`, `account_balance`, ...)
  and conversions of one library call (`address`, `wallet_generate`, `rlp`, ...).
- Of the RPC client: Client.Close, expiring contexts, batches, HTTP, and a second
  subscription, which no program here uses.
