------------------------------- MODULE TxSubmit -------------------------------
(***************************************************************************)
(* The programs that sign a transaction and hand it to an Ethereum node:   *)
(* Service.TransferEth and Service.TransferTokens of helper/helper.go and  *)
(* the scripts transfer_eth, transfer_tokens, transaction_raw_create with  *)
(* transaction_raw_send, contract_deploy and contract_write.  Each is a    *)
(* sequence of calls to the node: what one call answers (the next nonce,   *)
(* a gas price, a chain id) is used several calls later, when other        *)
(* programs that sign with the same key, the miner, or an eviction may     *)
(* have changed the node.                                                  *)
(*                                                                         *)
(* The node is the transaction pool and the chain of the vendored          *)
(* go-ethereum, reduced to what a sender can tell apart: which transaction *)
(* holds the slot <<account, nonce>>.  The pool follows the chain in steps *)
(* of its own (Reset): until then it judges, and answers, by the blocks it *)
(* knew before.  Blocks are made by anyone, of what the node ever took and *)
(* told its peers, a transaction that was replaced since among it; nobody  *)
(* signs for the accounts through another node.                            *)
(***************************************************************************)
EXTENDS Integers, Sequences, FiniteSets

CONSTANTS
  Accounts,          \* the addresses whose private keys the programs hold
  Payloads,          \* recipient, amount and data of a transaction
  Calls,             \* the program runs (and the calls of the Service methods)
  Kind,              \* the program a call runs
  From,              \* the account it signs for
  Pay,               \* the payload it sends
  Market,            \* the fees the node may suggest: records [base, tip]
  ChainID,           \* the chain id the node checks signatures against
  NetworkID,         \* the network id the node reports (net_version)
  Unprotected,       \* stands for "signed without a chain id" (HomesteadSigner)
  AllowUnprotected,  \* whether the node takes transactions without a chain id
  PriceBump,         \* percent by which a replacement must raise the fees
  MaxSends,          \* how often the operator runs transaction_raw_send
  MaxUndone,         \* bound: how many blocks are undone
  MaxNonce           \* bound of the nonces TLC enumerates; no run reaches it

Kinds == {"TransferEth", "TransferTokens", "transfer_eth", "transfer_tokens",
          "raw", "contract_deploy", "contract_write"}

ASSUME ConstantsOK ==
  /\ Kind \in [Calls -> Kinds] /\ From \in [Calls -> Accounts] /\ Pay \in [Calls -> Payloads]
  /\ Market \subseteq [base : Nat, tip : Nat]
  /\ {ChainID, NetworkID} \subseteq Nat /\ Unprotected \notin Nat /\ AllowUnprotected \in BOOLEAN
  /\ {PriceBump, MaxSends, MaxUndone, MaxNonce} \subseteq Nat

VARIABLES
  at,       \* index of the step each call takes next in its program
  nonce,    \* the nonce each call has read (0, the zero value, before)
  price,    \* the fee cap and the tip each call has read
  outcome,  \* what each call returned
  sends,    \* how often each call's transaction was sent
  wire,     \* requests whose sender gave up, still on their way
  pool,     \* the transactions that wait in the node's pool
  base,     \* per account, the transactions in the blocks the pool stands on
  chain,    \* per account, the transactions in blocks, in nonce order
  undone,   \* blocks undone so far
  known,    \* history: transactions the pool has ever taken
  mined,    \* history: transactions that some block contained
  evicted,  \* history: transactions the pool has thrown out
  overlap   \* history: some call started before another had settled

callVars == <<at, nonce, price, outcome, sends>>
poolVars == <<pool, base, known, evicted>>
chainVars == <<chain, undone, mined>>
nodeVars == <<wire, poolVars, chainVars>>
vars == <<callVars, nodeVars, overlap>>

-------------------------------------------------------------------------------
(* Programs and transactions.                                              *)

Fees == [fee : Nat, tip : Nat]
Tx == [from : Accounts, nonce : Nat, pay : Payloads, price : Fees,
       chain : Nat \cup {Unprotected}]

\* The requests a program makes, in source order.  "head" reads the base fee,
\* "price" the suggested price or tip, "estimate" the gas, "chain" the network id.
TransferEthSteps == <<"nonce", "price", "send">>
TransactSteps == <<"head", "price", "estimate", "nonce", "send">>
TransferTokensSteps == TransactSteps
transfer_ethSteps == <<"nonce", "price", "chain", "send">>
transfer_tokensSteps == <<"nonce", "price", "estimate", "chain", "send">>
contract_deploySteps == <<"nonce", "price", "send">>
contract_writeSteps == <<"nonce", "price", "send">>
\* transaction_raw_create prints instead of sending; transaction_raw_send sends.
raw_createSteps == <<"nonce", "price", "chain">>
raw_sendSteps == <<"send">>

Program == [k \in Kinds |->
  CASE k = "TransferEth"     -> TransferEthSteps
    [] k = "TransferTokens"  -> TransferTokensSteps
    [] k = "transfer_eth"    -> transfer_ethSteps
    [] k = "transfer_tokens" -> transfer_tokensSteps
    [] k = "raw"             -> raw_createSteps \o raw_sendSteps
    [] k = "contract_deploy" -> contract_deploySteps
    [] k = "contract_write"  -> contract_writeSteps]

Doing(c, step) == /\ at[c] \in DOMAIN Program[Kind[c]]
                  /\ Program[Kind[c]][at[c]] = step
Returned(c) == at[c] > Len(Program[Kind[c]])
Running(c) == at[c] > 1 /\ ~Returned(c)

\* The chain id a call signs with: written into the program, missing, or the
\* network id it asked the node for.
SignerChain(c) ==
  CASE Kind[c] = "TransferEth"     -> 1
    [] Kind[c] = "contract_deploy" -> 4
    [] Kind[c] = "contract_write"  -> Unprotected
    [] Kind[c] = "TransferTokens"  -> ChainID
    [] OTHER                       -> NetworkID

\* The signed transaction; signatures are deterministic, so equal contents are
\* the same transaction.
TxOf(c) == [from |-> From[c], nonce |-> nonce[c], pay |-> Pay[c],
            price |-> price[c], chain |-> SignerChain(c)]

-------------------------------------------------------------------------------
(* The node.                                                               *)

InBlocks(bs) == {bs[i] : i \in DOMAIN bs}
Held(a) == {t \in pool : t.from = a} \cup InBlocks(base[a])
Taken(a, n) == n < Len(base[a]) \/ \E t \in pool : t.from = a /\ t.nonce = n

\* Mutant: NonceAt, the nonce after the mined transactions only.
IsPendingNonceMinedOnly(a, n) == n = Len(base[a])

\* Mutant: a local nonce manager that counts the nonces of calls not sent yet.
IsPendingNonceReserved(a, n) ==
  n = Len(base[a]) + Cardinality({t \in pool : t.from = a})
        + Cardinality({c \in Calls : From[c] = a /\ Running(c)})

\* What PendingNonceAt answers: the first nonce nothing executable has taken.
IsPendingNonce(a, n) == ~Taken(a, n) /\ \A m \in 0..(n - 1) : Taken(a, m)

\* A replacement must raise the fee cap and the tip, both by PriceBump percent.
Raises(new, old) == /\ new > old
                    /\ new >= (old * (100 + PriceBump)) \div 100
Outbids(new, old) == /\ Raises(new.price.fee, old.price.fee)
                     /\ Raises(new.price.tip, old.price.tip)

Rivals(t) == {old \in pool : old.from = t.from /\ old.nonce = t.nonce}

\* Mutant: the price of a replacement is not compared.
AcceptableAnyPrice(t) == /\ t \notin pool
                         /\ t.chain \in {ChainID, Unprotected}
                         /\ t.nonce >= Len(base[t.from])

\* add and validateTx, for the blocks the pool stands on.
Acceptable(t) == /\ t \notin pool
                 /\ \/ t.chain = ChainID
                    \/ t.chain = Unprotected /\ AllowUnprotected
                 /\ t.nonce >= Len(base[t.from])
                 /\ \A old \in Rivals(t) : Outbids(t, old)

\* The transaction takes the place of its rival and is told to the peers.
PoolAdd(t) == /\ pool' = (pool \ Rivals(t)) \cup {t}
              /\ known' = known \cup {t}
              /\ UNCHANGED <<base, evicted>>

-------------------------------------------------------------------------------
(* The steps of a call.                                                    *)

Init == /\ at = [c \in Calls |-> 1]
        /\ nonce = [c \in Calls |-> 0]
        /\ price = [c \in Calls |-> [fee |-> 0, tip |-> 0]]
        /\ outcome = [c \in Calls |-> "none"]
        /\ sends = [c \in Calls |-> 0]
        /\ wire = {} /\ pool = {} /\ known = {} /\ mined = {} /\ evicted = {}
        /\ base = [a \in Accounts |-> <<>>] /\ chain = base
        /\ undone = 0 /\ overlap = FALSE

\* History: c starts while a call of the same account runs, or while a request
\* of that account is still on its way; or (SendAgain) a raw transaction is sent
\* a second time after another call of the account has started.
NoteStart(c) ==
  overlap' = (overlap \/ /\ at[c] = 1
                         /\ \/ \E d \in Calls : From[d] = From[c] /\ Running(d)
                            \/ \E t \in wire : t.from = From[c])

Proceed(c) == /\ at' = [at EXCEPT ![c] = @ + 1]
              /\ NoteStart(c)
              /\ UNCHANGED <<nodeVars, outcome, sends>>

ReadNonce(c) == /\ Doing(c, "nonce")
                /\ \E n \in 0..MaxNonce : /\ IsPendingNonce(From[c], n)
                                          /\ nonce' = [nonce EXCEPT ![c] = n]
                /\ Proceed(c)
                /\ UNCHANGED price

ReadHead(c) == /\ Doing(c, "head")
               /\ \E m \in Market : price' = [price EXCEPT ![c].fee = 2 * m.base]
               /\ Proceed(c)
               /\ UNCHANGED nonce

\* A legacy price is one number, tip and base fee together; a dynamic one adds
\* the tip to twice the base fee read before.
ReadPrice(c) ==
  /\ Doing(c, "price")
  /\ \E m \in Market :
       LET dynamic == [fee |-> price[c].fee + m.tip, tip |-> m.tip]
           legacy  == [fee |-> m.base + m.tip, tip |-> m.base + m.tip]
       IN  price' = [price EXCEPT ![c] =
                       IF Kind[c] = "TransferTokens" THEN dynamic ELSE legacy]
  /\ Proceed(c)
  /\ UNCHANGED nonce

\* The gas estimate and the network id: the answer is not used by later guards.
Ask(c) == /\ Doing(c, "estimate") \/ Doing(c, "chain")
          /\ Proceed(c)
          /\ UNCHANGED <<nonce, price>>

Return(c, result) == /\ at' = [at EXCEPT ![c] = Len(Program[Kind[c]]) + 1]
                     /\ outcome' = [outcome EXCEPT ![c] = result]
                     /\ UNCHANGED <<nonce, price>>

\* A request before the send fails: the program returns the error or exits.
Fail(c) == /\ ~Doing(c, "send") /\ ~Returned(c)
           /\ Return(c, "failed")
           /\ NoteStart(c)
           /\ UNCHANGED <<nodeVars, sends>>

Send(c) == Doing(c, "send") /\ sends' = [sends EXCEPT ![c] = @ + 1]

SendAccepted(c) == /\ Send(c) /\ Acceptable(TxOf(c))
                   /\ PoolAdd(TxOf(c))
                   /\ Return(c, "ok")
                   /\ UNCHANGED <<wire, chainVars, overlap>>

\* Mutant: the node reports an error of the promotion after it took the transaction.
SendRefusedButAdded(c) == /\ Send(c) /\ Acceptable(TxOf(c))
                          /\ PoolAdd(TxOf(c))
                          /\ Return(c, "refused")
                          /\ UNCHANGED <<wire, chainVars, overlap>>

\* The node answers with an error: one of the refusals of Acceptable, or one
\* the model leaves open (funds, gas limits, a full pool).
SendRefused(c) == /\ Send(c)
                  /\ Return(c, "refused")
                  /\ UNCHANGED <<nodeVars, overlap>>

\* The connection breaks: the sender gets an error and the request may have
\* been lost, or be on its way, or have been executed already (LateArrival).
SendAbandoned(c) == /\ Send(c)
                    /\ wire' = wire \cup {TxOf(c)}
                    /\ Return(c, "unknown")
                    /\ UNCHANGED <<poolVars, chainVars, overlap>>

\* The operator runs transaction_raw_send again with the same raw transaction.
SendAgain(c) == /\ Kind[c] = "raw" /\ Returned(c)
                /\ sends[c] \in 1..(MaxSends - 1)
                /\ at' = [at EXCEPT ![c] = Len(Program["raw"])]
                /\ outcome' = [outcome EXCEPT ![c] = "none"]
                /\ overlap' = (overlap \/ \E d \in Calls \ {c} : From[d] = From[c] /\ at[d] > 1)
                /\ UNCHANGED <<nodeVars, nonce, price, sends>>

-------------------------------------------------------------------------------
(* Steps of the network, the node and the miner.                           *)

LateArrival(t) == /\ t \in wire
                  /\ wire' = wire \ {t}
                  /\ IF Acceptable(t) THEN PoolAdd(t) ELSE UNCHANGED poolVars
                  /\ UNCHANGED <<callVars, chainVars, overlap>>

RequestLost(t) == /\ t \in wire
                  /\ wire' = wire \ {t}
                  /\ UNCHANGED <<callVars, poolVars, chainVars, overlap>>

\* A block contains t, an account's next transaction.
Mine(t) == /\ t.nonce = Len(chain[t.from])
           /\ chain' = [chain EXCEPT ![t.from] = Append(@, t)]
           /\ mined' = mined \cup {t}
           /\ UNCHANGED <<callVars, wire, poolVars, undone, overlap>>

\* The last block with a transaction of a is undone; another may take its place.
Undo(a) == /\ undone < MaxUndone /\ chain[a] # <<>>
           /\ chain' = [chain EXCEPT ![a] = SubSeq(@, 1, Len(@) - 1)]
           /\ undone' = undone + 1
           /\ UNCHANGED <<callVars, wire, poolVars, mined, overlap>>

\* Transactions of undone blocks that are in no block, nor is one of their nonce.
Reinject == {t \in UNION {InBlocks(base[a]) \ InBlocks(chain[a]) : a \in Accounts} :
               t.nonce >= Len(chain[t.from])}

\* Mutant: the transactions of an undone block are not put back.
ResetForgets == /\ base # chain /\ base' = chain
                /\ pool' = {t \in pool : t.nonce >= Len(chain[t.from])}
                /\ UNCHANGED <<callVars, wire, chainVars, known, evicted, overlap>>

\* Mutant: the pool keeps what a block has overtaken.
ResetKeeps == /\ base # chain /\ base' = chain
              /\ pool' = pool \cup Reinject
              /\ UNCHANGED <<callVars, wire, chainVars, known, evicted, overlap>>

\* The pool learns of a new head: it takes back what undone blocks contained,
\* except what add refuses now (a full pool, the price, the funds), and drops what
\* the blocks have overtaken.
Reset == /\ base # chain /\ base' = chain
         /\ \E refused \in SUBSET Reinject :
              /\ pool' = {t \in pool : t.nonce >= Len(chain[t.from])} \cup (Reinject \ refused)
              /\ evicted' = evicted \cup refused
         /\ UNCHANGED <<callVars, wire, chainVars, known, overlap>>

Evict(t) == /\ t \in pool
            /\ pool' = pool \ {t}
            /\ evicted' = evicted \cup {t}
            /\ UNCHANGED <<callVars, wire, base, known, chainVars, overlap>>

Step(c) == \/ ReadNonce(c) \/ ReadHead(c) \/ ReadPrice(c) \/ Ask(c) \/ Fail(c)
           \/ SendAccepted(c) \/ SendRefused(c) \/ SendAbandoned(c)

Next == \/ \E c \in Calls : Step(c) \/ SendAgain(c)
        \/ \E t \in wire : LateArrival(t) \/ RequestLost(t)
        \/ \E t \in known : Mine(t)
        \/ \E a \in Accounts : Undo(a)
        \/ Reset
        \/ \E t \in pool : Evict(t)

Spec == Init /\ [][Next]_vars

\* Somebody mines what the pool offers, and the pool learns of new blocks; the
\* calls need not go on.
FairSpec == Spec /\ \A a \in Accounts : WF_vars(\E t \in pool : t.from = a /\ Mine(t))
                 /\ WF_vars(Reset)
-------------------------------------------------------------------------------
(* Properties.                                                             *)

TypeOK == /\ at \in [Calls -> Nat \ {0}]
          /\ nonce \in [Calls -> Nat]
          /\ price \in [Calls -> Fees]
          /\ outcome \in [Calls -> {"none", "failed", "ok", "refused", "unknown"}]
          /\ sends \in [Calls -> Nat]
          /\ wire \subseteq Tx /\ pool \subseteq Tx
          /\ known \subseteq Tx /\ mined \subseteq Tx /\ evicted \subseteq Tx
          /\ base \in [Accounts -> Seq(Tx)] /\ chain \in [Accounts -> Seq(Tx)]
          /\ undone \in Nat /\ overlap \in BOOLEAN

\* Whatever the calls raced for and whichever rival a block contains, at most one
\* transaction holds each nonce of an account, in the pool and in the blocks it
\* stands on together (tx_pool add, reset, list.Forward, txList.Add).
OneHolderPerNonce == \A a \in Accounts : \A t, u \in Held(a) : t.nonce = u.nonce => t = u

SameNonce(t, u) == t.from = u.from /\ t.nonce = u.nonce

\* A call that returned without error keeps its nonce: until the pool evicts a
\* holder of that nonce, it is held by the call's own transaction or by one that
\* offered more by the price bump; by less only after some block has contained a
\* rival that offered less.
OfferHolds ==
  \A c \in Calls :
    outcome[c] = "ok" /\ (\A e \in evicted : e.from = From[c] => e.nonce # nonce[c])
      => \E t \in Held(From[c]) :
           /\ t.nonce = nonce[c]
           /\ \/ t = TxOf(c) \/ Outbids(t, TxOf(c))
              \/ \E m \in mined : SameNonce(m, TxOf(c)) /\ m # TxOf(c) /\ ~Outbids(m, TxOf(c))

\* Calls that fail after reading their nonce, race for it or are answered late
\* leave no hole: while the pool has evicted nothing, the transactions of an
\* account in the pool follow those in blocks without a gap, so each can be mined.
NoGapUnlessEvicted ==
  evicted = {} => \A t \in pool : \A m \in 0..t.nonce : Taken(t.from, m)

\* A call the node refused has its transaction taken, before or after, only when
\* an equal one was sent by another call, or earlier by the same one (a second
\* transaction_raw_send answers "already known" or "nonce too low").
RefusedButHeldHasATwin ==
  \A c \in Calls :
    outcome[c] = "refused" /\ TxOf(c) \in known
      => \/ sends[c] > 1
         \/ \E d \in Calls \ {c} : TxOf(d) = TxOf(c) /\ sends[d] > 0

\* Run one after another, with no request left on its way and nothing evicted,
\* all calls that returned without error pay, though the pool lags behind the
\* blocks: none takes a nonce of another.
LoneCallsAllPay ==
  ~overlap /\ evicted = {} =>
    \A c \in Calls : outcome[c] = "ok" => TxOf(c) \in Held(From[c])

HeldOfAll == UNION {Held(a) : a \in Accounts}
Told == {TxOf(c) : c \in {d \in Calls : outcome[d] = "ok"}}

Promise == INSTANCE Ledger WITH
             held <- HeldOfAll, offered <- known, dropped <- evicted, told <- Told

\* Senders may rely on Ledger, whatever blocks are found, undone or late, and
\* whatever requests are lost or late (TxPool.add, TxPool.reset, Service.SendTx).
ImplementsLedger == Promise!Spec

\* The nonce of a call that returned without error is used up for good, by its
\* own or a better paid transaction, unless the pool evicted something.
OkSettles == \A c \in Calls :
  outcome[c] = "ok" ~> [](evicted # {} \/ nonce[c] < Len(chain[From[c]]))

\* What the proofs need beside these: blocks hold an account's transactions in
\* nonce order, the pool holds none the blocks it stands on have passed, blocks
\* contain what the pool has taken, a returned call takes no further step, and
\* everything below a nonce that was read or signed is taken.
InOrder(a, bs) == \A i \in DOMAIN bs : bs[i].from = a /\ bs[i].nonce = i - 1
BlocksInOrder == \A a \in Accounts : InOrder(a, base[a]) /\ InOrder(a, chain[a])
PoolAboveBlocks == \A t \in pool : t.nonce >= Len(base[t.from])
PoolUnique == \A t, u \in pool : t.from = u.from /\ t.nonce = u.nonce => t = u
Settled == BlocksInOrder /\ PoolAboveBlocks /\ PoolUnique
Recorded == /\ pool \subseteq known /\ mined \subseteq known
            /\ \A a \in Accounts : InBlocks(base[a]) \cup InBlocks(chain[a]) \subseteq mined
OkReturned == \A c \in Calls : outcome[c] = "ok" => Returned(c)
BelowTaken(a, n) == \A m \in 0..(n - 1) : Taken(a, m)
NothingSkipped ==
  evicted = {} => /\ \A c \in Calls : BelowTaken(From[c], nonce[c])
                  /\ \A t \in pool \cup wire : BelowTaken(t.from, t.nonce)

\* transfer-eth/README.md: "A nonce by definition is a number that is only used
\* once"; PendingNonceAt "will return the next nonce you should use".
NonceUsedOnce ==
  \A c, d \in Calls :
    c # d /\ From[c] = From[d] /\ outcome[c] = "ok" /\ outcome[d] = "ok" => nonce[c] # nonce[d]
===============================================================================
