----------------------------- MODULE ContractCalls -----------------------------
(***************************************************************************)
(* Programs that deploy, write and read a contract through the generated   *)
(* bindings: contract_deploy, contract_write, contract_read,               *)
(* contract_read_erc20, contract_bytecode, contract_write_estimate_gas,    *)
(* and the Service getters of helper.go.  They sign with one key and use   *)
(* one contract address, written into the source; what they read is the    *)
(* state of the node's head at that moment, which grows and may be undone  *)
(* between any two requests.  The node is that of TxSubmit for one account: *)
(* a pool that follows the blocks late and may throw a transaction out,    *)
(* blocks made by anyone of what the pool ever took.  Beside it stands the *)
(* pending block, made of both now and then.                               *)
(*                                                                         *)
(* A contract has a text (version, name, symbol) and an item (an entry of  *)
(* the mapping, a balance).  A value is named by the program that wrote it.*)
(***************************************************************************)
EXTENDS Naturals, Sequences, FiniteSets

CONSTANTS
  Progs,          \* runs of programs
  Sessions,       \* which programs run together: functions from Progs
  Text,           \* the version a deployer gives its contract, a sequence of bytes
  Prices,         \* gas prices the node suggests; each replaces the lower ones
  Home,           \* the nonce the contract's address was made from
  Width,          \* bytes of the array a text is read into (32)
  Zero, Nil, Key, NUL, Code, NoCode,
  MaxUndone       \* bound: how many blocks are undone

\* The requests of each program.  NewStore and NewToken only parse the interface.
NewStore == <<>>
NewToken == <<>>
contract_deploy == <<"nonce", "price", "send">>
contract_load == NewStore
contract_write == <<"nonce", "price">> \o NewStore \o <<"send", "Items">>
contract_read == NewStore \o <<"Version">>
contract_read_erc20 == NewToken \o <<"BalanceOf", "Name", "Symbol", "Decimals">>
contract_bytecode == <<"CodeAt">>
contract_write_estimate_gas == <<"price", "EstimateGas">>
GetTokenBalance == NewToken \o <<"BalanceOf">>
GetTokenDecimals == NewToken \o <<"Decimals">>
Bindings == NewToken \o <<"Allowance", "TotalSupply", "Call">>

\* Mutant: the nonce is taken before the look at the code.
TokenWriteNonceFirst == <<"head", "price", "nonce", "code", "estimate", "send">>

\* Approve, Transfer and TransferFrom: no gas limit, so the code is looked at.
TokenWrite == NewToken \o <<"head", "price", "code", "estimate", "nonce", "send">>

Plan == [contract_deploy |-> contract_deploy, contract_load |-> contract_load,
         contract_write |-> contract_write, contract_read |-> contract_read,
         contract_read_erc20 |-> contract_read_erc20, contract_bytecode |-> contract_bytecode,
         contract_write_estimate_gas |-> contract_write_estimate_gas,
         GetTokenBalance |-> GetTokenBalance, GetTokenDecimals |-> GetTokenDecimals,
         Bindings |-> Bindings, TokenWrite |-> TokenWrite]
\* The Service methods and the bindings return the error at which a main stops.
Returns == {"GetTokenBalance", "GetTokenDecimals", "Bindings", "TokenWrite"}

Nonces == 0..Cardinality(Progs)

ASSUME ConstantsOK ==
  /\ IsFiniteSet(Progs) /\ Sessions \subseteq [Progs -> DOMAIN Plan]
  /\ \A p \in Progs : Text[p] \in Seq(STRING)
  /\ Prices \subseteq Nat /\ Home \in Nonces /\ Width \in Nat /\ MaxUndone \in Nat
  /\ NUL \in STRING /\ Zero \notin Progs /\ NoCode \notin [text : Seq(STRING), item : Progs \cup {Zero}]

VARIABLES
  kind,     \* which program each run is of
  ip,       \* the request each program makes next; 0 once it stopped with log.Fatal
  nonce, price,  \* what the programs have read
  empty,    \* whether the program's CallContract was answered with nothing
  out,      \* the value and the error of the program's last read
  seen,     \* history: the contract at the heads since the request became next
  chain,    \* the account's transactions in blocks, each with the contracts after it
  undone,   \* blocks undone so far
  pool,     \* the account's transactions that wait in the node's pool
  base,     \* the blocks the pool stands on: the chain, or what it was
  pending,  \* whether the address has code in the node's pending block
  wire,     \* requests to send whose program gave up, still on their way
  known,    \* history: transactions the pool has ever taken
  first,    \* history: those the pool took as the first of their nonce
  evicted   \* history: transactions the pool has thrown out

progVars == <<kind, ip, nonce, price, empty, out>>
chainVars == <<chain, undone>>
poolVars == <<pool, base, known, first, evicted>>
nodeVars == <<chainVars, poolVars, pending, wire>>
vars == <<progVars, seen, nodeVars>>

-------------------------------------------------------------------------------
(* The node.                                                               *)

Tx == [by : Progs, nonce : Nonces, price : Prices]
Deploys(t) == kind[t.by] = "contract_deploy"

Constructed(t) == [text |-> Text[t.by], item |-> Zero]
SetItem(c, t) == IF c = NoCode THEN NoCode ELSE [c EXCEPT !.item = t.by]

\* The contracts after a transaction.  An address is the nonce it was made from;
\* setItem to an address without code does nothing and its receipt says 1.
Apply(w, t) ==
  IF Deploys(t) THEN [w EXCEPT ![t.nonce] = Constructed(t)] ELSE [w EXCEPT ![Home] = SetItem(@, t)]

World(bs) == IF bs = <<>> THEN [n \in Nonces |-> NoCode] ELSE bs[Len(bs)].world
Contract == World(chain)[Home]

\* The contract is at the head, or deployed by a waiting transaction that no gap
\* keeps out of the next block.
PendingCode ==
  \/ Contract # NoCode
  \/ Home >= Len(chain) /\ \E t \in pool :
       /\ Deploys(t) /\ t.nonce = Home
       /\ \A m \in Len(chain)..(Home - 1) : \E u \in pool : u.nonce = m

Taken(m) == m < Len(base) \/ \E t \in pool : t.nonce = m
IsPendingNonce(n) == ~Taken(n) /\ \A m \in 0..(n - 1) : Taken(m)

\* Mutant: a replacement need not pay more.
AcceptableAnyPrice(t) == t.nonce >= Len(base)

\* For the blocks the pool stands on.
Acceptable(t) == /\ t.nonce >= Len(base)
                 /\ \A u \in pool : u.nonce = t.nonce => t.price > u.price

\* t takes the place of its rival.
PoolAdd(t) == /\ pool' = {u \in pool : u.nonce # t.nonce} \cup {t}
              /\ known' = known \cup {t}
              /\ first' = first \cup {u \in {t} : \A k \in known : k.nonce # t.nonce}
              /\ UNCHANGED <<base, evicted>>

-------------------------------------------------------------------------------
(* The programs.                                                           *)

Getters == {"Items", "Version", "BalanceOf", "Name", "Symbol", "Decimals",
            "Allowance", "TotalSupply", "Call"}

Doing(p) == IF ip[p] \in DOMAIN Plan[kind[p]] THEN Plan[kind[p]][ip[p]] ELSE "none"
Done(p) == ip[p] > Len(Plan[kind[p]])

Init == /\ kind \in Sessions /\ ip = [p \in Progs |-> 1]
        /\ nonce = [p \in Progs |-> 0] /\ price = [p \in Progs |-> 0]
        /\ empty = [p \in Progs |-> FALSE]
        /\ out = [p \in Progs |-> [val |-> Nil, err |-> "none"]]
        /\ seen = [p \in Progs |-> {NoCode}]
        /\ chain = <<>> /\ base = <<>> /\ pool = {} /\ undone = 0 /\ pending = FALSE
        /\ wire = {} /\ known = {} /\ first = {} /\ evicted = {}

\* The program goes on, or stops; its next request can only see what comes now.
Goes(p, to) == /\ ip' = [ip EXCEPT ![p] = to]
               /\ seen' = [seen EXCEPT ![p] = {Contract}]
               /\ empty' = [empty EXCEPT ![p] = FALSE]

ReadNonce(p) == /\ Doing(p) = "nonce"
                /\ \E n \in Nonces : IsPendingNonce(n) /\ nonce' = [nonce EXCEPT ![p] = n]
                /\ Goes(p, ip[p] + 1) /\ UNCHANGED <<price, out, kind, nodeVars>>

ReadPrice(p) == /\ Doing(p) = "price" /\ \E g \in Prices : price' = [price EXCEPT ![p] = g]
                /\ Goes(p, ip[p] + 1) /\ UNCHANGED <<nonce, out, kind, nodeVars>>

\* estimateGasLimit refuses a contract that is not in the pending block either.
LookAtPendingCode(p) == /\ Doing(p) = "code" /\ Goes(p, IF pending THEN ip[p] + 1 ELSE 0)
                        /\ UNCHANGED <<nonce, price, out, kind, nodeVars>>

\* The base fee and the gas of a token write: no later guard uses them.
Ask(p) == /\ Doing(p) \in {"head", "estimate"} /\ Goes(p, ip[p] + 1)
          /\ UNCHANGED <<nonce, price, out, kind, nodeVars>>

TxOf(p) == [by |-> p, nonce |-> nonce[p], price |-> price[p]]

\* DeployStore and SetItem, with a gas limit and so without a look at the code.
Send(p) ==
  /\ Doing(p) = "send"
  /\ IF Acceptable(TxOf(p)) THEN PoolAdd(TxOf(p)) /\ Goes(p, ip[p] + 1)
                            ELSE Goes(p, 0) /\ UNCHANGED poolVars
  /\ UNCHANGED <<kind, nonce, price, out, chainVars, pending, wire>>

\* Mutant: a text is handed out as it is.
AsArrayWhole(s) == s

\* A text read into an array of bytes: cut at the width, filled up with NUL.
AsArray(s) == [i \in 1..Width |-> IF i <= Len(s) THEN s[i] ELSE NUL]

\* A getter: the value of contract c in its result, the error of unpacking it,
\* and what the result is when the call fails before.  Items passes its key as
\* the destination, Version, Name and Symbol an array, BalanceOf a nil pointer.
Items(c) == [val |-> c.item, err |-> "none", failed |-> Key]
Version(c) == [val |-> AsArray(c.text), err |-> "none", failed |-> AsArray(<<>>)]
Name(c) == Version(c)
Symbol(c) == Version(c)
BalanceOf(c) == [val |-> c.item, err |-> "none", failed |-> Nil]
Decimals(c) == [val |-> c.item, err |-> "none", failed |-> Zero]
\* A slice of five nils ("<nil>" has five characters): no value unpacks into it.
Allowance(c) == [val |-> Nil, err |-> "unpack", failed |-> Nil]
TotalSupply(c) == Allowance(c)
\* Raw.Call with an empty []int, the only result it can fill (a longer one is an
\* error of unpacking, any other type a panic): it unpacks into a slice of its own
\* and leaves the caller's as it was.
RawCall(c) == [val |-> Nil, err |-> "none", failed |-> Nil]

Unpack(op, c) ==
  CASE op = "Items" -> Items(c) [] op = "Version" -> Version(c) [] op = "Name" -> Name(c)
    [] op = "Symbol" -> Symbol(c) [] op = "BalanceOf" -> BalanceOf(c)
    [] op = "Decimals" -> Decimals(c) [] op = "Allowance" -> Allowance(c)
    [] op = "TotalSupply" -> TotalSupply(c) [] op = "Call" -> RawCall(c)

Answer(op, c) == [val |-> Unpack(op, c).val, err |-> Unpack(op, c).err]
\* The contract's fields are not looked at when the call has failed.
Failed(op, err) == [val |-> Unpack(op, [text |-> <<>>, item |-> Zero]).failed, err |-> err]

Return(p, r) == /\ out' = [out EXCEPT ![p] = r]
                /\ Goes(p, IF r.err = "none" \/ kind[p] \in Returns THEN ip[p] + 1 ELSE 0)
Finish(p, r) == Return(p, r) /\ UNCHANGED <<kind, nonce, price, nodeVars>>

\* Mutant: an answer of zero bytes is taken for an empty one.
CallZeroIsEmpty(p) ==
  /\ Doing(p) \in Getters /\ ~empty[p]
  /\ IF Contract = NoCode \/ Contract.item = Zero
     THEN /\ empty' = [empty EXCEPT ![p] = TRUE]
          /\ UNCHANGED <<kind, ip, nonce, price, out, seen, nodeVars>>
     ELSE Finish(p, Answer(Doing(p), Contract))

\* BoundContract.Call asks for the value at the head, and, when the answer is
\* empty, whether the head then has code.
Call(p) ==
  /\ Doing(p) \in Getters /\ ~empty[p]
  /\ IF Contract = NoCode
     THEN /\ empty' = [empty EXCEPT ![p] = TRUE]
          /\ UNCHANGED <<kind, ip, nonce, price, out, seen, nodeVars>>
     ELSE Finish(p, Answer(Doing(p), Contract))

\* Mutant: an empty answer of an address with code is taken for a value.
LookForCodeLax(p) ==
  /\ empty[p]
  /\ Finish(p, Failed(Doing(p), IF Contract = NoCode THEN "no contract code" ELSE "none"))

LookForCode(p) ==
  /\ empty[p]
  /\ Finish(p, Failed(Doing(p), IF Contract = NoCode THEN "no contract code" ELSE "unpack empty"))

\* CodeAt looks at the head, EstimateGas at the pending block; both answer for an
\* address without code too, the estimate as for a transfer.
AskNode(p) ==
  /\ Doing(p) \in {"CodeAt", "EstimateGas"}
  /\ LET code == IF Doing(p) = "CodeAt" THEN Contract # NoCode ELSE pending
     IN Finish(p, [val |-> IF code THEN Code ELSE Nil, err |-> "none"])

\* A request fails: the programs stop, the Service methods return the error.  A
\* transaction may have been taken all the same, or arrive later (Arrive), or never.
RequestFails(p) ==
  /\ Doing(p) # "none"
  /\ wire' = IF Doing(p) = "send" THEN wire \cup {TxOf(p)} ELSE wire
  /\ UNCHANGED <<kind, nonce, price, chainVars, poolVars, pending>>
  /\ IF Doing(p) \in Getters THEN Return(p, Failed(Doing(p), "request"))
                             ELSE Goes(p, 0) /\ UNCHANGED out

-------------------------------------------------------------------------------
(* The node, the network and the miners.                                   *)

Arrive(t) == /\ t \in wire /\ wire' = wire \ {t}
             /\ IF Acceptable(t) THEN PoolAdd(t) ELSE UNCHANGED poolVars
             /\ UNCHANGED <<progVars, seen, chainVars, pending>>

\* The node makes its pending block anew.
Pend == /\ pending' = PendingCode
        /\ UNCHANGED <<progVars, seen, chainVars, poolVars, wire>>

Watch(bs) == seen' = [p \in Progs |-> seen[p] \cup {World(bs)[Home]}]
Block(t) == [tx |-> t, world |-> Apply(World(chain), t)]
InBlocks(bs) == {bs[i].tx : i \in DOMAIN bs}

\* Mutant: transactions of one account are mined in any order.
MineAnyOrder(t) == /\ t \notin InBlocks(chain)
                   /\ chain' = Append(chain, Block(t))
                   /\ Watch(chain') /\ UNCHANGED <<progVars, undone, poolVars, pending, wire>>

\* A block contains t, the account's next transaction.
Mine(t) == /\ t.nonce = Len(chain)
           /\ chain' = Append(chain, Block(t))
           /\ Watch(chain') /\ UNCHANGED <<progVars, undone, poolVars, pending, wire>>

\* The last block with a transaction is undone; another may take its place.
Undo == /\ chain # <<>> /\ undone < MaxUndone /\ undone' = undone + 1
        /\ chain' = SubSeq(chain, 1, Len(chain) - 1)
        /\ Watch(chain') /\ UNCHANGED <<progVars, poolVars, pending, wire>>

\* Transactions of undone blocks that are in no block, nor is one of their nonce.
Reinject == {t \in InBlocks(base) \ InBlocks(chain) : t.nonce >= Len(chain)}

\* The pool learns of a new head: it takes back what undone blocks contained,
\* except what add refuses now, and drops what the blocks have overtaken.
Reset == /\ base # chain /\ base' = chain
         /\ \E refused \in SUBSET Reinject :
              /\ pool' = {t \in pool : t.nonce >= Len(chain)} \cup (Reinject \ refused)
              /\ evicted' = evicted \cup refused
         /\ UNCHANGED <<progVars, seen, chainVars, known, first, pending, wire>>

Evict(t) == /\ t \in pool /\ pool' = pool \ {t} /\ evicted' = evicted \cup {t}
            /\ UNCHANGED <<progVars, seen, chainVars, base, known, first, pending, wire>>

Step(p) == ReadNonce(p) \/ ReadPrice(p) \/ LookAtPendingCode(p) \/ Ask(p) \/ Send(p)
           \/ Call(p) \/ LookForCode(p) \/ AskNode(p)
Next == \/ \E p \in Progs : Step(p) \/ RequestFails(p)
        \/ \E t \in wire : Arrive(t)
        \/ \E t \in known : Mine(t)
        \/ Undo \/ Reset \/ Pend
        \/ \E t \in pool : Evict(t)

Spec == Init /\ [][Next]_vars

-------------------------------------------------------------------------------
(* Properties.                                                             *)

\* The values have their types.
TypeOK ==
  /\ kind \in Sessions /\ ip \in [Progs -> Nat] /\ nonce \in [Progs -> Nonces] /\ price \in [Progs -> Prices \cup {0}]
  /\ empty \in [Progs -> BOOLEAN] /\ undone \in 0..MaxUndone /\ pending \in BOOLEAN
  /\ \A p \in Progs : out[p].val \in Progs \cup {Zero, Nil, Key, Code} \cup [1..Width -> STRING]
  /\ pool \cup wire \cup known \cup first \cup evicted \cup InBlocks(base) \cup InBlocks(chain) \subseteq Tx

\* A read that ends without an error hands out what the contract held at some
\* head of the time it took, as the binding converts it (BoundContract.Call
\* must not take an empty answer, or an error, for a value).
ReadsAreGenuine == [][\A p \in Progs :
  LET op == Doing(p) IN
  (out'[p] # out[p] /\ out'[p].err = "none" /\ op \in Getters) =>
    \E c \in seen[p] \ {NoCode} : out'[p].val = Answer(op, c).val]_vars

\* A read of Items, Version, BalanceOf, Name, Symbol or Decimals whose requests
\* were answered fails only if the address had no code at some head meanwhile.
RefusedOnlyWithoutCode == [][\A p \in Progs :
  (out'[p] # out[p] /\ out'[p].err \notin {"none", "request", "unpack"}) => NoCode \in seen[p]]_vars

\* Whatever other programs of the key do and whatever is undone: a setItem that
\* was given a later nonce than the deployment of its contract has its effect.
WriteAfterDeploySticks ==
  \A i, j \in DOMAIN chain :
    (chain[i].tx.nonce = Home /\ chain[j].tx.nonce > Home /\ Deploys(chain[i].tx)
       /\ ~Deploys(chain[j].tx))
      => chain[j].world[Home] = [text |-> Text[chain[i].tx.by], item |-> chain[j].tx.by]

\* The address contract_deploy prints stays its own unless somebody pays more: as
\* long as the pool throws out no holder of its nonce, the first deployer's
\* transaction is mined, or one of a higher gas price, whichever rival a miner kept.
AddressLostOnlyToAHigherPrice ==
  \A p \in Progs :
    (kind[p] = "contract_deploy" /\ Done(p) /\ TxOf(p) \in first /\ nonce[p] < Len(chain)
       /\ \A e \in evicted : e.nonce # nonce[p]) =>
      LET t == chain[nonce[p] + 1].tx IN t = TxOf(p) \/ t.price > price[p]

\* A token write looks at the code before it takes its nonce: it takes the nonce of
\* the deployment it saw, or one before, only if the pool threw a transaction out,
\* whatever is mined or undone between the two requests (transact, base.go).
TokenWriteFollowsDeployment == \A p \in Progs :
  (kind[p] = "TokenWrite" /\ Done(p)) => nonce[p] > Home \/ \E e \in evicted : e.nonce <= Home

\* "Allowance is a free data retrieval call binding the contract method", "returns
\* (remaining uint256)" (erc20.go:169-172): its answer is one it can read.
AllowanceIsReadable == [][\A p \in Progs :
  (Doing(p) = "Allowance" /\ out'[p] # out[p]) =>
     out'[p].err # "unpack"]_vars

\* What the proofs need beside these: blocks hold the transactions in nonce order,
\* all that waits or is in blocks was taken by the pool, and below what was read,
\* signed or taken every nonce is taken still, unless its holder was thrown out.
InOrder(bs) == \A i \in DOMAIN bs : bs[i].tx.nonce = i - 1
Recorded == first \cup pool \cup InBlocks(base) \cup InBlocks(chain) \subseteq known
Kept(m) == Taken(m) \/ \E e \in evicted : e.nonce = m
NothingSkipped ==
  /\ \A p \in Progs : \A m \in 0..(nonce[p] - 1) : Kept(m)
  /\ \A t \in wire : \A m \in 0..(t.nonce - 1) : Kept(m)
  /\ \A t \in known : \A m \in 0..t.nonce : Kept(m)
  /\ pending => \A m \in 0..Home : Kept(m)
FirstOutbid == \A f \in first : (\A e \in evicted : e.nonce # f.nonce) =>
  \A t \in known : t.nonce = f.nonce => t = f \/ t.price > f.price
NodeKept == InOrder(base) /\ InOrder(chain) /\ Recorded /\ NothingSkipped /\ FirstOutbid
===============================================================================
