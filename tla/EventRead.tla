------------------------------- MODULE EventRead -------------------------------
(***************************************************************************)
(* The programs that ask a node for the past and go through the answer:    *)
(* event_read, event_read_erc20, event_read_0xprotocol (FilterLogs over a  *)
(* range of blocks), event_read_by_transaction (the logs of a receipt) and *)
(* transactions (a block, and then the receipt of each transaction).  A    *)
(* log is its contract, the event its first topic names, how many topics   *)
(* it has and how many words of data; anyone may deploy a contract that    *)
(* emits the same event with other fields indexed.                         *)
(***************************************************************************)
EXTENDS Naturals, Sequences, SequencesExt

CONSTANTS
  Address,      \* the contract whose logs the programs ask for
  Ranges,       \* FromBlock and ToBlock of a query; the transaction's block twice
  Logs,         \* per program, the logs (for transactions: the transactions) of blocks
  None,         \* the event of a log without topics
  MaxBlocks, MaxLogs,  \* bounds: blocks of the chain, logs or transactions of a block
  MaxUndone     \* bound: blocks that are undone

Readers == {"event_read", "event_read_erc20", "event_read_0xprotocol", "event_read_by_transaction"}
Kinds == Readers \cup {"transactions"}

ASSUME ConstantsOK ==
  /\ Ranges \subseteq Nat \X Nat /\ DOMAIN Logs = Kinds
  /\ \A k \in Readers : \A l \in Logs[k] :
       l.topics \in 0..4 /\ l.words \in Nat /\ (l.topics = 0 <=> l.sig = None)
  /\ \A t \in Logs.transactions : t.creates \in BOOLEAN
  /\ {MaxBlocks, MaxLogs, MaxUndone} \subseteq Nat

VARIABLES
  kind,     \* the program that runs
  range,    \* the range of blocks it asks for
  chain,    \* the logs of each block
  pc,       \* "query", "read", and how the program ended
  answer,   \* the logs the node has answered with
  next,     \* the index of the log that is decoded next
  printed,  \* the logs, or transactions, whose fields were printed
  undone    \* blocks undone while the program ran

programVars == <<kind, range, pc, answer, next, printed>>
vars == <<programVars, chain, undone>>

-------------------------------------------------------------------------------
(* Decoding.                                                               *)

\* What the events of the book's contracts have: topics, and words of data.
Store == [ItemSet |-> {<<1, 2>>}]
ERC20 == [Transfer |-> {<<3, 1>>}, Approval |-> {<<3, 1>>}]
Exchange == [LogFill |-> {<<4, 8>>}, LogCancel |-> {<<4, 5>>}, LogError |-> {<<3, 0>>}]
\* Two kinds of token have an Approval: one of amounts, as in the book's erc20.sol,
\* and one whose third indexed field is the id that event_read_by_transaction
\* prints (1133 in its comment).
Approvals == [Approval |-> {<<3, 1>>, <<4, 0>>}]

Interface == [event_read |-> Store, event_read_erc20 |-> ERC20,
              event_read_0xprotocol |-> Exchange, event_read_by_transaction |-> Approvals]
Knows(k, l) == l.sig \in DOMAIN Interface[k]
Conforms(k, l) == Knows(k, l) /\ <<l.topics, l.words>> \in Interface[k][l.sig]

\* What happens at a log: its fields are printed, it is skipped, log.Fatal ends
\* the program, or an index out of range does.  Data is unpacked before the
\* topics are read, and more data than the event has does no harm.
Decoded(l, words, topics) == IF l.words < words THEN "fatal"
                             ELSE IF l.topics < topics THEN "panic" ELSE "print"

\* Every log is taken for an ItemSet; there is room for the topics of any log.
event_read(l) == IF l.words < 2 THEN "fatal" ELSE "print"

\* Mutant: the indexed addresses are looked for in the data.
event_read_erc20AllData(l) == IF l.topics = 0 THEN "panic"
                              ELSE IF l.sig \in DOMAIN ERC20 THEN Decoded(l, 3, 3) ELSE "skip"

event_read_erc20(l) == IF l.topics = 0 THEN "panic"
                       ELSE IF l.sig \in DOMAIN ERC20 THEN Decoded(l, 1, 3) ELSE "skip"

\* Mutant: LogCancel is not among the cases.
event_read_0xprotocolNoCancel(l) ==
  IF l.topics = 0 THEN "panic"
  ELSE IF l.sig = "LogFill" THEN Decoded(l, 8, 4)
  ELSE IF l.sig = "LogError" THEN (IF l.topics < 2 THEN "panic" ELSE "fatal")
  ELSE "skip"

\* ParseInt with base 16 refuses the "0x" that Hex puts before every topic.
event_read_0xprotocol(l) ==
  IF l.topics = 0 THEN "panic"
  ELSE IF l.sig = "LogFill" THEN Decoded(l, 8, 4)
  ELSE IF l.sig = "LogCancel" THEN Decoded(l, 5, 4)
  ELSE IF l.sig = "LogError" THEN (IF l.topics < 2 THEN "panic" ELSE "fatal")
  ELSE "skip"

\* The guard lets the Approval of amounts through, which has three topics, and the
\* fourth is read: the program panics at every ordinary ERC20 approval.
event_read_by_transaction(l) ==
  IF l.topics = 0 THEN "panic"
  ELSE IF l.sig = "Approval" /\ l.topics > 2 THEN Decoded(l, 0, 4) ELSE "skip"

Block(n) == IF n \in DOMAIN chain THEN chain[n] ELSE <<>>

\* A transaction that creates a contract has no To, and Hex of nil panics; a
\* receipt that is not found ends the program.  (A sender that cannot be derived,
\* of a typed transaction, is only left out of what is printed.)
transactions(t) == IF t.creates THEN "panic"
                   ELSE IF \E n \in DOMAIN chain : Contains(chain[n], t) THEN "print" ELSE "fatal"

Reads(k, l) == CASE k = "event_read" -> event_read(l)
                 [] k = "event_read_erc20" -> event_read_erc20(l)
                 [] k = "event_read_0xprotocol" -> event_read_0xprotocol(l)
                 [] k = "event_read_by_transaction" -> event_read_by_transaction(l)
                 [] k = "transactions" -> transactions(l)

-------------------------------------------------------------------------------
(* The node and the program.                                               *)

Init == /\ kind \in Kinds /\ range \in Ranges
        /\ chain = <<>> /\ undone = 0
        /\ pc = "query" /\ answer = <<>> /\ next = 1 /\ printed = <<>>

\* The chain grows and loses its last block while the program runs; the same
\* transaction is in one block only.
Mine == /\ pc \in {"query", "read"} /\ Len(chain) < MaxBlocks
        /\ \E b \in UNION {[1..n -> Logs[kind]] : n \in 0..MaxLogs} :
             /\ kind = "transactions" => IsInjective(FlattenSeq(Append(chain, b)))
             /\ chain' = Append(chain, b)
        /\ UNCHANGED <<programVars, undone>>
Undo == /\ pc \in {"query", "read"} /\ chain # <<>> /\ undone < MaxUndone
        /\ chain' = SubSeq(chain, 1, Len(chain) - 1) /\ undone' = undone + 1
        /\ UNCHANGED programVars

\* A query picks the logs of one contract from the blocks there are; the receipt
\* of a transaction, here the only one of its block, has all its logs.
InRange == FlattenSeq([i \in 1..(range[2] + 1 - range[1]) |-> Block(range[1] + i - 1)])
OfBlock == {"event_read_by_transaction", "transactions"}
Answer == IF kind \in OfBlock THEN Block(range[1])
          ELSE SelectSeq(InRange, LAMBDA l : l.addr = Address)

Query == /\ pc = "query"
         /\ IF kind \in OfBlock THEN range[1] \in DOMAIN chain ELSE range[1] <= range[2]
         /\ pc' = "read" /\ answer' = Answer
         /\ UNCHANGED <<kind, range, chain, next, printed, undone>>
\* A node may refuse a range that ends before it begins, or find nothing in it.
QueryNothing == /\ pc = "query" /\ range[1] > range[2] /\ kind \notin OfBlock /\ pc' = "read"
                /\ UNCHANGED <<kind, range, chain, answer, next, printed, undone>>
\* The query fails, or one of the requests transactions sends for each transaction.
QueryFails == /\ \/ pc = "query"
                 \/ kind = "transactions" /\ pc = "read" /\ next \in DOMAIN answer
              /\ pc' = "failed"
              /\ UNCHANGED <<kind, range, chain, answer, next, printed, undone>>

At == answer[next]

ReadLog ==
  /\ pc = "read" /\ next \in DOMAIN answer
  /\ LET does == Reads(kind, At) IN
     /\ pc' = IF does \in {"fatal", "panic"} THEN does ELSE pc
     /\ next' = IF does \in {"fatal", "panic"} THEN next ELSE next + 1
     /\ printed' = IF does = "print" THEN Append(printed, At) ELSE printed
  /\ UNCHANGED <<kind, range, chain, answer, undone>>

End == /\ pc = "read" /\ next > Len(answer) /\ pc' = "done"
       /\ UNCHANGED <<kind, range, chain, answer, next, printed, undone>>

Next == Mine \/ Undo \/ Query \/ QueryNothing \/ QueryFails \/ ReadLog \/ End

Spec == Init /\ [][Next]_vars

-------------------------------------------------------------------------------
(* Properties.                                                             *)

Stopped == pc \in {"fatal", "panic"}

\* What was printed is what a program is for of the logs it went through, each
\* once and in order: at[k] is where the k-th was in the answer.
Wanted(l) == kind = "transactions" \/ Knows(kind, l)
PrintedFrom(at) ==
  /\ \A k \in DOMAIN at : /\ printed[k] = answer[at[k]] /\ Wanted(printed[k])
                          /\ \A j \in 1..(k - 1) : at[j] < at[k]
  /\ \A i \in 1..(next - 1) : Wanted(answer[i]) => \E k \in DOMAIN at : at[k] = i

\* Whatever other events and look-alikes the answer has between them, the
\* programs that switch on the first topic print all events they know, in order,
\* up to the log that stops them; transactions prints every transaction.
Switching == {"event_read_erc20", "event_read_0xprotocol", "transactions"}
NoKnownEventSkipped ==
  (kind \in Switching /\ (pc = "done" \/ Stopped)) =>
    \E at \in [1..Len(printed) -> 1..(next - 1)] : PrintedFrom(at)

\* The events of the book's contracts that do stop their program: every LogError
\* event_read_0xprotocol meets, and every three-topic Approval that
\* event_read_by_transaction meets.
StopsAt(k, l) == \/ l.sig = "LogError"
                 \/ k = "event_read_by_transaction" /\ l.topics = 3

\* Apart from these two, no event of the form its contract declares stops a
\* program: it stops at an event of that name with other fields indexed, at a log
\* without topics, or, in event_read, at one with less data than an ItemSet.
\* transactions stops only at a contract's creation, or when the block was
\* undone after it was read and its transaction is in no other.
StopsOnlyAtForeignLogs == Stopped =>
  IF kind = "transactions"
  THEN (pc = "panic" /\ At.creates) \/ (undone > 0 /\ (\A n \in DOMAIN chain : ~Contains(chain[n], At)))
  ELSE /\ Conforms(kind, At) => StopsAt(kind, At)
       /\ At.topics = 0 \/ Knows(kind, At) \/ (kind = "event_read" /\ At.words < 2)
===============================================================================
