---------------------------- MODULE EventReadProofs ----------------------------
(***************************************************************************)
(* Theorems about EventRead, for any logs, ranges of blocks and answers,   *)
(* and for a chain that loses any number of its blocks.                    *)
(***************************************************************************)
EXTENDS EventRead, SequenceTheorems, TLAPS

\* The program still runs, and so does the chain.
Running == {"query", "read"}

\* The types the arguments below need; of the answer they only need what was
\* printed from it.
ReadTypes ==
  /\ kind \in Kinds /\ range \in Nat \X Nat
  /\ chain \in Seq(Seq(Logs[kind])) /\ undone \in Nat
  /\ next \in Nat \ {0} /\ printed \in Seq(Range(answer))
  /\ pc = "query" => next = 1 /\ printed = <<>>

\* A switch on the first topic has printed what it knows, so far.
Kept == kind \in Switching =>
          \E at \in [1..Len(printed) -> 1..(next - 1)] : PrintedFrom(at)

\* A block that was read is on the chain until a block is undone.
StillThere == (kind = "transactions" /\ undone = 0 /\ pc \notin {"query", "failed"}) =>
                \E n \in DOMAIN chain : answer = chain[n]

\* The log a program stopped at is the one that stops it.
StoppedBy == Stopped => next \in DOMAIN answer /\ pc = Reads(kind, At)

\* The inductive invariant.
RInv == ReadTypes /\ Kept /\ StillThere /\ StoppedBy

-------------------------------------------------------------------------------
(* The decoders.                                                           *)

\* What a program may do at a log.
Outcomes == {"print", "skip", "fatal", "panic"}

\* Each decoder does one of these.
LEMMA ReadsOutcome ==
  ASSUME NEW k \in Kinds, NEW l PROVE Reads(k, l) \in Outcomes
  BY DEF Kinds, Readers, Reads, Outcomes, Decoded, event_read, event_read_erc20,
         event_read_0xprotocol, event_read_by_transaction, transactions

\* A program that switches on the first topic prints what it knows and nothing
\* else, unless it stops.
LEMMA PrintsWanted ==
  ASSUME kind \in Switching, NEW l
  PROVE  /\ Reads(kind, l) = "print" => Wanted(l)
         /\ Reads(kind, l) = "skip" => ~Wanted(l)
  <1>1. CASE kind = "event_read_erc20"
    <2>1. Reads(kind, l) = event_read_erc20(l)
      BY <1>1 DEF Reads
    <2>2. Wanted(l) <=> l.sig \in DOMAIN ERC20
      BY <1>1 DEF Wanted, Knows, Interface
    <2> QED BY <2>1, <2>2 DEF event_read_erc20, Decoded
  <1>2. CASE kind = "event_read_0xprotocol"
    <2>1. Reads(kind, l) = event_read_0xprotocol(l)
      BY <1>2 DEF Reads
    <2>2. Wanted(l) <=> l.sig \in {"LogFill", "LogCancel", "LogError"}
      BY <1>2 DEF Wanted, Knows, Interface, Exchange
    <2> QED BY <2>1, <2>2 DEF event_read_0xprotocol, Decoded
  <1>3. CASE kind = "transactions"
    <2>1. Reads(kind, l) = transactions(l)
      BY <1>3 DEF Reads
    <2> QED BY <2>1, <1>3 DEF transactions, Wanted
  <1> QED BY <1>1, <1>2, <1>3 DEF Switching

\* What stops a program that reads logs is foreign to it, or one of the two events
\* of StopsAt.
LEMMA StopsAtForeign ==
  ASSUME NEW k \in Readers, NEW l, Reads(k, l) \in {"fatal", "panic"}
  PROVE  /\ Conforms(k, l) => StopsAt(k, l)
         /\ l.topics = 0 \/ Knows(k, l) \/ (k = "event_read" /\ l.words < 2)
  <1>1. CASE k = "event_read"
    <2>1. Reads(k, l) = event_read(l)
      BY <1>1 DEF Reads
    <2>2. Conforms(k, l) => l.words = 2
      BY <1>1 DEF Conforms, Knows, Interface, Store
    <2> QED BY <2>1, <2>2, <1>1 DEF event_read
  <1>2. CASE k = "event_read_erc20"
    <2>1. Reads(k, l) = event_read_erc20(l)
      BY <1>2 DEF Reads
    <2>2. Knows(k, l) <=> l.sig \in DOMAIN ERC20
      BY <1>2 DEF Knows, Interface
    <2>3. Conforms(k, l) => l.words = 1 /\ l.topics = 3
      BY <1>2 DEF Conforms, Knows, Interface, ERC20
    <2> QED BY <2>1, <2>2, <2>3 DEF event_read_erc20, Decoded
  <1>3. CASE k = "event_read_0xprotocol"
    <2>1. Reads(k, l) = event_read_0xprotocol(l)
      BY <1>3 DEF Reads
    <2>2. Knows(k, l) <=> l.sig \in {"LogFill", "LogCancel", "LogError"}
      BY <1>3 DEF Knows, Interface, Exchange
    <2>3. Conforms(k, l) =>
            \/ l.sig = "LogFill" /\ l.topics = 4 /\ l.words = 8
            \/ l.sig = "LogCancel" /\ l.topics = 4 /\ l.words = 5
            \/ l.sig = "LogError"
      BY <1>3 DEF Conforms, Knows, Interface, Exchange
    <2>4. Conforms(k, l) => StopsAt(k, l)
      BY <2>1, <2>3 DEF event_read_0xprotocol, Decoded, StopsAt
    <2>5. l.topics = 0 \/ l.sig \in {"LogFill", "LogCancel", "LogError"}
      BY <2>1 DEF event_read_0xprotocol, Decoded
    <2> QED BY <2>2, <2>4, <2>5
  <1>4. CASE k = "event_read_by_transaction"
    <2>1. Reads(k, l) = event_read_by_transaction(l)
      BY <1>4 DEF Reads
    <2>2. Knows(k, l) <=> l.sig = "Approval"
      BY <1>4 DEF Knows, Interface, Approvals
    <2>3. Conforms(k, l) => l.topics = 3 \/ (l.topics = 4 /\ l.words = 0)
      BY <1>4 DEF Conforms, Knows, Interface, Approvals
    <2>4. Conforms(k, l) => StopsAt(k, l)
      BY <2>1, <2>3, <1>4 DEF event_read_by_transaction, Decoded, StopsAt
    <2> QED BY <2>1, <2>2, <2>4 DEF event_read_by_transaction, Decoded
  <1> QED BY <1>1, <1>2, <1>3, <1>4 DEF Readers

-------------------------------------------------------------------------------
(* Each action keeps the invariant.                                        *)

\* A program begins with nothing read.
LEMMA ReadInit == Init => RInv
  <1> SUFFICES ASSUME Init PROVE RInv
    OBVIOUS
  <1>1. ReadTypes
    <2>1. range \in Nat \X Nat
      BY ConstantsOK DEF Init
    <2>2. printed \in Seq(Range(answer)) /\ chain \in Seq(Seq(Logs[kind]))
      BY DEF Init
    <2> QED BY <2>1, <2>2 DEF Init, ReadTypes
  <1>2. Kept
    <2>1. /\ Len(printed) = 0 /\ next = 1 /\ 1..Len(printed) = {} /\ 1..(next - 1) = {}
      BY DEF Init
    <2> DEFINE at == [k \in 1..Len(printed) |-> k]
    <2>2. at \in [1..Len(printed) -> 1..(next - 1)] /\ PrintedFrom(at)
      BY <2>1 DEF PrintedFrom
    <2> HIDE DEF at
    <2> QED BY <2>2 DEF Kept
  <1> QED BY <1>1, <1>2 DEF Init, RInv, StillThere, StoppedBy, Stopped

\* A block more: those that were there are still there.
LEMMA MineRead == RInv /\ Mine => RInv'
  <1> SUFFICES ASSUME RInv, Mine PROVE RInv'
    OBVIOUS
  <1>1. PICK b \in UNION {[1..n -> Logs[kind]] : n \in 0..MaxLogs} : chain' = Append(chain, b)
    BY DEF Mine
  <1>2. /\ UNCHANGED <<programVars, undone>> /\ pc \in Running
        /\ kind' = kind /\ pc' = pc /\ undone' = undone /\ answer' = answer
    BY DEF Mine, programVars, Running
  <1>3. b \in Seq(Logs[kind])
    BY ConstantsOK
  <1>4. chain \in Seq(Seq(Logs[kind]))
    BY DEF RInv, ReadTypes
  <1>5. /\ chain' \in Seq(Seq(Logs[kind]))
        /\ \A n \in DOMAIN chain : n \in DOMAIN chain' /\ chain'[n] = chain[n]
    BY <1>1, <1>3, <1>4
  <1>6. ReadTypes'
    BY <1>2, <1>5 DEF RInv, ReadTypes, programVars
  <1>7. Kept'
    BY <1>2 DEF RInv, Kept, PrintedFrom, Wanted, Knows, programVars
  <1>8. StillThere'
    BY <1>2, <1>5 DEF RInv, StillThere
  <1>9. StoppedBy'
    BY <1>2 DEF StoppedBy, Stopped, Running
  <1> QED BY <1>6, <1>7, <1>8, <1>9 DEF RInv

\* A block less: from now on a transaction may be gone.
LEMMA UndoRead == RInv /\ Undo => RInv'
  <1> SUFFICES ASSUME RInv, Undo PROVE RInv'
    OBVIOUS
  <1>1. /\ chain' = SubSeq(chain, 1, Len(chain) - 1) /\ chain # <<>> /\ pc \in Running
        /\ undone' = undone + 1 /\ UNCHANGED programVars
    BY DEF Undo, Running
  <1>2. chain \in Seq(Seq(Logs[kind])) /\ undone \in Nat
    BY DEF RInv, ReadTypes
  <1>3. chain' \in Seq(Seq(Logs[kind]))
    <2> DEFINE S == Seq(Logs[kind])
    <2> HIDE DEF S
    <2>1. chain \in Seq(S)
      BY <1>2 DEF S
    <2>2. SubSeq(chain, 1, Len(chain) - 1) \in Seq(S)
      BY <2>1, <1>1, EmptySeq
    <2> QED BY <2>2, <1>1 DEF S
  <1>4. undone' \in Nat /\ undone' # 0
    BY <1>1, <1>2
  <1>5. ReadTypes'
    BY <1>1, <1>3, <1>4 DEF RInv, ReadTypes, programVars
  <1>6. Kept'
    BY <1>1 DEF RInv, Kept, PrintedFrom, Wanted, Knows, programVars
  <1>7. StillThere'
    BY <1>4 DEF StillThere
  <1>8. StoppedBy'
    BY <1>1 DEF StoppedBy, Stopped, Running, programVars
  <1> QED BY <1>5, <1>6, <1>7, <1>8 DEF RInv

\* The answer comes: nothing was printed before.
LEMMA QueryRead == RInv /\ Query => RInv'
  <1> SUFFICES ASSUME RInv, Query PROVE RInv'
    OBVIOUS
  <1>1. /\ pc = "query" /\ pc' = "read" /\ answer' = Answer
        /\ kind \in OfBlock => range[1] \in DOMAIN chain
        /\ UNCHANGED <<kind, range, chain, next, printed, undone>>
    BY DEF Query
  <1>2. next = 1 /\ printed = <<>>
    BY <1>1 DEF RInv, ReadTypes
  <1>3. ReadTypes'
    BY <1>1, <1>2 DEF RInv, ReadTypes
  <1>4. Kept'
    <2>1. Len(printed') = 0 /\ next' = 1 /\ 1..Len(printed') = {} /\ 1..(next' - 1) = {}
      BY <1>1, <1>2
    <2> DEFINE at == [k \in 1..Len(printed') |-> k]
    <2>2. /\ at \in [1..Len(printed') -> 1..(next' - 1)]
          /\ (\A k \in DOMAIN at : FALSE) /\ (\A i \in 1..(next' - 1) : FALSE)
      BY <2>1
    <2> HIDE DEF at
    <2> QED BY <2>2 DEF Kept, PrintedFrom
  <1>5. StillThere'
    <2>1. ASSUME kind = "transactions" PROVE range[1] \in DOMAIN chain /\ answer' = chain[range[1]]
      BY <2>1, <1>1 DEF OfBlock, Answer, Block
    <2> QED BY <2>1, <1>1 DEF StillThere
  <1>6. StoppedBy'
    BY <1>1 DEF StoppedBy, Stopped
  <1> QED BY <1>3, <1>4, <1>5, <1>6 DEF RInv

\* Steps that leave what was read and printed, and the chain, as they are.
LEMMA OtherRead == RInv /\ (QueryNothing \/ QueryFails \/ End) => RInv'
  <1> SUFFICES ASSUME RInv, QueryNothing \/ QueryFails \/ End PROVE RInv'
    OBVIOUS
  <1>1. /\ pc' \in {"read", "failed", "done"}
        /\ UNCHANGED <<kind, range, chain, answer, next, printed, undone>>
        /\ pc \in Running
    BY DEF QueryNothing, QueryFails, End, Running
  <1>2. \/ kind # "transactions" \/ pc' = "failed" \/ pc = "read"
    BY DEF QueryNothing, QueryFails, End, OfBlock
  <1>3. ReadTypes'
    BY <1>1 DEF RInv, ReadTypes
  <1>4. Kept'
    BY <1>1 DEF RInv, Kept, PrintedFrom, Wanted, Knows
  <1>5. StillThere'
    BY <1>1, <1>2 DEF RInv, StillThere, Running
  <1>6. StoppedBy'
    BY <1>1 DEF StoppedBy, Stopped
  <1> QED BY <1>3, <1>4, <1>5, <1>6 DEF RInv

\* A log more: it is printed after the others, or it is nothing a program that
\* switches on the first topic is for, or the program stops at it.
LEMMA ReadLogRead == RInv /\ ReadLog => RInv'
  <1> SUFFICES ASSUME RInv, ReadLog PROVE RInv'
    OBVIOUS
  <1> DEFINE does == Reads(kind, At)
  <1>1. /\ pc = "read" /\ next \in DOMAIN answer
        /\ pc' = IF does \in {"fatal", "panic"} THEN does ELSE pc
        /\ next' = IF does \in {"fatal", "panic"} THEN next ELSE next + 1
        /\ printed' = IF does = "print" THEN Append(printed, At) ELSE printed
        /\ UNCHANGED <<kind, range, chain, answer, undone>>
    BY DEF ReadLog
  <1>2. /\ kind \in Kinds /\ next \in Nat \ {0} /\ printed \in Seq(Range(answer))
        /\ Len(printed) \in Nat
    BY LenProperties DEF RInv, ReadTypes
  <1>3. does \in Outcomes
    BY <1>2, ReadsOutcome
  <1>4. kind \in Switching => (does = "print" => Wanted(At)) /\ (does = "skip" => ~Wanted(At))
    BY PrintsWanted
  <1>5. Stopped' => Reads(kind, At)' = does
    <2> SUFFICES ASSUME Stopped' PROVE Reads(kind, At)' = does
      OBVIOUS
    <2>1. chain' = chain /\ kind' = kind /\ At' = At
      BY <1>1 DEF At, Stopped
    <2> QED BY <2>1 DEF Reads, transactions, event_read, event_read_erc20, event_read_0xprotocol,
                    event_read_by_transaction, Decoded
  <1> HIDE DEF does
  <1>6. At \in Range(answer)
    BY <1>1 DEF At, Range
  <1>7. ReadTypes'
    BY <1>1, <1>2, <1>6 DEF RInv, ReadTypes
  <1> DEFINE FromNow(at) ==
               /\ \A k \in DOMAIN at : /\ printed'[k] = answer[at[k]] /\ Wanted(printed'[k])
                                       /\ \A j \in 1..(k - 1) : at[j] < at[k]
               /\ \A i \in 1..(next' - 1) : Wanted(answer[i]) => \E k \in DOMAIN at : at[k] = i
  <1>8. ASSUME kind \in Switching
        PROVE  \E at \in [1..Len(printed') -> 1..(next' - 1)] : FromNow(at)
    <2>1. PICK at \in [1..Len(printed) -> 1..(next - 1)] : PrintedFrom(at)
      BY <1>8 DEF RInv, Kept
    <2>2. /\ \A k \in 1..Len(printed) :
               /\ printed[k] = answer[at[k]] /\ Wanted(printed[k])
               /\ at[k] \in Nat /\ at[k] < next
               /\ \A j \in 1..(k - 1) : at[j] < at[k]
          /\ \A i \in 1..(next - 1) : Wanted(answer[i]) => \E k \in 1..Len(printed) : at[k] = i
      BY <2>1, <1>2 DEF PrintedFrom
    <2>4. CASE does \in {"fatal", "panic"}
      BY <2>1, <2>4, <1>1 DEF PrintedFrom
    <2>5. CASE does = "skip"
      <3>1. next' = next + 1 /\ printed' = printed /\ answer' = answer
        BY <2>5, <1>1
      <3>2. ~Wanted(answer[next])
        BY <2>5, <1>4, <1>8 DEF At
      <3>3. at \in [1..Len(printed') -> 1..(next' - 1)]
        BY <2>1, <3>1, <1>2
      <3>4. FromNow(at)
        BY <2>2, <3>1, <3>2, <3>3, <1>2 DEF PrintedFrom
      <3> QED BY <3>3, <3>4
    <2>6. CASE does = "print"
      <3>1. next' = next + 1 /\ printed' = Append(printed, At) /\ answer' = answer
        BY <2>6, <1>1
      <3>2. Wanted(At) /\ At = answer[next]
        BY <2>6, <1>4, <1>8 DEF At
      <3> DEFINE more == [k \in 1..(Len(printed) + 1) |-> IF k <= Len(printed) THEN at[k] ELSE next]
                 n == Len(printed)
      <3>3. /\ Len(printed') = n + 1 /\ printed'[n + 1] = At
            /\ \A k \in 1..n : printed'[k] = printed[k]
        BY <3>1, <1>2, <1>6
      <3>4. /\ DOMAIN more = 1..(n + 1) /\ more[n + 1] = next
            /\ \A k \in 1..n : more[k] = at[k]
        BY <1>2
      <3> HIDE DEF more
      <3>5. \A k \in 1..(n + 1) : more[k] \in 1..next
        BY <3>4, <2>2, <2>1, <1>2
      <3>6. more \in [1..Len(printed') -> 1..(next' - 1)]
        <4>1. more = [k \in 1..(n + 1) |-> more[k]]
          BY DEF more
        <4>2. next' - 1 = next
          BY <3>1, <1>2
        <4> QED BY <4>1, <4>2, <3>3, <3>5
      <3>7. ASSUME NEW k \in 1..(n + 1)
            PROVE  /\ printed'[k] = answer[more[k]] /\ Wanted(printed'[k])
                   /\ \A j \in 1..(k - 1) : more[j] < more[k]
        <4>1. CASE k = n + 1
          <5>1. \A j \in 1..n : more[j] < next
            BY <3>4, <2>2
          <5> QED BY <4>1, <5>1, <3>2, <3>3, <3>4, <1>2
        <4>2. CASE k # n + 1
          <5>1. k \in 1..n /\ \A j \in 1..(k - 1) : j \in 1..n
            BY <4>2, <1>2
          <5> QED BY <5>1, <3>3, <3>4, <2>2
        <4> QED BY <4>1, <4>2
      <3>8. ASSUME NEW i \in 1..(next' - 1), Wanted(answer[i])
            PROVE  \E k \in 1..(n + 1) : more[k] = i
        <4>1. CASE i = next
          <5>1. n + 1 \in 1..(n + 1)
            BY <1>2
          <5> QED BY <4>1, <5>1, <3>4
        <4>2. CASE i # next
          <5>1. i \in 1..(next - 1) /\ Wanted(answer[i])
            BY <4>2, <3>1, <3>8, <1>2
          <5>2. PICK k \in 1..n : at[k] = i
            BY <5>1, <2>2
          <5>3. k \in 1..(n + 1) /\ more[k] = i
            BY <5>2, <3>4, <1>2
          <5> QED BY <5>3
        <4> QED BY <4>1, <4>2
      <3>9. FromNow(more)
        BY <3>4, <3>7, <3>8
      <3> QED BY <3>6, <3>9
    <2> QED BY <2>4, <2>5, <2>6, <1>3 DEF Outcomes
  <1>9. Kept'
    BY <1>1, <1>8 DEF Kept, PrintedFrom, Wanted, Knows
  <1>10. StillThere'
    BY <1>1 DEF RInv, StillThere
  <1>11. StoppedBy'
    BY <1>1, <1>5 DEF StoppedBy, Stopped
  <1> QED BY <1>7, <1>9, <1>10, <1>11 DEF RInv

-------------------------------------------------------------------------------
\* The invariant holds of every program, whatever becomes of the chain.
THEOREM Read == Spec => []RInv
  <1>1. RInv /\ [Next]_vars => RInv'
    <2> SUFFICES ASSUME RInv, [Next]_vars PROVE RInv'
      OBVIOUS
    <2>1. CASE Mine
      BY <2>1, MineRead
    <2>2. CASE Undo
      BY <2>2, UndoRead
    <2>3. CASE Query
      BY <2>3, QueryRead
    <2>4. CASE QueryNothing \/ QueryFails \/ End
      BY <2>4, OtherRead
    <2>5. CASE ReadLog
      BY <2>5, ReadLogRead
    <2>6. CASE UNCHANGED vars
      <3>1. UNCHANGED <<kind, range, pc, answer, next, printed, chain, undone>>
        BY <2>6 DEF vars, programVars
      <3>2. Reads(kind, At)' = Reads(kind, At)
        BY <3>1 DEF At, Reads, transactions, event_read, event_read_erc20, event_read_0xprotocol,
                    event_read_by_transaction, Decoded
      <3>3. ReadTypes' /\ StillThere'
        BY <3>1 DEF RInv, ReadTypes, StillThere
      <3>4. Kept'
        BY <3>1 DEF RInv, Kept, PrintedFrom, Wanted, Knows
      <3>5. StoppedBy'
        BY <3>1, <3>2 DEF RInv, StoppedBy, Stopped
      <3> QED BY <3>3, <3>4, <3>5 DEF RInv
    <2> QED BY <2>1, <2>2, <2>3, <2>4, <2>5, <2>6 DEF Next
  <1> QED BY ReadInit, <1>1, PTL DEF Spec

\* event_read_erc20, event_read_0xprotocol and transactions print all they are
\* for, once and in order, until something stops them.
THEOREM PrintsWhatItKnows == Spec => []NoKnownEventSkipped
  <1>1. RInv => NoKnownEventSkipped
    BY DEF RInv, Kept, NoKnownEventSkipped
  <1> QED BY <1>1, Read, PTL

\* Apart from the LogError of event_read_0xprotocol and the three-topic Approval of
\* event_read_by_transaction, a log of the form its contract declares never stops
\* its program, and neither does a transaction that creates no contract, while no
\* block is undone.
THEOREM OnlyForeignStops == Spec => []StopsOnlyAtForeignLogs
  <1>1. RInv => StopsOnlyAtForeignLogs
    <2> SUFFICES ASSUME RInv, Stopped PROVE StopsOnlyAtForeignLogs
      BY DEF StopsOnlyAtForeignLogs
    <2>1. /\ kind \in Kinds /\ next \in DOMAIN answer /\ pc = Reads(kind, At)
          /\ pc \in {"fatal", "panic"} /\ undone \in Nat
          /\ chain \in Seq(Seq(Logs[kind]))
      BY DEF RInv, ReadTypes, StoppedBy, Stopped
    <2>2. CASE kind = "transactions"
      <3>1. pc = transactions(At)
        BY <2>1, <2>2 DEF Reads
      <3>2. CASE At.creates
        BY <3>1, <3>2, <2>2 DEF transactions, StopsOnlyAtForeignLogs
      <3>3. CASE ~At.creates
        <4>1. \A n \in DOMAIN chain : ~Contains(chain[n], At)
          BY <3>1, <3>3, <2>1 DEF transactions
        <4>2. ASSUME undone = 0 PROVE FALSE
          <5>1. PICK n \in DOMAIN chain : answer = chain[n]
            BY <4>2, <2>1, <2>2 DEF RInv, StillThere
          <5>2. answer \in Seq(Logs[kind])
            BY <5>1, <2>1
          <5>3. next \in 1..Len(answer)
            BY <5>2, <2>1
          <5>4. Contains(answer, At)
            BY <5>3 DEF Contains, At
          <5> QED BY <5>1, <5>4, <4>1
        <4> QED BY <4>1, <4>2, <2>1, <2>2 DEF StopsOnlyAtForeignLogs
      <3> QED BY <3>2, <3>3
    <2>3. CASE kind # "transactions"
      <3>1. kind \in Readers
        BY <2>1, <2>3 DEF Kinds
      <3> QED BY <3>1, <2>1, <2>3, StopsAtForeign DEF StopsOnlyAtForeignLogs
    <2> QED BY <2>2, <2>3
  <1> QED BY <1>1, Read, PTL
===============================================================================
