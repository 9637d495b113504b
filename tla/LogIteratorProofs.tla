-------------------------- MODULE LogIteratorProofs ---------------------------
(***************************************************************************)
(* Proofs about LogIterator, for every answer of the node, every capacity  *)
(* of the channel and any number of goroutines that call Close: the types, *)
(* the invariants of the runs, and that the iterator implements LogStream. *)
(*                                                                         *)
(* The inductive invariant says where every log is.  The logs of the       *)
(* answer are, in order, those handed out, the one that was rejected if    *)
(* any, those in the channel, and those not sent yet.                      *)
(***************************************************************************)
EXTENDS LogIterator, TLAPS

\* Every log sent was handed out, was the one rejected, or is in the channel.
Conserved ==
  /\ ~fail => sent = Len(got) + Len(logs)
  /\ fail => sent = Len(got) + 1 + Len(logs)

\* What was handed out is the beginning of the answer.
GotPrefix == \A k \in 1 .. Len(got) : got[k] = buff[k]

\* What is in the channel is the part of the answer that was sent last.
ChannelPart == \A k \in 1 .. Len(logs) : logs[k] = buff[(sent - Len(logs)) + k]

\* The producer stops early only for unsub, and marks the subscription first.
ProducerStops ==
  /\ producer # "sending" => unsubscribed /\ (sent = Len(buff) \/ unsub)
  /\ unsub => unsubscribed

\* The iterator completes when err is closed, and says so with an empty channel.
Completed ==
  /\ done => producer = "closed"
  /\ ret = "false" /\ ~fail => done /\ logs = <<>>

IInv ==
  /\ TypeOK /\ Conserved /\ GotPrefix /\ ChannelPart
  /\ ProducerStops /\ Completed /\ CloseReleasesProducer

\* The head of a channel and the rest of it, index by index.
LEMMA HeadAndTail ==
  ASSUME NEW q \in Seq(Logs), q # <<>>
  PROVE  /\ Head(q) \in Logs /\ Head(q) = q[1]
         /\ Tail(q) \in Seq(Logs) /\ Len(Tail(q)) = Len(q) - 1
         /\ Len(q) \in Nat /\ Len(q) >= 1
         /\ \A k \in 1 .. Len(Tail(q)) : Tail(q)[k] = q[k + 1]
  OBVIOUS

\* A log appended to a sequence of logs, index by index.
LEMMA Appended ==
  ASSUME NEW q \in Seq(Logs), NEW x \in Logs
  PROVE  /\ Append(q, x) \in Seq(Logs) /\ Len(Append(q, x)) = Len(q) + 1
         /\ Len(q) \in Nat
         /\ \A k \in 1 .. Len(q) : Append(q, x)[k] = q[k]
         /\ Append(q, x)[Len(q) + 1] = x
  OBVIOUS

\* The initial states satisfy the inductive invariant.
LEMMA InitIInv == Init => IInv
<1> SUFFICES ASSUME Init PROVE IInv
  OBVIOUS
<1>1. buff \in Seq(Logs) /\ Len(buff) \in Nat
  BY IteratorConstants DEF Init
<1>2. TypeOK
  <2>1. <<>> \in Seq(Logs) /\ Len(<<>>) = 0 /\ Capacity \in Nat
    BY IteratorConstants
  <2>2. sent \in 0 .. Len(buff) /\ Len(logs) <= Capacity
    BY <1>1, <2>1 DEF Init
  <2>3. closer \in [Closers -> {"idle", "waiting", "returned"}]
    BY DEF Init
  <2> QED
    BY <1>1, <2>1, <2>2, <2>3 DEF Init, TypeOK
<1>3. Conserved /\ GotPrefix /\ ChannelPart /\ ProducerStops /\ Completed
  BY <1>1 DEF Init, Conserved, GotPrefix, ChannelPart, ProducerStops, Completed
<1>4. CloseReleasesProducer
  BY DEF Init, CloseReleasesProducer
<1> QED
  BY <1>2, <1>3, <1>4 DEF IInv

\* A log the reader takes is the one that follows those it has: it either joins
\* them or fails the iteration, and the rest of the channel keeps its place.
LEMMA ReceiveKeeps ==
  ASSUME IInv, Receive, ~fail, UNCHANGED <<buff, sent>>
  PROVE  /\ logs' \in Seq(Logs) /\ Len(logs') <= Capacity
         /\ got' \in Seq(Logs) /\ fail' \in BOOLEAN
         /\ calling' = FALSE /\ ret' \in {"true", "false"}
         /\ Conserved' /\ GotPrefix' /\ ChannelPart'
         /\ logs # <<>>
         /\ \/ ~fail' /\ ret' = "true" /\ Len(got) < Len(buff)
               /\ got' = Append(got, buff[Len(got) + 1])
            \/ fail' /\ ret' = "false" /\ got' = got /\ Len(got) < Len(buff)
<1> USE DEF IInv
<1>1. /\ logs \in Seq(Logs) /\ got \in Seq(Logs) /\ buff \in Seq(Logs)
      /\ Len(logs) <= Capacity /\ sent \in 0 .. Len(buff) /\ Capacity \in Nat
      /\ Len(got) \in Nat /\ Len(buff) \in Nat
  BY IteratorConstants DEF TypeOK
<1>2. logs # <<>> /\ logs' = Tail(logs)
  BY DEF Receive
<1>3. /\ Head(logs) \in Logs /\ Head(logs) = logs[1]
      /\ logs' \in Seq(Logs) /\ Len(logs') = Len(logs) - 1
      /\ Len(logs) \in Nat /\ Len(logs) >= 1
      /\ \A k \in 1 .. Len(logs') : logs'[k] = logs[k + 1]
  BY <1>1, <1>2, HeadAndTail
<1>4. sent = Len(got) + Len(logs)
  BY DEF Conserved
<1>5. Head(logs) = buff[Len(got) + 1] /\ Len(got) < Len(buff)
  BY <1>1, <1>3, <1>4 DEF ChannelPart
<1>6. ChannelPart'
  <2> SUFFICES ASSUME NEW k \in 1 .. Len(logs')
               PROVE  logs'[k] = buff[(sent - Len(logs')) + k]
    BY DEF ChannelPart
  <2>1. k + 1 \in 1 .. Len(logs) /\ (sent - Len(logs)) + (k + 1) = (sent - Len(logs')) + k
    BY <1>1, <1>3
  <2>2. logs[k + 1] = buff[(sent - Len(logs)) + (k + 1)]
    BY <2>1 DEF ChannelPart
  <2> QED
    BY <1>3, <2>1, <2>2
<1>7. CASE Head(logs) \notin Broken /\ got' = Append(got, Head(logs)) /\ fail' = fail /\ Return("true")
  <2>1. /\ got' \in Seq(Logs) /\ Len(got') = Len(got) + 1
        /\ \A k \in 1 .. Len(got) : got'[k] = got[k]
        /\ got'[Len(got) + 1] = Head(logs)
    BY <1>1, <1>3, <1>7, Appended
  <2>2. GotPrefix'
    BY <1>1, <1>5, <2>1 DEF GotPrefix
  <2>3. Conserved'
    BY <1>1, <1>3, <1>4, <1>7, <2>1 DEF Conserved
  <2>4. got' = Append(got, buff[Len(got) + 1])
    BY <1>5, <1>7
  <2>5. ~fail' /\ fail' \in BOOLEAN /\ ret' = "true" /\ calling' = FALSE
    BY <1>7 DEF Return, TypeOK
  <2>6. Len(logs') <= Capacity
    BY <1>1, <1>3
  <2> QED
    BY <1>2, <1>3, <1>5, <1>6, <2>1, <2>2, <2>3, <2>4, <2>5, <2>6
<1>8. CASE Head(logs) \in Broken /\ got' = got /\ fail' = TRUE /\ Return("false")
  <2>1. Conserved'
    BY <1>1, <1>3, <1>4, <1>8 DEF Conserved
  <2>2. GotPrefix'
    BY <1>8 DEF GotPrefix
  <2> QED
    BY <1>1, <1>2, <1>3, <1>5, <1>6, <1>8, <2>1, <2>2 DEF Return
<1> QED
  BY <1>7, <1>8 DEF Receive

\* The reader's last step of Next: what Drain leaves, and what it says.
LEMMA DrainKeeps ==
  ASSUME IInv, Drain, ~fail, UNCHANGED <<buff, sent>>
  PROVE  /\ logs' \in Seq(Logs) /\ Len(logs') <= Capacity
         /\ got' \in Seq(Logs) /\ fail' \in BOOLEAN
         /\ calling' = FALSE /\ ret' \in {"true", "false"}
         /\ Conserved' /\ GotPrefix' /\ ChannelPart'
         /\ ret' = "false" /\ ~fail' => logs' = <<>>
<1>1. CASE Receive
  BY <1>1, ReceiveKeeps
<1>2. CASE logs = <<>> /\ Return("false") /\ UNCHANGED <<logs, got, fail>>
  <2>1. Conserved' /\ GotPrefix' /\ ChannelPart'
    BY <1>2 DEF IInv, Conserved, GotPrefix, ChannelPart
  <2> QED
    BY <1>2, <2>1 DEF IInv, TypeOK, Return
<1> QED
  BY <1>1, <1>2 DEF Drain

\* The producer's step keeps the channel in the order of the answer.
LEMMA SendKeeps ==
  ASSUME IInv, ProducerSend
  PROVE  IInv'
<1> USE DEF IInv
<1>1. /\ logs \in Seq(Logs) /\ buff \in Seq(Logs) /\ got \in Seq(Logs)
      /\ sent \in 0 .. Len(buff) /\ Len(buff) \in Nat /\ Len(got) \in Nat
      /\ Capacity \in Nat /\ sent < Len(buff) /\ Len(logs) < Capacity
  BY IteratorConstants DEF TypeOK, ProducerSend
<1>2. sent' = sent + 1 /\ buff' = buff /\ got' = got /\ fail' = fail /\ buff[sent + 1] \in Logs
  BY <1>1 DEF ProducerSend, readerVars
<1>3. /\ logs' \in Seq(Logs) /\ Len(logs') = Len(logs) + 1 /\ Len(logs) \in Nat
      /\ \A k \in 1 .. Len(logs) : logs'[k] = logs[k]
      /\ logs'[Len(logs) + 1] = buff[sent + 1]
  BY <1>1, <1>2, Appended DEF ProducerSend
<1>4. Conserved' /\ GotPrefix'
  <2>1. CASE fail
    BY <1>1, <1>2, <1>3, <2>1 DEF Conserved, GotPrefix
  <2>2. CASE ~fail
    BY <1>1, <1>2, <1>3, <2>2 DEF Conserved, GotPrefix
  <2> QED
    BY <2>1, <2>2
<1>5. ChannelPart'
  <2>1. \A k \in 1 .. Len(logs) : logs'[k] = buff[(sent' - Len(logs')) + k]
    BY <1>1, <1>2, <1>3 DEF ChannelPart
  <2>2. logs'[Len(logs) + 1] = buff[(sent' - Len(logs')) + (Len(logs) + 1)]
    BY <1>1, <1>2, <1>3
  <2> QED
    BY <1>2, <1>3, <2>1, <2>2 DEF ChannelPart
<1>6. /\ sent' \in 0 .. Len(buff') /\ Len(logs') <= Capacity
  BY <1>1, <1>2, <1>3
<1>7. TypeOK'
  BY <1>1, <1>2, <1>3, <1>6 DEF TypeOK, ProducerSend, subVars, readerVars
<1>8. ProducerStops' /\ CloseReleasesProducer' /\ Completed'
  BY DEF ProducerStops, CloseReleasesProducer, Completed, ProducerSend, subVars, readerVars
<1> QED
  BY <1>4, <1>5, <1>7, <1>8

\* The steps of the producer and of Close that leave every log where it is.
LEMMA LogsStay ==
  ASSUME IInv, UNCHANGED <<buff, sent, logs, got, fail>>
  PROVE  Conserved' /\ GotPrefix' /\ ChannelPart'
BY DEF IInv, Conserved, GotPrefix, ChannelPart

\* Every step keeps the inductive invariant.
LEMMA StepIInv == IInv /\ [Next]_vars => IInv'
<1> SUFFICES ASSUME IInv, [Next]_vars PROVE IInv'
  OBVIOUS
<1>1. CASE ProducerSend
  BY <1>1, SendKeeps
<1>2. CASE ProducerReturn
  <2>1. Conserved' /\ GotPrefix' /\ ChannelPart'
    BY <1>2, LogsStay DEF ProducerReturn, readerVars
  <2>2. TypeOK'
    BY <1>2 DEF IInv, TypeOK, ProducerReturn, readerVars
  <2>3. ProducerStops' /\ Completed' /\ CloseReleasesProducer'
    BY <1>2 DEF IInv, ProducerStops, Completed, CloseReleasesProducer, ProducerReturn, readerVars
  <2> QED
    BY <2>1, <2>2, <2>3 DEF IInv
<1>3. CASE ProducerClose
  <2>1. Conserved' /\ GotPrefix' /\ ChannelPart'
    BY <1>3, LogsStay DEF ProducerClose, readerVars
  <2>2. TypeOK'
    BY <1>3 DEF IInv, TypeOK, ProducerClose, subVars, readerVars
  <2>3. ProducerStops' /\ Completed' /\ CloseReleasesProducer'
    BY <1>3 DEF IInv, ProducerStops, Completed, CloseReleasesProducer, ProducerClose, subVars, readerVars
  <2> QED
    BY <2>1, <2>2, <2>3 DEF IInv
<1>4. ASSUME NEW c \in Closers, Unsubscribe(c) PROVE IInv'
  <2>1. Conserved' /\ GotPrefix' /\ ChannelPart'
    BY <1>4, LogsStay DEF Unsubscribe, readerVars
  <2>2. TypeOK'
    <3>1. closer' \in [Closers -> {"idle", "waiting", "returned"}]
      BY <1>4 DEF IInv, TypeOK, Unsubscribe
    <3>2. unsub' \in BOOLEAN /\ unsubscribed' \in BOOLEAN
      BY <1>4 DEF Unsubscribe
    <3> QED
      BY <1>4, <3>1, <3>2 DEF IInv, TypeOK, Unsubscribe, readerVars
  <2>3. ProducerStops' /\ Completed'
    BY <1>4 DEF IInv, ProducerStops, Completed, Unsubscribe, readerVars
  <2>4. CloseReleasesProducer'
    <3>1. CASE unsubscribed
      BY <1>4, <3>1 DEF IInv, TypeOK, CloseReleasesProducer, Unsubscribe
    <3>2. CASE ~unsubscribed
      BY <1>4, <3>2 DEF IInv, TypeOK, CloseReleasesProducer, Unsubscribe
    <3> QED
      BY <3>1, <3>2
  <2> QED
    BY <2>1, <2>2, <2>3, <2>4 DEF IInv
<1>5. ASSUME NEW c \in Closers, CloseReturns(c) PROVE IInv'
  <2>1. Conserved' /\ GotPrefix' /\ ChannelPart'
    BY <1>5, LogsStay DEF CloseReturns, readerVars
  <2>2. TypeOK'
    BY <1>5 DEF IInv, TypeOK, CloseReturns, readerVars
  <2>3. ProducerStops' /\ Completed' /\ CloseReleasesProducer'
    BY <1>5 DEF IInv, ProducerStops, Completed, CloseReleasesProducer, CloseReturns, readerVars
  <2> QED
    BY <2>1, <2>2, <2>3 DEF IInv
<1>6. CASE CallNext
  <2>1. Conserved' /\ GotPrefix' /\ ChannelPart'
    BY <1>6, LogsStay DEF CallNext
  <2>2. TypeOK'
    BY <1>6 DEF IInv, TypeOK, CallNext, subVars
  <2>3. ProducerStops' /\ Completed' /\ CloseReleasesProducer'
    BY <1>6 DEF IInv, ProducerStops, Completed, CloseReleasesProducer, CallNext, subVars
  <2> QED
    BY <2>1, <2>2, <2>3 DEF IInv
<1>7. CASE NextFailed
  <2>1. Conserved' /\ GotPrefix' /\ ChannelPart'
    BY <1>7, LogsStay DEF NextFailed
  <2>2. TypeOK'
    BY <1>7 DEF IInv, TypeOK, NextFailed, Return, subVars
  <2>3. ProducerStops' /\ Completed' /\ CloseReleasesProducer'
    BY <1>7 DEF IInv, ProducerStops, Completed, CloseReleasesProducer, NextFailed, Return, subVars
  <2> QED
    BY <2>1, <2>2, <2>3 DEF IInv
<1>8. CASE NextDone \/ NextErr
  <2>1. Drain /\ ~fail /\ UNCHANGED <<buff, sent, producer, subVars>> /\ done' \in BOOLEAN /\ done'
    BY <1>8 DEF NextDone, NextErr, IInv, TypeOK
  <2>2. producer = "closed"
    BY <1>8 DEF NextDone, NextErr, IInv, Completed
  <2>3. /\ logs' \in Seq(Logs) /\ Len(logs') <= Capacity
        /\ got' \in Seq(Logs) /\ fail' \in BOOLEAN
        /\ calling' = FALSE /\ ret' \in {"true", "false"}
        /\ Conserved' /\ GotPrefix' /\ ChannelPart'
        /\ ret' = "false" /\ ~fail' => logs' = <<>>
    BY <2>1, DrainKeeps
  <2>4. TypeOK'
    BY <2>1, <2>3 DEF IInv, TypeOK, subVars
  <2>5. ProducerStops' /\ Completed' /\ CloseReleasesProducer'
    BY <2>1, <2>2, <2>3 DEF IInv, ProducerStops, Completed, CloseReleasesProducer, subVars
  <2> QED
    BY <2>3, <2>4, <2>5 DEF IInv
<1>9. CASE NextLog
  <2>1. Receive /\ ~fail /\ UNCHANGED <<buff, sent, producer, subVars, done>>
    BY <1>9 DEF NextLog
  <2>2. /\ logs' \in Seq(Logs) /\ Len(logs') <= Capacity
        /\ got' \in Seq(Logs) /\ fail' \in BOOLEAN
        /\ calling' = FALSE /\ ret' \in {"true", "false"}
        /\ Conserved' /\ GotPrefix' /\ ChannelPart'
        /\ ret' = "false" => fail'
    BY <2>1, ReceiveKeeps
  <2>3. TypeOK'
    BY <2>1, <2>2 DEF IInv, TypeOK, subVars
  <2>4. ProducerStops' /\ Completed' /\ CloseReleasesProducer'
    BY <2>1, <2>2 DEF IInv, ProducerStops, Completed, CloseReleasesProducer, subVars
  <2> QED
    BY <2>2, <2>3, <2>4 DEF IInv
<1>10. CASE UNCHANGED vars
  BY <1>10 DEF vars, subVars, readerVars, IInv, TypeOK, Conserved, GotPrefix, ChannelPart, ProducerStops,
                Completed, CloseReleasesProducer
<1> QED
  BY <1>1, <1>2, <1>3, <1>4, <1>5, <1>6, <1>7, <1>8, <1>9, <1>10 DEF Next, Produce, Read

\* The inductive invariant holds in every reachable state.
THEOREM Inductive == Spec => []IInv
BY InitIInv, StepIInv, PTL DEF Spec

\* TypeOK of LogIterator: with it, the channel never exceeds its capacity.
THEOREM IteratorTypes == Spec => []TypeOK
<1>1. IInv => TypeOK
  BY DEF IInv
<1> QED
  BY <1>1, Inductive, PTL

\* The Close that closed unsub returns when the goroutine of FilterLogs is gone.
THEOREM CloseReleases == Spec => []CloseReleasesProducer
<1>1. IInv => CloseReleasesProducer
  BY DEF IInv
<1> QED
  BY <1>1, Inductive, PTL

\* A clean end without Close means the reader has the whole answer of the node.
THEOREM CompleteAnswer == Spec => []CompleteUnlessClosed
<1>1. IInv => CompleteUnlessClosed
  <2> SUFFICES ASSUME IInv, ret = "false", ~fail, ~unsub PROVE got = buff
    BY DEF CompleteUnlessClosed
  <2>1. got \in Seq(Logs) /\ buff \in Seq(Logs) /\ logs = <<>> /\ sent = Len(buff) /\ Len(got) \in Nat
    BY DEF IInv, TypeOK, Completed, ProducerStops
  <2>2. Len(got) = Len(buff)
    BY <2>1 DEF IInv, Conserved
  <2>3. \A k \in 1 .. Len(buff) : got[k] = buff[k]
    BY <2>2 DEF IInv, GotPrefix
  <2> QED
    BY <2>1, <2>2, <2>3
<1> QED
  BY <1>1, Inductive, PTL

\* Every step of the iterator is a step of the stream it promises, or none of it:
\* the reader's select over the channel and err neither loses nor reorders a log.
LEMMA StreamStep == IInv /\ [Next]_vars => [Stream!Next]_(Stream!vars)
<1> SUFFICES ASSUME IInv, [Next]_vars PROVE [Stream!Next]_(Stream!vars)
  OBVIOUS
<1> USE DEF Stream!vars, Status
<1>1. CASE Produce
  BY <1>1 DEF Produce, ProducerSend, ProducerReturn, ProducerClose, subVars, readerVars
<1>2. ASSUME NEW c \in Closers, Unsubscribe(c) PROVE [Stream!Next]_(Stream!vars)
  BY <1>2 DEF IInv, TypeOK, Unsubscribe, readerVars, Stream!Next, Stream!Close
<1>3. ASSUME NEW c \in Closers, CloseReturns(c) PROVE [Stream!Next]_(Stream!vars)
  BY <1>3 DEF CloseReturns, readerVars
<1>4. CASE CallNext \/ NextFailed
  BY <1>4 DEF CallNext, NextFailed, Return, subVars
<1>5. ASSUME Receive, ~fail, UNCHANGED <<buff, sent, unsub>> PROVE Stream!Next
  <2>1. logs # <<>> /\ Status = "open"
    BY <1>5, ReceiveKeeps DEF IInv, Completed
  <2>2. \/ ~fail' /\ ret' = "true" /\ Len(got) < Len(buff)
            /\ got' = Append(got, buff[Len(got) + 1])
        \/ fail' /\ ret' = "false" /\ got' = got /\ Len(got) < Len(buff)
    BY <1>5, ReceiveKeeps
  <2> QED
    BY <1>5, <2>1, <2>2 DEF Stream!Next, Stream!Deliver, Stream!Fail
<1>6. CASE NextLog
  BY <1>5, <1>6 DEF NextLog, subVars
<1>7. ASSUME ~fail, done', producer = "closed", logs = <<>>, Return("false"),
             UNCHANGED <<buff, sent, unsub, logs, got, fail>>
      PROVE  [Stream!Next]_(Stream!vars)
  <2>1. CASE ret = "false"
    BY <1>7, <2>1 DEF Return
  <2>2. CASE ret # "false"
    <3>1. sent = Len(got) /\ (sent = Len(buff) \/ unsub)
      BY <1>7 DEF IInv, TypeOK, Conserved, ProducerStops
    <3> QED
      BY <1>7, <2>2, <3>1 DEF Return, Stream!Next, Stream!End
  <2> QED
    BY <2>1, <2>2
<1>8. CASE NextDone \/ NextErr
  <2>1. ~fail /\ Drain /\ done' /\ producer = "closed" /\ UNCHANGED <<buff, sent, unsub>>
    BY <1>8 DEF NextDone, NextErr, IInv, Completed, subVars
  <2> QED
    BY <1>5, <1>7, <2>1 DEF Drain
<1>9. CASE UNCHANGED vars
  BY <1>9 DEF vars, subVars, readerVars
<1> QED
  BY <1>1, <1>2, <1>3, <1>4, <1>6, <1>8, <1>9 DEF Next, Read

\* The iterator of the bindings implements LogStream.
THEOREM Implementation == Spec => ImplementsStream
<1>1. Init => Stream!Init
  BY DEF Init, Stream!Init, Status
<1> QED
  BY <1>1, StreamStep, Inductive, PTL DEF Spec, ImplementsStream, Stream!Spec
===============================================================================
