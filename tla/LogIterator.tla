----------------------------- MODULE LogIterator ------------------------------
(***************************************************************************)
(* The iterator that FilterItemSet of contracts/Store.go returns (those of *)
(* erc20.go and Exchange.go are the same code for other events), with the  *)
(* goroutine bind.FilterLogs starts behind it and the subscription of      *)
(* package event that joins the two.                                       *)
(*                                                                         *)
(* One reader calls Next.  The producer goroutine puts the node's answer   *)
(* on a channel of Capacity logs, and ends when all is sent or when it     *)
(* sees unsub closed; a select with both ready may take either.  Several   *)
(* goroutines may call Close, as the documentation of Unsubscribe allows.  *)
(***************************************************************************)
EXTENDS Naturals, Sequences, FiniteSets

CONSTANTS
  Logs,       \* the logs of the contract
  Answers,    \* the answers the node may give to the filter query
  Broken,     \* the logs UnpackLog rejects
  Capacity,   \* size of the log channel (128 in the code)
  Closers     \* the goroutines that call Close

ASSUME IteratorConstants ==
  /\ Answers \subseteq Seq(Logs)
  /\ Broken \subseteq Logs
  /\ Capacity \in Nat \ {0}

VARIABLES
  buff,          \* the node's answer, held by the producer
  sent,          \* how many of its logs the producer has put on the channel
  logs,          \* the channel
  producer,      \* "sending", "marked" (before close(s.err)) or "closed"
  unsub,         \* s.unsub is closed
  unsubscribed,  \* s.unsubscribed
  closer,        \* "idle", "waiting" (on s.err) or "returned", per goroutine
  calling,       \* the reader is inside Next
  done,          \* it.done
  fail,          \* it.fail # nil
  ret,           \* what the last call of Next returned, "none" before
  got            \* the events handed to the reader

subVars == <<unsub, unsubscribed, closer>>
readerVars == <<calling, done, fail, ret, got>>
vars == <<buff, sent, logs, producer, subVars, readerVars>>

Init ==
  /\ buff \in Answers
  /\ sent = 0 /\ logs = <<>> /\ producer = "sending"
  /\ unsub = FALSE /\ unsubscribed = FALSE
  /\ closer = [c \in Closers |-> "idle"]
  /\ calling = FALSE /\ done = FALSE /\ fail = FALSE /\ ret = "none" /\ got = <<>>

-------------------------------------------------------------------------------
(* The producer goroutine. *)

\* Mutant: sends without looking at the room in the channel.
ProducerSendUnbounded ==
  /\ producer = "sending" /\ sent < Len(buff)
  /\ logs' = Append(logs, buff[sent + 1])
  /\ sent' = sent + 1
  /\ UNCHANGED <<buff, producer, subVars, readerVars>>

\* case logs <- log
ProducerSend ==
  /\ producer = "sending" /\ sent < Len(buff) /\ Len(logs) < Capacity
  /\ logs' = Append(logs, buff[sent + 1])
  /\ sent' = sent + 1
  /\ UNCHANGED <<buff, producer, subVars, readerVars>>

\* Mutant: no case for quit while sending.
ProducerReturnIgnoresQuit ==
  /\ producer = "sending" /\ sent = Len(buff)
  /\ producer' = "marked"
  /\ unsubscribed' = TRUE
  /\ UNCHANGED <<buff, sent, logs, unsub, closer, readerVars>>

\* The range over buff is finished, or case <-quit; then, under the lock, the
\* subscription is marked.  The producer's error is nil: nothing is sent on err.
ProducerReturn ==
  /\ producer = "sending" /\ (sent = Len(buff) \/ unsub)
  /\ producer' = "marked"
  /\ unsubscribed' = TRUE
  /\ UNCHANGED <<buff, sent, logs, unsub, closer, readerVars>>

\* Mutant: err is closed only for somebody who unsubscribed.
ProducerCloseForCloser ==
  /\ producer = "marked" /\ unsub
  /\ producer' = "closed"
  /\ UNCHANGED <<buff, sent, logs, subVars, readerVars>>

\* The deferred close(s.err), after the lock was released.
ProducerClose ==
  /\ producer = "marked"
  /\ producer' = "closed"
  /\ UNCHANGED <<buff, sent, logs, subVars, readerVars>>

-------------------------------------------------------------------------------
(* Close. *)

\* Mutant: does not wait for the producer.
UnsubscribeNoWait(c) ==
  /\ closer[c] = "idle"
  /\ closer' = [closer EXCEPT ![c] = "returned"]
  /\ unsub' = (unsub \/ ~unsubscribed)
  /\ unsubscribed' = TRUE
  /\ UNCHANGED <<buff, sent, logs, producer, readerVars>>

\* The first call closes unsub and waits; any other returns at once.
Unsubscribe(c) ==
  /\ closer[c] = "idle"
  /\ closer' = [closer EXCEPT ![c] = IF unsubscribed THEN "returned" ELSE "waiting"]
  /\ unsub' = (unsub \/ ~unsubscribed)
  /\ unsubscribed' = TRUE
  /\ UNCHANGED <<buff, sent, logs, producer, readerVars>>

\* <-s.err
CloseReturns(c) ==
  /\ closer[c] = "waiting" /\ producer = "closed"
  /\ closer' = [closer EXCEPT ![c] = "returned"]
  /\ UNCHANGED <<buff, sent, logs, producer, unsub, unsubscribed, readerVars>>

-------------------------------------------------------------------------------
(* Next. *)

Return(r) == ret' = r /\ calling' = FALSE

\* A log was taken from the channel: UnpackLog succeeds, or its error ends the
\* iteration.
Receive ==
  /\ logs # <<>>
  /\ logs' = Tail(logs)
  /\ \/ Head(logs) \notin Broken /\ got' = Append(got, Head(logs)) /\ fail' = fail /\ Return("true")
     \/ Head(logs) \in Broken /\ got' = got /\ fail' = TRUE /\ Return("false")

\* Mutant: a completed iterator does not look at what is left in the channel.
DrainNothing == Return("false") /\ UNCHANGED <<logs, got, fail>>

\* The select of a completed iterator: a log that is left, or its default.
Drain ==
  \/ Receive
  \/ logs = <<>> /\ Return("false") /\ UNCHANGED <<logs, got, fail>>

CallNext ==
  /\ ~calling
  /\ calling' = TRUE
  /\ UNCHANGED <<buff, sent, logs, producer, subVars, done, fail, ret, got>>

\* Mutant: Next goes on after a failure.
NextFailedGoesOn ==
  /\ calling /\ fail
  /\ Drain
  /\ UNCHANGED <<buff, sent, producer, subVars, done>>

NextFailed ==
  /\ calling /\ fail
  /\ Return("false")
  /\ UNCHANGED <<buff, sent, logs, producer, subVars, done, fail, got>>

NextDone ==
  /\ calling /\ ~fail /\ done
  /\ Drain
  /\ UNCHANGED <<buff, sent, producer, subVars, done>>

\* case log := <-it.logs
NextLog ==
  /\ calling /\ ~fail /\ ~done
  /\ Receive
  /\ UNCHANGED <<buff, sent, producer, subVars, done>>

\* case err := <-it.sub.Err(): the channel is closed, err is nil, and Next calls
\* itself with done set.
NextErr ==
  /\ calling /\ ~fail /\ ~done /\ producer = "closed"
  /\ done' = TRUE
  /\ Drain
  /\ UNCHANGED <<buff, sent, producer, subVars>>

-------------------------------------------------------------------------------
Produce == ProducerSend \/ ProducerReturn \/ ProducerClose
Read == NextFailed \/ NextDone \/ NextLog \/ NextErr

Next ==
  \/ Produce
  \/ \E c \in Closers : Unsubscribe(c) \/ CloseReturns(c)
  \/ CallNext \/ Read

Spec == Init /\ [][Next]_vars

\* Goroutines that can run do run; the reader need not call Next, nor a
\* goroutine Close.
FairSpec ==
  /\ Spec
  /\ WF_vars(Produce) /\ WF_vars(Read)
  /\ \A c \in Closers : WF_vars(CloseReturns(c))

-------------------------------------------------------------------------------
(* Properties. *)

\* The channel never holds more than its capacity, and the state is well typed.
TypeOK ==
  /\ buff \in Seq(Logs) /\ sent \in 0 .. Len(buff)
  /\ logs \in Seq(Logs) /\ Len(logs) <= Capacity
  /\ producer \in {"sending", "marked", "closed"}
  /\ unsub \in BOOLEAN /\ unsubscribed \in BOOLEAN
  /\ closer \in [Closers -> {"idle", "waiting", "returned"}]
  /\ calling \in BOOLEAN /\ done \in BOOLEAN /\ fail \in BOOLEAN
  /\ ret \in {"none", "true", "false"} /\ got \in Seq(Logs)

Status == IF fail THEN "failed" ELSE IF ret = "false" THEN "ended" ELSE "open"

Stream == INSTANCE LogStream WITH out <- got, status <- Status, closing <- unsub

\* The iterator is a log stream: in particular the select over logs and err loses
\* no log, though err may be closed while logs are still in the channel.
ImplementsStream == Stream!Spec

\* Next says "no more" without an error only when the reader has every log of the
\* answer, or somebody closed the iterator.
CompleteUnlessClosed == ret = "false" /\ ~fail /\ ~unsub => got = buff

\* The Close that closed unsub returns only when the producer is gone.  (Another
\* Close that finds the subscription marked may return earlier.)
CloseReleasesProducer ==
  (\A c \in Closers : closer[c] # "waiting") /\ unsub => producer = "closed"

\* A call of Next returns: it never waits for a log that nobody will send.
NextReturns == calling ~> ~calling

\* Close does not hang behind a full channel, and afterwards the goroutine that
\* FilterLogs started is gone.
CloseEndsProducer == \A c \in Closers : closer[c] # "idle" ~> closer[c] = "returned" /\ producer = "closed"

\* "Close terminates the iteration process" (Store.go:325): once a Close has
\* returned, Next hands out no further event.
NothingAfterClose == [][(\E c \in Closers : closer[c] = "returned") => got' = got]_vars
===============================================================================
