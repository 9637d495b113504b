------------------------------- MODULE LogWatch -------------------------------
(***************************************************************************)
(* The watchers of the contract bindings: WatchItemSet of Store.go, and    *)
(* the same code for the events of erc20.go and Exchange.go.  Two          *)
(* subscriptions are stacked.  The RPC client's forwarding goroutine puts  *)
(* the logs of the node into a channel that bind.WatchLogs made; the       *)
(* watcher, a goroutine of event.NewSubscription, parses each log and      *)
(* sends the event to the user's sink.  The user reads the sink and Err,   *)
(* or does not; any number of goroutines may call Unsubscribe, which must  *)
(* take down both goroutines in whatever channel they wait.                *)
(*                                                                         *)
(* RpcClient models the dispatch loop that feeds the forwarding goroutine  *)
(* and answers its unsubscribe request; here these are steps of the        *)
(* environment.  Logs are numbered from 1 in the order of the node.        *)
(***************************************************************************)
EXTENDS Naturals, Sequences, FiniteSets

CONSTANTS
  Closers,    \* the goroutines that call Unsubscribe
  Broken,     \* the logs UnpackLog rejects
  Garbled,    \* the logs json.Unmarshal rejects
  Capacity,   \* size of the log channel (128 in the code)
  MaxBuffer,  \* maxClientSubscriptionBuffer (20000 in the code)
  MaxLogs     \* bound: logs the node sends

ASSUME WatchConstants ==
  /\ Capacity \in Nat \ {0} /\ MaxBuffer \in Nat \ {0} /\ MaxLogs \in Nat
  /\ Broken \subseteq 1 .. MaxLogs /\ Garbled \subseteq 1 .. MaxLogs

\* What a subscription may end with.  For ErrClientQuit, after Client.Close, run
\* sends a nil error: "quit" stands for it in the Err channel of the client's
\* subscription, and the watcher that receives it returns nil.
Reasons == {"lost", "quit", "overflow", "garbled", "unpack"}

VARIABLES
  \* ClientSubscription
  sent,          \* logs delivered by dispatch
  run,           \* "forward", "unsubscribing", "report" or "done" (unsubDone closed)
  cause,         \* the error forward returned, "none" for Unsubscribe
  buffer,        \* the forwarding loop's queue
  subErr,        \* what its Err channel holds
  logs,          \* the channel between the two goroutines
  \* the watcher
  watcher,       \* "select", "sink", "unsubscribe", "wait", "marked" or "closed"
  event,         \* the event it sends to the sink, 0 for none
  result,        \* the error it returns
  unsub,         \* s.unsub is closed
  unsubscribed,  \* s.unsubscribed
  err,           \* what s.err holds; it is closed when the watcher is "closed"
  closer,        \* "idle", "waiting" or "returned", per goroutine
  \* the user
  got,           \* events received from the sink
  seen           \* what Err gave: an error, "closed", or "none" so far

forwardVars == <<sent, run, cause, buffer, subErr>>
watchVars == <<watcher, event, result>>
subVars == <<unsub, unsubscribed, err, closer>>
userVars == <<got, seen>>
vars == <<forwardVars, logs, watchVars, subVars, userVars>>

\* WatchItemSet has returned a subscription.
Init ==
  /\ sent = 0 /\ run = "forward" /\ cause = "none" /\ buffer = <<>> /\ subErr = "none" /\ logs = <<>>
  /\ watcher = "select" /\ event = 0 /\ result = "none"
  /\ unsub = FALSE /\ unsubscribed = FALSE /\ err = "none"
  /\ closer = [c \in Closers |-> "idle"]
  /\ got = <<>> /\ seen = "none"

-------------------------------------------------------------------------------
(* The forwarding goroutine. *)

\* Mutant: a full queue drops the log and goes on.
ForwardLogDrops ==
  /\ run = "forward" /\ sent < MaxLogs
  /\ sent' = sent + 1
  /\ buffer' = IF Len(buffer) = MaxBuffer THEN buffer ELSE Append(buffer, sent + 1)
  /\ UNCHANGED <<run, cause, subErr, logs, watchVars, subVars, userVars>>

\* case <-sub.in: queue the log, or leave for one that does not unmarshal or fit.
ForwardLog ==
  /\ run = "forward" /\ sent < MaxLogs
  /\ sent' = sent + 1
  /\ LET Refuse(e) == cause' = e /\ run' = "unsubscribing" /\ buffer' = buffer
         fits == Len(buffer) < MaxBuffer
     IN  \/ sent + 1 \in Garbled /\ Refuse("garbled")
         \/ sent + 1 \notin Garbled /\ ~fits /\ Refuse("overflow")
         \/ /\ sent + 1 \notin Garbled /\ fits
            /\ buffer' = Append(buffer, sent + 1) /\ UNCHANGED <<run, cause>>
  /\ UNCHANGED <<subErr, logs, watchVars, subVars, userVars>>

\* Mutant: the log channel without its capacity.
ForwardSendUnbounded ==
  /\ run = "forward" /\ buffer # <<>>
  /\ logs' = Append(logs, Head(buffer))
  /\ buffer' = Tail(buffer)
  /\ UNCHANGED <<sent, run, cause, subErr, watchVars, subVars, userVars>>

\* case sub.channel <-
ForwardSend ==
  /\ run = "forward" /\ buffer # <<>> /\ Len(logs) < Capacity
  /\ logs' = Append(logs, Head(buffer))
  /\ buffer' = Tail(buffer)
  /\ UNCHANGED <<sent, run, cause, subErr, watchVars, subVars, userVars>>

\* case <-sub.quit, from dispatch: the connection is lost or the client closed.
ForwardLost ==
  /\ run = "forward"
  /\ run' = "report" /\ cause' \in {"lost", "quit"}
  /\ UNCHANGED <<sent, buffer, subErr, logs, watchVars, subVars, userVars>>

\* case <-sub.quit, from the watcher's deferred Unsubscribe, which then waits.
ForwardQuit ==
  /\ run = "forward" /\ watcher = "unsubscribe"
  /\ run' = "unsubscribing" /\ watcher' = "wait"
  /\ UNCHANGED <<sent, cause, buffer, subErr, logs, event, result, subVars, userVars>>

\* requestUnsubscribe returns.
Unsubscribed ==
  /\ run = "unsubscribing"
  /\ run' = IF cause = "none" THEN "done" ELSE "report"
  /\ UNCHANGED <<sent, cause, buffer, subErr, logs, watchVars, subVars, userVars>>

\* sub.err <- err, and the deferred close(sub.unsubDone)
Report ==
  /\ run = "report"
  /\ subErr' = cause /\ run' = "done"
  /\ UNCHANGED <<sent, cause, buffer, logs, watchVars, subVars, userVars>>

-------------------------------------------------------------------------------
(* The watcher. *)

Listening == watcher \in {"select", "sink"}

\* The producer function returns e; the deferred sub.Unsubscribe() comes next.
Leave(e) == watcher' = "unsubscribe" /\ result' = e

\* case log := <-logs
WatchLog ==
  /\ watcher = "select" /\ logs # <<>>
  /\ logs' = Tail(logs)
  /\ \/ Head(logs) \in Broken /\ Leave("unpack") /\ event' = event
     \/ Head(logs) \notin Broken /\ watcher' = "sink" /\ event' = Head(logs) /\ result' = result
  /\ UNCHANGED <<forwardVars, subVars, userVars>>

\* case sink <- event, received by a user who still listens
WatchSink ==
  /\ watcher = "sink" /\ seen = "none"
  /\ got' = Append(got, event)
  /\ watcher' = "select" /\ event' = 0
  /\ UNCHANGED <<forwardVars, logs, result, subVars, seen>>

\* Mutant: the inner select has no case for the subscription's error.
WatchErrOuterOnly ==
  /\ watcher = "select" /\ subErr # "none"
  /\ Leave(IF subErr = "quit" THEN "none" ELSE subErr) /\ subErr' = "none"
  /\ UNCHANGED <<sent, run, cause, buffer, logs, event, subVars, userVars>>

\* case err := <-sub.Err(), in either select
WatchErr ==
  /\ Listening /\ subErr # "none"
  /\ Leave(IF subErr = "quit" THEN "none" ELSE subErr) /\ subErr' = "none"
  /\ UNCHANGED <<sent, run, cause, buffer, logs, event, subVars, userVars>>

\* Mutant: the inner select has no case for quit.
WatchQuitOuterOnly ==
  /\ watcher = "select" /\ unsub
  /\ Leave("none")
  /\ UNCHANGED <<forwardVars, logs, event, subVars, userVars>>

\* case <-quit, in either select
WatchQuit ==
  /\ Listening /\ unsub
  /\ Leave("none")
  /\ UNCHANGED <<forwardVars, logs, event, subVars, userVars>>

\* Mutant: the watcher does not wait for unsubDone.
WatchReturnEarly ==
  /\ watcher \in {"unsubscribe", "wait"}
  /\ watcher' = "marked"
  /\ err' = IF unsubscribed THEN err ELSE result
  /\ unsubscribed' = TRUE
  /\ UNCHANGED <<forwardVars, logs, event, result, unsub, closer, userVars>>

\* Mutant: the error is never sent to s.err.
WatchReturnSilent ==
  /\ watcher \in {"unsubscribe", "wait"} /\ run = "done"
  /\ watcher' = "marked"
  /\ unsubscribed' = TRUE
  /\ UNCHANGED <<forwardVars, logs, event, result, unsub, err, closer, userVars>>

\* unsubDone is closed: Unsubscribe closes sub.err and returns, and the watcher
\* marks its own subscription under the lock, with its error if it is the first.
WatchReturn ==
  /\ watcher \in {"unsubscribe", "wait"} /\ run = "done"
  /\ watcher' = "marked"
  /\ err' = IF unsubscribed THEN err ELSE result
  /\ unsubscribed' = TRUE
  /\ UNCHANGED <<forwardVars, logs, event, result, unsub, closer, userVars>>

\* The deferred close(s.err)
WatchClose ==
  /\ watcher = "marked"
  /\ watcher' = "closed"
  /\ UNCHANGED <<forwardVars, logs, event, result, subVars, userVars>>

-------------------------------------------------------------------------------
(* The user. *)

\* The first call closes unsub and waits for s.err; any other returns at once.
Unsubscribe(c) ==
  /\ closer[c] = "idle"
  /\ closer' = [closer EXCEPT ![c] = IF unsubscribed THEN "returned" ELSE "waiting"]
  /\ unsub' = (unsub \/ ~unsubscribed)
  /\ unsubscribed' = TRUE
  /\ UNCHANGED <<forwardVars, logs, watchVars, err, userVars>>

\* <-s.err
UnsubscribeReturns(c) ==
  /\ closer[c] = "waiting" /\ watcher = "closed"
  /\ closer' = [closer EXCEPT ![c] = "returned"]
  /\ UNCHANGED <<forwardVars, logs, watchVars, unsub, unsubscribed, err, userVars>>

\* The user's case err := <-sub.Err(): the error, or the channel is closed.
UserErr ==
  /\ seen = "none"
  /\ \/ err # "none" /\ seen' = err
     \/ err = "none" /\ watcher = "closed" /\ seen' = "closed"
  /\ err' = "none"
  /\ UNCHANGED <<forwardVars, logs, watchVars, unsub, unsubscribed, closer, got>>

-------------------------------------------------------------------------------
Forward == Unsubscribed \/ Report
Watcher == WatchLog \/ WatchErr \/ WatchQuit \/ ForwardQuit \/ WatchReturn \/ WatchClose

Next ==
  \/ ForwardLog \/ ForwardSend \/ ForwardLost \/ Forward
  \/ Watcher \/ WatchSink
  \/ \E c \in Closers : Unsubscribe(c) \/ UnsubscribeReturns(c)
  \/ UserErr

Spec == Init /\ [][Next]_vars

\* The goroutines run, a select takes quit or Err at some time, and the unsubscribe
\* request ends, as it does unless the connection breaks at the moment RpcClient
\* shows with NobodyForgotten.  The user need not read anything.
FairSpec ==
  /\ Spec
  /\ WF_vars(Forward)
  /\ WF_vars(ForwardQuit \/ WatchReturn) /\ WF_vars(WatchClose)
  /\ WF_vars(WatchErr) /\ WF_vars(WatchQuit)
  /\ \A c \in Closers : WF_vars(UnsubscribeReturns(c))

-------------------------------------------------------------------------------
(* Properties. *)

\* The state is well typed, and no queue exceeds its bound.
TypeOK ==
  /\ sent \in 0 .. MaxLogs /\ run \in {"forward", "unsubscribing", "report", "done"}
  /\ cause \in Reasons \cup {"none"} /\ subErr \in Reasons \cup {"none"}
  /\ buffer \in Seq(1 .. MaxLogs) /\ Len(buffer) <= MaxBuffer
  /\ logs \in Seq(1 .. MaxLogs) /\ Len(logs) <= Capacity
  /\ watcher \in {"select", "sink", "unsubscribe", "wait", "marked", "closed"}
  /\ event \in 0 .. MaxLogs /\ result \in Reasons \cup {"none"}
  /\ unsub \in BOOLEAN /\ unsubscribed \in BOOLEAN /\ err \in Reasons \cup {"none"}
  /\ closer \in [Closers -> {"idle", "waiting", "returned"}]
  /\ got \in Seq(1 .. MaxLogs) /\ seen \in Reasons \cup {"none", "closed"}

\* The user receives the events in the order of the node and without a gap,
\* across both queues and both goroutines.
EventsInOrder == \A k \in 1 .. Len(got) : got[k] = k

\* When the Unsubscribe that closed unsub has returned, both goroutines are gone
\* and the node has been asked to stop: nothing more can come out of the sink.
UnsubscribeReleases ==
  unsub /\ (\A c \in Closers : closer[c] # "waiting") => watcher = "closed" /\ run = "done"

\* The error a user reads from Err is the one that ended the watcher: a log that
\* does not parse, or what took the forwarding goroutine down.  Err is closed
\* without one only when the client was closed, or an Unsubscribe came before the
\* watcher marked its end.  That one loses the reason, also when the producer has
\* already returned it; an Unsubscribe after the mark (it leaves unsub alone) takes
\* nothing from the user.
ReasonGiven ==
  /\ seen \in {"none", "closed", "unpack", cause}
  /\ seen = "closed" => unsub \/ cause = "quit"

\* Unsubscribe returns, though nobody reads the sink.
UnsubscribeEnds == \A c \in Closers : closer[c] = "waiting" ~> closer[c] = "returned"

\* A lost connection, a closed client, an overflow or garbage takes the watcher
\* down, though nobody reads the sink.
EndsOnError == run = "report" ~> watcher = "closed"
===============================================================================
