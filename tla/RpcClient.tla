------------------------------ MODULE RpcClient -------------------------------
(***************************************************************************)
(* The programs event_subscribe and block_subscribe on the RPC client they *)
(* run on (package rpc, over a websocket).  Four goroutines share one      *)
(* connection: main, which receives notifications and, in block_subscribe, *)
(* fetches the block of each header over the same connection; the client's *)
(* dispatch loop; its read loop; and the forwarding loop of the            *)
(* subscription.  All their channels but two are unbuffered, so that each  *)
(* send is a step of two goroutines.                                       *)
(*                                                                         *)
(* The connection may break, losing what is on its way in either           *)
(* direction; a write may find out or not; the client then dials again on  *)
(* its next write.  Notifications are numbered from 1 by the node.         *)
(* Client.Close, Unsubscribe and request timeouts are left out: neither    *)
(* program uses them.                                                      *)
(***************************************************************************)
EXTENDS Naturals, Sequences, FiniteSets

CONSTANTS
  Programs,   \* the programs that may run: "event_subscribe", "block_subscribe"
  MaxBuffer,  \* maxClientSubscriptionBuffer (20000 in the code)
  Garbled,    \* notifications whose value does not unmarshal
  MaxNotes,   \* bound: notifications the node sends
  MaxBreaks   \* bound: connections that break

ASSUME RpcConstants ==
  /\ Programs \subseteq {"event_subscribe", "block_subscribe"}
  /\ MaxBuffer \in Nat \ {0} /\ MaxNotes \in Nat /\ MaxBreaks \in Nat
  /\ Garbled \subseteq 1 .. MaxNotes

\* main subscribes and fetches; the forwarding goroutine unsubscribes.
Ops == {"subscribe", "fetch", "unsubscribe"}
None == "none"

VARIABLES
  \* the connection and the node
  up,          \* the current connection works
  wire,        \* messages to the client: notifications and responses
  reqs,        \* requests the node has received and not answered
  feed,        \* the node's side of the subscription is active
  sent,        \* notifications sent so far
  breaks,      \* connections broken so far
  \* requests
  call,        \* where the goroutine of each request is, see TypeOK
  resp,        \* what was put into op.resp: "none", "value", "error", "closed"
  retry,       \* the parameter of Client.write, for the current sender
  writable,    \* c.writeConn # nil
  codecOpen,   \* the client has not closed the connection
  \* dispatch
  disp,        \* "idle" (in its select), "deliver", "close" or "swap"
  inhand,      \* the notification it delivers
  lastOp,      \* the request being sent; reqInitLock is nil while there is one
  reqSent,     \* the channel reqSent: "empty", "ok" or "err"
  respWait,    \* handler.respWait
  registered,  \* the subscription is in handler.clientSubs
  reading,     \* a read loop runs
  \* the forwarding goroutine (ClientSubscription.run) and main
  run,         \* "none", "forward", "unsubscribing", "report", "done"
  cause,       \* why the forwarding loop ended
  buffer,      \* its queue
  errCh,       \* the channel sub.err
  program,     \* which program main is
  main,        \* "subscribing", "select", "fetching" or "exited"
  got          \* the notifications main has received

connVars == <<up, wire, reqs, feed, sent, breaks>>
callVars == <<call, resp, retry, writable, codecOpen>>
dispVars == <<disp, inhand, lastOp, reqSent, respWait, registered, reading>>
subVars == <<run, cause, buffer, errCh>>
mainVars == <<program, main, got>>
vars == <<connVars, callVars, dispVars, subVars, mainVars>>

Note(n) == [kind |-> "note", n |-> n]
Response(op, r) == [kind |-> "response", op |-> op, result |-> r]
Messages == [kind : {"note"}, n : 1 .. MaxNotes]
            \cup [kind : {"response"}, op : Ops, result : {"value", "error"}]

\* main has dialled and enters SubscribeFilterLogs or SubscribeNewHead.
Init ==
  /\ up = TRUE /\ wire = <<>> /\ reqs = {} /\ feed = FALSE /\ sent = 0 /\ breaks = 0
  /\ call = [op \in Ops |-> IF op = "subscribe" THEN "init" ELSE "idle"]
  /\ resp = [op \in Ops |-> "none"] /\ retry = FALSE /\ writable = TRUE /\ codecOpen = TRUE
  /\ disp = "idle" /\ inhand = 0 /\ lastOp = None /\ reqSent = "empty"
  /\ respWait = {} /\ registered = FALSE /\ reading = TRUE
  /\ run = "none" /\ cause = "none" /\ buffer = <<>> /\ errCh = "none"
  /\ program \in Programs /\ main = "subscribing" /\ got = <<>>

-------------------------------------------------------------------------------
(* The node and the connection. *)

Notify ==
  /\ up /\ feed /\ sent < MaxNotes
  /\ sent' = sent + 1
  /\ wire' = Append(wire, Note(sent + 1))
  /\ UNCHANGED <<up, reqs, feed, breaks, callVars, dispVars, subVars, mainVars>>

\* The node answers the requests it holds in any order, with a result or an
\* error; notifications follow the answer to the subscribe request.
Answer(op, r) ==
  /\ up /\ op \in reqs
  /\ reqs' = reqs \ {op}
  /\ wire' = Append(wire, Response(op, r))
  /\ feed' = IF op = "fetch" \/ r = "error" THEN feed ELSE op = "subscribe"
  /\ UNCHANGED <<up, sent, breaks, callVars, dispVars, subVars, mainVars>>

\* Of what the node has sent some may still be read.
Break ==
  /\ up /\ breaks < MaxBreaks
  /\ up' = FALSE /\ breaks' = breaks + 1 /\ reqs' = {} /\ feed' = FALSE
  /\ \E k \in 0 .. Len(wire) : wire' = SubSeq(wire, 1, k)
  /\ UNCHANGED <<sent, callVars, dispVars, subVars, mainVars>>

-------------------------------------------------------------------------------
(* The goroutine that sends a request: Client.send, write and reconnect. *)

\* Mutant: dispatch listens for requests while one is being sent.
ReqInitUnlocked(op) ==
  /\ disp = "idle" /\ call[op] = "init"
  /\ lastOp' = op
  /\ respWait' = respWait \cup {op}
  /\ call' = [call EXCEPT ![op] = "write"]
  /\ retry' = FALSE
  /\ UNCHANGED <<connVars, resp, writable, codecOpen, disp, inhand, reqSent, registered, reading,
                 subVars, mainVars>>

\* c.reqInit <- op: dispatch takes the lock and registers the request.
ReqInit(op) ==
  /\ disp = "idle" /\ lastOp = None /\ call[op] = "init"
  /\ lastOp' = op
  /\ respWait' = respWait \cup {op}
  /\ call' = [call EXCEPT ![op] = "write"]
  /\ retry' = FALSE
  /\ UNCHANGED <<connVars, resp, writable, codecOpen, disp, inhand, reqSent, registered, reading,
                 subVars, mainVars>>

\* c.reqSent <- err, which has room for one; with an error the call is over.
Sent(op, err) ==
  /\ reqSent' = err
  /\ call' = [call EXCEPT ![op] = IF err = "ok" THEN "wait" ELSE "failed"]

\* writeJSON succeeds: the request reaches the node, or the connection has
\* broken and nobody has noticed.
Write(op) ==
  /\ call[op] = "write" /\ writable /\ codecOpen
  /\ reqs' = IF up THEN reqs \cup {op} ELSE reqs
  /\ Sent(op, "ok")
  /\ UNCHANGED <<up, wire, feed, sent, breaks, resp, retry, writable, codecOpen,
                 disp, inhand, lastOp, respWait, registered, reading, subVars, mainVars>>

\* writeJSON fails: once more, on a new connection, or give up.
WriteFails(op) ==
  /\ call[op] = "write" /\ writable /\ (~up \/ ~codecOpen)
  /\ writable' = FALSE /\ retry' = TRUE
  /\ IF retry THEN Sent(op, "err") ELSE UNCHANGED <<call, reqSent>>
  /\ UNCHANGED <<connVars, resp, codecOpen, disp, inhand, lastOp, respWait, registered, reading,
                 subVars, mainVars>>

\* reconnect: the dial fails, or dispatch is offered a new connection.
DialFails(op) ==
  /\ call[op] = "write" /\ ~writable
  /\ Sent(op, "err")
  /\ UNCHANGED <<connVars, resp, retry, writable, codecOpen, disp, inhand, lastOp, respWait,
                 registered, reading, subVars, mainVars>>

Dial(op) ==
  /\ call[op] = "write" /\ ~writable
  /\ call' = [call EXCEPT ![op] = "reconnected"]
  /\ UNCHANGED <<connVars, resp, retry, writable, codecOpen, dispVars, subVars, mainVars>>

-------------------------------------------------------------------------------
(* The dispatch loop. *)

\* case err := <-c.reqSent: the lock is free again.
ReqSent ==
  /\ disp = "idle" /\ reqSent # "empty"
  /\ respWait' = IF reqSent = "err" THEN respWait \ {lastOp} ELSE respWait
  /\ lastOp' = None /\ reqSent' = "empty"
  /\ UNCHANGED <<connVars, callVars, disp, inhand, registered, reading, subVars, mainVars>>

\* case op := <-c.readOp, with a response: handleResponse.  The answer to the
\* subscribe request starts the forwarding goroutine.
ReadResponse ==
  /\ disp = "idle" /\ reading /\ wire # <<>> /\ Head(wire).kind = "response"
  /\ wire' = Tail(wire)
  /\ LET op == Head(wire).op  r == Head(wire).result
         starts == op = "subscribe" /\ r = "value" /\ op \in respWait
     IN  /\ respWait' = respWait \ {op}
         /\ resp' = IF op \in respWait THEN [resp EXCEPT ![op] = r] ELSE resp
         /\ run' = IF starts THEN "forward" ELSE run
         /\ registered' = (registered \/ starts)
  /\ UNCHANGED <<up, reqs, feed, sent, breaks, call, retry, writable, codecOpen, disp, inhand, lastOp,
                 reqSent, reading, cause, buffer, errCh, mainVars>>

\* ... with a notification: handleSubscriptionResult, which enters sub.deliver.
ReadNote ==
  /\ disp = "idle" /\ reading /\ wire # <<>> /\ Head(wire).kind = "note"
  /\ wire' = Tail(wire)
  /\ IF registered THEN disp' = "deliver" /\ inhand' = Head(wire).n ELSE UNCHANGED <<disp, inhand>>
  /\ UNCHANGED <<up, reqs, feed, sent, breaks, callVars, lastOp, reqSent, respWait, registered, reading,
                 subVars, mainVars>>

\* cancelAllRequests: every pending request but the one being sent is told; the
\* loop then closes the subscription, if there is one.
CancelAll(next) ==
  /\ resp' = [op \in Ops |-> IF op \in respWait /\ op # lastOp THEN "closed" ELSE resp[op]]
  /\ respWait' = {}
  /\ registered' = FALSE
  /\ disp' = next

\* case err := <-c.readErr: the read loop has ended.
ReadErr ==
  /\ disp = "idle" /\ reading /\ ~up /\ wire = <<>>
  /\ reading' = FALSE
  /\ CancelAll(IF registered THEN "close" ELSE "idle")
  /\ codecOpen' = (codecOpen /\ registered)
  /\ UNCHANGED <<connVars, call, retry, writable, inhand, lastOp, reqSent, subVars, mainVars>>

\* case newcodec := <-c.reconnected: install it and register the request in
\* flight again; a connection that is still read is closed and drained first.
Install ==
  /\ up' = TRUE /\ wire' = <<>> /\ reqs' = {} /\ feed' = FALSE
  /\ reading' = TRUE /\ codecOpen' = TRUE /\ writable' = TRUE
  /\ respWait' = {lastOp}
  /\ call' = [call EXCEPT ![lastOp] = "write"]
  /\ disp' = "idle"

Reconnected ==
  /\ disp = "idle" /\ lastOp # None /\ call[lastOp] = "reconnected"
  /\ \/ ~reading /\ Install /\ UNCHANGED <<resp, registered>>
     \/ reading /\ CancelAll("swap")
        /\ UNCHANGED <<up, wire, reqs, feed, reading, codecOpen, writable, call>>
  /\ UNCHANGED <<sent, breaks, retry, inhand, lastOp, reqSent, subVars, mainVars>>

-------------------------------------------------------------------------------
(* The forwarding goroutine, where it meets dispatch or main. *)

\* The loop ends with an unsubscribe request to the node, sent by this goroutine.
StopForwarding(why) ==
  /\ run' = "unsubscribing" /\ cause' = why
  /\ call' = [call EXCEPT !["unsubscribe"] = "init"]
  /\ buffer' = buffer

\* Mutant: the queue takes one more than MaxBuffer.
DeliverOneMore ==
  /\ disp = "deliver"
  /\ disp' = "idle" /\ inhand' = 0
  /\ \/ /\ run = "forward"
        /\ \/ inhand \in Garbled /\ StopForwarding("garbled")
           \/ inhand \notin Garbled /\ Len(buffer) > MaxBuffer /\ StopForwarding("overflow")
           \/ /\ inhand \notin Garbled /\ Len(buffer) <= MaxBuffer
              /\ buffer' = Append(buffer, inhand)
              /\ UNCHANGED <<run, cause, call>>
     \/ run # "forward" /\ UNCHANGED <<run, cause, call, buffer>>
  /\ UNCHANGED <<connVars, resp, retry, writable, codecOpen, lastOp, reqSent, respWait, registered,
                 reading, errCh, mainVars>>

\* Mutant: the subscriber is dropped when the last place is taken.
DeliverOneLess ==
  /\ disp = "deliver"
  /\ disp' = "idle" /\ inhand' = 0
  /\ \/ /\ run = "forward"
        /\ \/ inhand \in Garbled /\ StopForwarding("garbled")
           \/ inhand \notin Garbled /\ Len(buffer) + 1 >= MaxBuffer /\ StopForwarding("overflow")
           \/ /\ inhand \notin Garbled /\ Len(buffer) + 1 < MaxBuffer
              /\ buffer' = Append(buffer, inhand)
              /\ UNCHANGED <<run, cause, call>>
     \/ run # "forward" /\ UNCHANGED <<run, cause, call, buffer>>
  /\ UNCHANGED <<connVars, resp, retry, writable, codecOpen, lastOp, reqSent, respWait, registered,
                 reading, errCh, mainVars>>

\* Mutant: a full queue drops the notification and goes on.
DeliverDropsWhenFull ==
  /\ disp = "deliver"
  /\ disp' = "idle" /\ inhand' = 0
  /\ \/ /\ run = "forward"
        /\ \/ inhand \in Garbled /\ StopForwarding("garbled")
           \/ inhand \notin Garbled /\ Len(buffer) = MaxBuffer /\ UNCHANGED <<run, cause, call, buffer>>
           \/ /\ inhand \notin Garbled /\ Len(buffer) < MaxBuffer
              /\ buffer' = Append(buffer, inhand)
              /\ UNCHANGED <<run, cause, call>>
     \/ run # "forward" /\ UNCHANGED <<run, cause, call, buffer>>
  /\ UNCHANGED <<connVars, resp, retry, writable, codecOpen, lastOp, reqSent, respWait, registered,
                 reading, errCh, mainVars>>

\* Mutant: the loop receives only while it has nothing to send.
DeliverWhenIdle ==
  /\ disp = "deliver"
  /\ disp' = "idle" /\ inhand' = 0
  /\ \/ /\ run = "forward" /\ buffer = <<>>
        /\ \/ inhand \in Garbled /\ StopForwarding("garbled")
           \/ inhand \notin Garbled /\ Len(buffer) = MaxBuffer /\ StopForwarding("overflow")
           \/ /\ inhand \notin Garbled /\ Len(buffer) < MaxBuffer
              /\ buffer' = Append(buffer, inhand)
              /\ UNCHANGED <<run, cause, call>>
     \/ run # "forward" /\ UNCHANGED <<run, cause, call, buffer>>
  /\ UNCHANGED <<connVars, resp, retry, writable, codecOpen, lastOp, reqSent, respWait, registered,
                 reading, errCh, mainVars>>

\* Mutant: deliver does not watch forwardDone.
DeliverBlocks ==
  /\ disp = "deliver"
  /\ disp' = "idle" /\ inhand' = 0
  /\ run = "forward"
  /\ \/ inhand \in Garbled /\ StopForwarding("garbled")
     \/ inhand \notin Garbled /\ Len(buffer) = MaxBuffer /\ StopForwarding("overflow")
     \/ /\ inhand \notin Garbled /\ Len(buffer) < MaxBuffer
        /\ buffer' = Append(buffer, inhand)
        /\ UNCHANGED <<run, cause, call>>
  /\ UNCHANGED <<connVars, resp, retry, writable, codecOpen, lastOp, reqSent, respWait, registered,
                 reading, errCh, mainVars>>

\* sub.in <- result, received by the loop; or forwardDone is closed and the
\* notification is dropped.
Deliver ==
  /\ disp = "deliver"
  /\ disp' = "idle" /\ inhand' = 0
  /\ \/ /\ run = "forward"
        /\ \/ inhand \in Garbled /\ StopForwarding("garbled")
           \/ inhand \notin Garbled /\ Len(buffer) = MaxBuffer /\ StopForwarding("overflow")
           \/ /\ inhand \notin Garbled /\ Len(buffer) < MaxBuffer
              /\ buffer' = Append(buffer, inhand)
              /\ UNCHANGED <<run, cause, call>>
     \/ run # "forward" /\ UNCHANGED <<run, cause, call, buffer>>
  /\ UNCHANGED <<connVars, resp, retry, writable, codecOpen, lastOp, reqSent, respWait, registered,
                 reading, errCh, mainVars>>

\* Mutant: the loop is told only if it happens to listen.
QuitForwardingMayMiss ==
  \/ run = "forward" /\ run' = "report" /\ cause' = "lost"
  \/ UNCHANGED <<run, cause>>

\* sub.quit <- err, received by the loop; or forwardDone is closed.
QuitForwarding ==
  IF run = "forward" THEN run' = "report" /\ cause' = "lost" ELSE UNCHANGED <<run, cause>>

\* The end of conn.close after a read error: the codec is closed too.
CloseConn ==
  /\ disp = "close"
  /\ QuitForwarding
  /\ disp' = "idle" /\ codecOpen' = FALSE
  /\ UNCHANGED <<connVars, call, resp, retry, writable, inhand, lastOp, reqSent, respWait, registered,
                 reading, buffer, errCh, mainVars>>

\* The end of conn.close for a new connection, and drainRead.
SwapConn ==
  /\ disp = "swap"
  /\ QuitForwarding
  /\ Install
  /\ UNCHANGED <<sent, breaks, resp, retry, inhand, lastOp, reqSent, registered, buffer, errCh, mainVars>>

\* A request is over: dispatch put something into op.resp, or it was not sent.
Over(op) == call[op] = "failed" \/ (call[op] = "wait" /\ resp[op] # "none")

\* requestUnsubscribe returns, whatever its result.
Unsubscribed ==
  /\ run = "unsubscribing" /\ Over("unsubscribe")
  /\ run' = "report"
  /\ call' = [call EXCEPT !["unsubscribe"] = "idle"]
  /\ UNCHANGED <<connVars, resp, retry, writable, codecOpen, dispVars, cause, buffer, errCh, mainVars>>

\* Mutant: a loop that has unsubscribed reports nothing.
ReportLossOnly ==
  /\ run = "report"
  /\ errCh' = IF cause = "lost" THEN cause ELSE "none"
  /\ run' = "done"
  /\ UNCHANGED <<connVars, callVars, dispVars, cause, buffer, mainVars>>

\* sub.err <- err
Report ==
  /\ run = "report"
  /\ errCh' = cause /\ run' = "done"
  /\ UNCHANGED <<connVars, callVars, dispVars, cause, buffer, mainVars>>

-------------------------------------------------------------------------------
(* main *)

\* Subscribe returns.
MainSubscribed ==
  /\ main = "subscribing" /\ Over("subscribe")
  /\ main' = IF call["subscribe"] = "wait" /\ resp["subscribe"] = "value" THEN "select" ELSE "exited"
  /\ call' = [call EXCEPT !["subscribe"] = "idle"]
  /\ UNCHANGED <<connVars, resp, retry, writable, codecOpen, dispVars, subVars, program, got>>

\* case header := <-headers (or vLog := <-logs), sent by the forwarding loop from
\* the front of its queue; block_subscribe then calls BlockByHash.
Receive ==
  /\ main = "select" /\ run = "forward" /\ buffer # <<>>
  /\ got' = Append(got, Head(buffer))
  /\ buffer' = Tail(buffer)
  /\ IF program = "block_subscribe"
       THEN /\ main' = "fetching"
            /\ call' = [call EXCEPT !["fetch"] = "init"]
            /\ resp' = [resp EXCEPT !["fetch"] = "none"]
       ELSE UNCHANGED <<main, call, resp>>
  /\ UNCHANGED <<connVars, retry, writable, codecOpen, dispVars, run, cause, errCh, program>>

\* case err := <-sub.Err(): log.Fatal
MainErr ==
  /\ main = "select" /\ errCh # "none"
  /\ main' = "exited" /\ errCh' = "none"
  /\ UNCHANGED <<connVars, callVars, dispVars, run, cause, buffer, program, got>>

\* BlockByHash returns the block, or an error: log.Fatal.
Fetched ==
  /\ main = "fetching" /\ Over("fetch")
  /\ main' = IF call["fetch"] = "wait" /\ resp["fetch"] = "value" THEN "select" ELSE "exited"
  /\ call' = [call EXCEPT !["fetch"] = "idle"]
  /\ UNCHANGED <<connVars, resp, retry, writable, codecOpen, dispVars, subVars, program, got>>

-------------------------------------------------------------------------------
Node == \E op \in Ops, r \in {"value", "error"} : Answer(op, r)
Sender(op) == Write(op) \/ WriteFails(op) \/ DialFails(op) \/ Dial(op)
Requests == ReqSent \/ \E op \in Ops : ReqInit(op)
Reads == ReadResponse \/ ReadNote \/ ReadErr
Dispatch == Requests \/ Reads \/ Reconnected \/ Deliver \/ CloseConn \/ SwapConn
Forward == Unsubscribed \/ Report
Main == MainSubscribed \/ Receive \/ MainErr \/ Fetched

\* log.Fatal ends every goroutine.
Next ==
  /\ main # "exited"
  /\ \/ Notify \/ Node \/ Break
     \/ \E op \in Ops : Sender(op)
     \/ Dispatch \/ Forward \/ Main

Spec == Init /\ [][Next]_vars

\* Every goroutine that can run does, the node answers, and a select that is
\* entered again and again with a case ready takes it some time.
FairSpec ==
  /\ Spec
  /\ WF_vars(main # "exited" /\ Node)
  /\ \A op \in Ops : WF_vars(main # "exited" /\ Sender(op))
  /\ SF_vars(main # "exited" /\ Requests) /\ SF_vars(main # "exited" /\ Reads)
  /\ SF_vars(main # "exited" /\ Reconnected)
  /\ WF_vars(main # "exited" /\ (Deliver \/ CloseConn \/ SwapConn))
  /\ WF_vars(main # "exited" /\ Forward) /\ WF_vars(main # "exited" /\ Main)

-------------------------------------------------------------------------------
(* Properties. *)

ConnOK ==
  /\ up \in BOOLEAN /\ wire \in Seq(Messages) /\ reqs \in SUBSET Ops /\ feed \in BOOLEAN
  /\ sent \in 0 .. MaxNotes /\ breaks \in 0 .. MaxBreaks

CallOK ==
  /\ call \in [Ops -> {"idle", "init", "write", "reconnected", "wait", "failed"}]
  /\ resp \in [Ops -> {"none", "value", "error", "closed"}]
  /\ retry \in BOOLEAN /\ writable \in BOOLEAN /\ codecOpen \in BOOLEAN

DispOK ==
  /\ disp \in {"idle", "deliver", "close", "swap"} /\ inhand \in 0 .. MaxNotes
  /\ lastOp \in Ops \cup {None} /\ reqSent \in {"empty", "ok", "err"}
  /\ respWait \in SUBSET Ops /\ registered \in BOOLEAN /\ reading \in BOOLEAN

SubOK ==
  /\ run \in {"none", "forward", "unsubscribing", "report", "done"}
  /\ cause \in {"none", "lost", "overflow", "garbled"}
  /\ buffer \in Seq(1 .. MaxNotes) /\ Len(buffer) <= MaxBuffer
  /\ errCh \in {"none", "lost", "overflow", "garbled"}

MainOK ==
  /\ program \in Programs /\ main \in {"subscribing", "select", "fetching", "exited"}
  /\ got \in Seq(1 .. MaxNotes)

\* The state is well typed; the queue of the subscription is bounded.
TypeOK == ConnOK /\ CallOK /\ DispOK /\ SubOK /\ MainOK

\* main receives the notifications in the order of the node, from the first on
\* and without a gap, however they wait on the wire, in dispatch and in the queue.
NotesInOrder == \A k \in 1 .. Len(got) : got[k] = k

\* A subscriber is dropped for being slow only when MaxBuffer notifications were
\* waiting for it and one more came.
DroppedOnlyWhenFull == cause = "overflow" => sent > Len(got) + MaxBuffer

\* The write lock: one goroutine at a time uses writeConn ("only be accessed
\* outside of dispatch, with the write lock held", client.go:85).
WriteLock == \A op \in Ops : call[op] \in {"write", "reconnected"} => lastOp = op /\ reqSent = "empty"

\* cancelAllRequests "unblocks and removes pending requests" (handler.go:173): a
\* goroutine that waits for a response is registered for it, or has it.
NobodyForgotten ==
  \A op \in Ops : main # "exited" /\ call[op] = "wait" => op \in respWait \/ resp[op] # "none"

\* dispatch is never stuck with a notification or a closing connection: the
\* forwarding loop takes it though main is busy fetching, or drops it when the
\* loop has ended and the unsubscribe request needs dispatch.
DispatchGoesOn == disp # "idle" ~> disp = "idle" \/ main = "exited"

\* While the connection holds, a block is fetched (or the program ends with an
\* error), though the notifications that come meanwhile use the same connection.
FetchReturns == main = "fetching" /\ breaks = 0 ~> main # "fetching" \/ breaks > 0

\* A subscription dropped for being slow, or whose value is garbled, is reported
\* on Err, and the program ends, while the connection holds.
DropReported == run = "unsubscribing" /\ breaks = 0 ~> main = "exited" \/ breaks > 0

\* A subscriber that waits for notifications on a broken connection is told, and
\* the program ends, unless it fetches a block of a header it still had or is
\* being dropped: it does not wait for notifications that cannot come.
LossReported ==
  main = "select" /\ ~up ~> main \in {"fetching", "exited"} \/ run = "unsubscribing"
===============================================================================
