--------------------------- MODULE RpcClientProofs ----------------------------
(***************************************************************************)
(* Proofs about RpcClient, for every number of notifications, queue size   *)
(* and number of broken connections: the types, among them the bound of    *)
(* the subscription's queue, and the write lock that dispatch keeps with   *)
(* reqInit and reqSent.                                                    *)
(***************************************************************************)
EXTENDS RpcClient, TLAPS

\* A result on reqSent belongs to a request that is being sent.
LockHeld == reqSent # "empty" => lastOp # None

\* While dispatch closes the old connection for a new one, the goroutine that
\* offered it waits.
SwapFor == disp = "swap" => lastOp \in Ops /\ call[lastOp] = "reconnected"

\* Only a main that fetches has a fetch under way.
FetchCall == main # "fetching" => call["fetch"] = "idle"

\* The notification dispatch delivers is one of the node's.
InHand == disp = "deliver" => inhand \in 1 .. MaxNotes

IInv == TypeOK /\ WriteLock /\ LockHeld /\ SwapFor /\ FetchCall /\ InHand

\* A sequence keeps its elements when one is added, taken or the rest is lost.
LEMMA SeqFacts ==
  ASSUME NEW S, NEW q \in Seq(S)
  PROVE  /\ \A x \in S : Append(q, x) \in Seq(S) /\ Len(Append(q, x)) = Len(q) + 1
         /\ q # <<>> => Head(q) \in S /\ Tail(q) \in Seq(S) /\ Len(Tail(q)) = Len(q) - 1
         /\ Len(q) \in Nat
         /\ \A k \in 0 .. Len(q) : SubSeq(q, 1, k) \in Seq(S)
  OBVIOUS

\* What the messages are made of.
LEMMA MessageFacts ==
  /\ \A n \in 1 .. MaxNotes : Note(n) \in Messages
  /\ \A op \in Ops, r \in {"value", "error"} : Response(op, r) \in Messages
  /\ \A x \in Messages : x.kind = "note" => x.n \in 1 .. MaxNotes
  /\ \A x \in Messages : x.kind = "response" => x.op \in Ops /\ x.result \in {"value", "error"}
<1>1. \A n \in 1 .. MaxNotes : Note(n) \in Messages
  BY DEF Note, Messages
<1>2. \A op \in Ops, r \in {"value", "error"} : Response(op, r) \in Messages
  BY DEF Response, Messages
<1>3. \A x \in Messages : x.kind = "note" => x.n \in 1 .. MaxNotes
  BY DEF Messages
<1>4. \A x \in Messages : x.kind = "response" => x.op \in Ops /\ x.result \in {"value", "error"}
  BY DEF Messages
<1> QED
  BY <1>1, <1>2, <1>3, <1>4

\* The initial state satisfies the inductive invariant.
LEMMA InitIInv == Init => IInv
<1> SUFFICES ASSUME Init PROVE IInv
  OBVIOUS
<1>1. ConnOK
  <2>1. <<>> \in Seq(Messages) /\ {} \in SUBSET Ops
    OBVIOUS
  <2>2. 0 \in 0 .. MaxNotes /\ 0 \in 0 .. MaxBreaks
    BY RpcConstants
  <2> QED
    BY <2>1, <2>2 DEF Init, ConnOK
<1>2. CallOK
  BY DEF Init, CallOK, Ops
<1>3. DispOK
  <2>1. {} \in SUBSET Ops
    OBVIOUS
  <2>2. 0 \in 0 .. MaxNotes
    BY RpcConstants
  <2> QED
    BY <2>1, <2>2 DEF Init, DispOK
<1>4. SubOK /\ MainOK
  <2>1. <<>> \in Seq(1 .. MaxNotes) /\ Len(<<>>) <= MaxBuffer
    BY RpcConstants
  <2> QED
    BY <2>1 DEF Init, SubOK, MainOK
<1>5. WriteLock /\ LockHeld /\ SwapFor /\ FetchCall /\ InHand
  BY DEF Init, WriteLock, LockHeld, SwapFor, FetchCall, InHand, Ops
<1> QED
  BY <1>1, <1>2, <1>3, <1>4, <1>5 DEF IInv, TypeOK

\* Invariance: a notification is sent.
LEMMA NotifyKeeps ==
  ASSUME IInv, Notify
  PROVE  IInv'
<1>1. ConnOK'
  <2>1. wire \in Seq(Messages) /\ sent + 1 \in 1 .. MaxNotes
    BY RpcConstants DEF IInv, TypeOK, ConnOK, Notify
  <2>2. wire' \in Seq(Messages)
    BY <2>1, SeqFacts, MessageFacts DEF Notify
  <2> QED
    BY <2>1, <2>2 DEF IInv, TypeOK, ConnOK, Notify
<1>2. /\ CallOK' /\ DispOK' /\ SubOK' /\ MainOK'
      /\ WriteLock' /\ LockHeld' /\ SwapFor' /\ FetchCall' /\ InHand'
  BY DEF IInv, TypeOK, CallOK, DispOK, SubOK, MainOK, WriteLock, LockHeld, SwapFor, FetchCall, InHand,
      Notify, callVars, dispVars, subVars, mainVars
<1> QED
  BY <1>1, <1>2 DEF IInv, TypeOK

\* Invariance: the node answers.
LEMMA AnswerKeeps ==
  ASSUME IInv, NEW op \in Ops, NEW r \in {"value", "error"}, Answer(op, r)
  PROVE  IInv'
<1>1. ConnOK'
  <2>1. wire \in Seq(Messages)
    BY DEF IInv, TypeOK, ConnOK
  <2>2. wire' \in Seq(Messages)
    BY <2>1, SeqFacts, MessageFacts DEF Answer
  <2>3. feed' \in BOOLEAN
    BY DEF IInv, TypeOK, ConnOK, Answer
  <2>4. reqs' \in SUBSET Ops
    BY DEF IInv, TypeOK, ConnOK, Answer
  <2> QED
    BY <2>2, <2>3, <2>4 DEF IInv, TypeOK, ConnOK, Answer
<1>2. /\ CallOK' /\ DispOK' /\ SubOK' /\ MainOK'
      /\ WriteLock' /\ LockHeld' /\ SwapFor' /\ FetchCall' /\ InHand'
  BY DEF IInv, TypeOK, CallOK, DispOK, SubOK, MainOK, WriteLock, LockHeld, SwapFor, FetchCall, InHand,
      Answer, callVars, dispVars, subVars, mainVars
<1> QED
  BY <1>1, <1>2 DEF IInv, TypeOK

\* Invariance: the connection breaks.
LEMMA BreakKeeps ==
  ASSUME IInv, Break
  PROVE  IInv'
<1>1. ConnOK'
  <2>1. wire \in Seq(Messages) /\ breaks + 1 \in 0 .. MaxBreaks
    BY RpcConstants DEF IInv, TypeOK, ConnOK, Break
  <2>2. wire' \in Seq(Messages)
    BY <2>1, SeqFacts DEF Break
  <2>3. reqs' \in SUBSET Ops
    BY DEF Break
  <2> QED
    BY <2>1, <2>2, <2>3 DEF IInv, TypeOK, ConnOK, Break
<1>2. /\ CallOK' /\ DispOK' /\ SubOK' /\ MainOK'
      /\ WriteLock' /\ LockHeld' /\ SwapFor' /\ FetchCall' /\ InHand'
  BY DEF IInv, TypeOK, CallOK, DispOK, SubOK, MainOK, WriteLock, LockHeld, SwapFor, FetchCall, InHand,
      Break, callVars, dispVars, subVars, mainVars
<1> QED
  BY <1>1, <1>2 DEF IInv, TypeOK

\* Invariance: dispatch takes the lock for a request.
LEMMA ReqInitKeeps ==
  ASSUME IInv, NEW op \in Ops, ReqInit(op)
  PROVE  IInv'
<1>1. CallOK'
  BY DEF IInv, TypeOK, CallOK, Ops, None, ReqInit
<1>2. DispOK'
  BY DEF IInv, TypeOK, DispOK, Ops, None, ReqInit
<1>3. WriteLock'
  <2>1. reqSent = "empty" /\ lastOp = None /\ lastOp' = op /\ reqSent' = reqSent
    BY DEF IInv, LockHeld, ReqInit
  <2>2. \A o \in Ops : call[o] \notin {"write", "reconnected"}
    BY <2>1 DEF IInv, WriteLock, Ops, None
  <2>3. \A o \in Ops : o # op => call'[o] = call[o]
    BY DEF IInv, TypeOK, CallOK, ReqInit
  <2> QED
    BY <2>1, <2>2, <2>3 DEF WriteLock
<1>4. LockHeld'
  BY DEF IInv, TypeOK, LockHeld, Ops, None, ReqInit
<1>5. SwapFor'
  BY DEF IInv, TypeOK, SwapFor, CallOK, DispOK, Ops, None, ReqInit
<1>6. FetchCall'
  BY DEF IInv, TypeOK, FetchCall, CallOK, DispOK, Ops, None, ReqInit, mainVars
<1>7. ConnOK' /\ SubOK' /\ MainOK' /\ InHand'
  BY DEF IInv, TypeOK, ConnOK, SubOK, MainOK, InHand, ReqInit, connVars, subVars, mainVars
<1> QED
  BY <1>1, <1>2, <1>3, <1>4, <1>5, <1>6, <1>7 DEF IInv, TypeOK

\* Invariance: a request is written.
LEMMA WriteKeeps ==
  ASSUME IInv, NEW op \in Ops, Write(op)
  PROVE  IInv'
<1>1. ConnOK'
  BY DEF IInv, TypeOK, ConnOK, Ops, None, Write, Sent
<1>2. CallOK'
  BY DEF IInv, TypeOK, CallOK, Ops, None, Write, Sent
<1>3. DispOK'
  BY DEF IInv, TypeOK, DispOK, Ops, None, Write, Sent
<1>4. WriteLock'
  BY DEF IInv, TypeOK, WriteLock, CallOK, DispOK, Ops, None, Write, Sent
<1>5. LockHeld'
  BY DEF IInv, TypeOK, LockHeld, Ops, None, Write, Sent, WriteLock
<1>6. SwapFor'
  BY DEF IInv, TypeOK, SwapFor, CallOK, DispOK, Ops, None, Write, Sent
<1>7. FetchCall'
  BY DEF IInv, TypeOK, FetchCall, CallOK, DispOK, Ops, None, Write, Sent, mainVars
<1>8. SubOK' /\ MainOK' /\ InHand'
  BY DEF IInv, TypeOK, SubOK, MainOK, InHand, Write, subVars, mainVars
<1> QED
  BY <1>1, <1>2, <1>3, <1>4, <1>5, <1>6, <1>7, <1>8 DEF IInv, TypeOK

\* Invariance: a write fails.
LEMMA WriteFailsKeeps ==
  ASSUME IInv, NEW op \in Ops, WriteFails(op)
  PROVE  IInv'
<1>1. CallOK'
  BY DEF IInv, TypeOK, CallOK, Ops, None, WriteFails, Sent
<1>2. DispOK'
  BY DEF IInv, TypeOK, DispOK, Ops, None, WriteFails, Sent
<1>3. WriteLock'
  BY DEF IInv, TypeOK, WriteLock, CallOK, DispOK, Ops, None, WriteFails, Sent
<1>4. LockHeld'
  BY DEF IInv, TypeOK, LockHeld, Ops, None, WriteFails, Sent, WriteLock
<1>5. SwapFor'
  BY DEF IInv, TypeOK, SwapFor, CallOK, DispOK, Ops, None, WriteFails, Sent
<1>6. FetchCall'
  BY DEF IInv, TypeOK, FetchCall, CallOK, DispOK, Ops, None, WriteFails, Sent, mainVars
<1>7. ConnOK' /\ SubOK' /\ MainOK' /\ InHand'
  BY DEF IInv, TypeOK, ConnOK, SubOK, MainOK, InHand, WriteFails, connVars, subVars, mainVars
<1> QED
  BY <1>1, <1>2, <1>3, <1>4, <1>5, <1>6, <1>7 DEF IInv, TypeOK

\* Invariance: the dial fails.
LEMMA DialFailsKeeps ==
  ASSUME IInv, NEW op \in Ops, DialFails(op)
  PROVE  IInv'
<1>1. CallOK'
  BY DEF IInv, TypeOK, CallOK, Ops, None, DialFails, Sent
<1>2. DispOK'
  BY DEF IInv, TypeOK, DispOK, Ops, None, DialFails, Sent
<1>3. WriteLock'
  BY DEF IInv, TypeOK, WriteLock, CallOK, DispOK, Ops, None, DialFails, Sent
<1>4. LockHeld'
  BY DEF IInv, TypeOK, LockHeld, Ops, None, DialFails, Sent, WriteLock
<1>5. SwapFor'
  BY DEF IInv, TypeOK, SwapFor, CallOK, DispOK, Ops, None, DialFails, Sent
<1>6. FetchCall'
  BY DEF IInv, TypeOK, FetchCall, CallOK, DispOK, Ops, None, DialFails, Sent, mainVars
<1>7. ConnOK' /\ SubOK' /\ MainOK' /\ InHand'
  BY DEF IInv, TypeOK, ConnOK, SubOK, MainOK, InHand, DialFails, connVars, subVars, mainVars
<1> QED
  BY <1>1, <1>2, <1>3, <1>4, <1>5, <1>6, <1>7 DEF IInv, TypeOK

\* Invariance: a new connection is offered to dispatch.
LEMMA DialKeeps ==
  ASSUME IInv, NEW op \in Ops, Dial(op)
  PROVE  IInv'
<1>1. CallOK'
  BY DEF IInv, TypeOK, CallOK, Ops, None, Dial
<1>2. WriteLock'
  BY DEF IInv, TypeOK, WriteLock, CallOK, DispOK, Ops, None, Dial, dispVars
<1>3. SwapFor'
  BY DEF IInv, TypeOK, SwapFor, CallOK, DispOK, Ops, None, Dial, dispVars
<1>4. FetchCall'
  BY DEF IInv, TypeOK, FetchCall, CallOK, DispOK, Ops, None, Dial, mainVars
<1>5. ConnOK' /\ DispOK' /\ SubOK' /\ MainOK' /\ LockHeld' /\ InHand'
  BY DEF IInv, TypeOK, ConnOK, DispOK, SubOK, MainOK, LockHeld, InHand, Dial, connVars, dispVars,
      subVars, mainVars
<1> QED
  BY <1>1, <1>2, <1>3, <1>4, <1>5 DEF IInv, TypeOK

\* Invariance: dispatch releases the lock.
LEMMA ReqSentKeeps ==
  ASSUME IInv, ReqSent
  PROVE  IInv'
<1>1. DispOK'
  BY DEF IInv, TypeOK, DispOK, Ops, None, ReqSent
<1>2. WriteLock'
  BY DEF IInv, TypeOK, WriteLock, CallOK, DispOK, Ops, None, ReqSent, callVars
<1>3. LockHeld'
  BY DEF IInv, TypeOK, LockHeld, Ops, None, ReqSent
<1>4. SwapFor'
  BY DEF IInv, TypeOK, SwapFor, CallOK, DispOK, Ops, None, ReqSent, callVars
<1>5. ConnOK' /\ CallOK' /\ SubOK' /\ MainOK' /\ FetchCall' /\ InHand'
  BY DEF IInv, TypeOK, ConnOK, CallOK, SubOK, MainOK, FetchCall, InHand, ReqSent, connVars, callVars,
      subVars, mainVars
<1> QED
  BY <1>1, <1>2, <1>3, <1>4, <1>5 DEF IInv, TypeOK

\* Invariance: dispatch reads a response.
LEMMA ReadResponseKeeps ==
  ASSUME IInv, ReadResponse
  PROVE  IInv'
<1>1. ConnOK'
  <2>1. wire' \in Seq(Messages)
    BY SeqFacts DEF IInv, TypeOK, ConnOK, ReadResponse
  <2> QED
    BY <2>1 DEF IInv, TypeOK, ConnOK, ReadResponse
<1>2. CallOK'
  <2>1. Head(wire) \in Messages /\ Head(wire).kind = "response"
    BY SeqFacts DEF IInv, TypeOK, ConnOK, ReadResponse
  <2>2. Head(wire).result \in {"value", "error"}
    BY <2>1, MessageFacts
  <2>3. resp' \in [Ops -> {"none", "value", "error", "closed"}]
    BY <2>2 DEF IInv, TypeOK, CallOK, ReadResponse
  <2> QED
    BY <2>3 DEF IInv, TypeOK, CallOK, ReadResponse
<1>3. DispOK'
  BY DEF IInv, TypeOK, DispOK, Ops, None, ReadResponse
<1>4. SubOK'
  BY DEF IInv, TypeOK, SubOK, ReadResponse
<1>5. MainOK' /\ WriteLock' /\ LockHeld' /\ SwapFor' /\ FetchCall' /\ InHand'
  BY DEF IInv, TypeOK, MainOK, WriteLock, LockHeld, SwapFor, FetchCall, InHand, ReadResponse, mainVars
<1> QED
  BY <1>1, <1>2, <1>3, <1>4, <1>5 DEF IInv, TypeOK

\* Invariance: dispatch reads a notification.
LEMMA ReadNoteKeeps ==
  ASSUME IInv, ReadNote
  PROVE  IInv'
<1>1. ConnOK'
  <2>1. wire' \in Seq(Messages)
    BY SeqFacts DEF IInv, TypeOK, ConnOK, ReadNote
  <2> QED
    BY <2>1 DEF IInv, TypeOK, ConnOK, ReadNote
<1>2. DispOK'
  <2>1. Head(wire) \in Messages /\ Head(wire).kind = "note"
    BY SeqFacts DEF IInv, TypeOK, ConnOK, ReadNote
  <2>2. Head(wire).n \in 1 .. MaxNotes
    BY <2>1, MessageFacts
  <2>3. inhand' \in 0 .. MaxNotes
    BY <2>2, RpcConstants DEF IInv, TypeOK, DispOK, ReadNote
  <2> QED
    BY <2>3 DEF IInv, TypeOK, DispOK, ReadNote
<1>3. SwapFor'
  BY DEF IInv, TypeOK, SwapFor, CallOK, DispOK, Ops, None, ReadNote, callVars
<1>4. InHand'
  <2>1. Head(wire) \in Messages /\ Head(wire).kind = "note"
    BY SeqFacts DEF IInv, TypeOK, ConnOK, ReadNote
  <2>2. Head(wire).n \in 1 .. MaxNotes
    BY <2>1, MessageFacts
  <2> QED
    BY <2>2 DEF InHand, ReadNote
<1>5. CallOK' /\ SubOK' /\ MainOK' /\ WriteLock' /\ LockHeld' /\ FetchCall'
  BY DEF IInv, TypeOK, CallOK, SubOK, MainOK, WriteLock, LockHeld, FetchCall, ReadNote, callVars,
      subVars, mainVars
<1> QED
  BY <1>1, <1>2, <1>3, <1>4, <1>5 DEF IInv, TypeOK

\* Invariance: the read loop ends.
LEMMA ReadErrKeeps ==
  ASSUME IInv, ReadErr
  PROVE  IInv'
<1>1. CallOK'
  BY DEF IInv, TypeOK, CallOK, Ops, None, ReadErr, CancelAll
<1>2. DispOK'
  BY DEF IInv, TypeOK, DispOK, Ops, None, ReadErr, CancelAll
<1>3. SwapFor'
  BY DEF IInv, TypeOK, SwapFor, CallOK, DispOK, Ops, None, ReadErr, CancelAll
<1>4. InHand'
  BY DEF IInv, TypeOK, InHand, ReadErr, CancelAll
<1>5. ConnOK' /\ SubOK' /\ MainOK' /\ WriteLock' /\ LockHeld' /\ FetchCall'
  BY DEF IInv, TypeOK, ConnOK, SubOK, MainOK, WriteLock, LockHeld, FetchCall, ReadErr, connVars,
      subVars, mainVars
<1> QED
  BY <1>1, <1>2, <1>3, <1>4, <1>5 DEF IInv, TypeOK

\* Invariance: dispatch receives the new connection.
LEMMA ReconnectedKeeps ==
  ASSUME IInv, Reconnected
  PROVE  IInv'
<1>1. ConnOK'
  <2>1. <<>> \in Seq(Messages) /\ {} \in SUBSET Ops
    OBVIOUS
  <2> QED
    BY <2>1 DEF IInv, TypeOK, ConnOK, Reconnected, Install
<1>2. CallOK'
  <2>1. CASE Install /\ UNCHANGED <<resp, registered>>
    BY <2>1 DEF IInv, TypeOK, CallOK, Reconnected, Install
  <2>2. CASE CancelAll("swap") /\ UNCHANGED <<up, wire, reqs, feed, reading, codecOpen, writable, call>>
    BY <2>2 DEF IInv, TypeOK, CallOK, Reconnected, CancelAll
  <2> QED
    BY <2>1, <2>2 DEF Reconnected
<1>3. DispOK'
  BY DEF IInv, TypeOK, DispOK, Ops, None, Reconnected, CancelAll, Install
<1>4. WriteLock'
  BY DEF IInv, TypeOK, WriteLock, CallOK, DispOK, Ops, None, Reconnected, CancelAll, Install
<1>5. SwapFor'
  BY DEF IInv, TypeOK, SwapFor, CallOK, DispOK, Ops, None, Reconnected, CancelAll, Install
<1>6. FetchCall'
  BY DEF IInv, TypeOK, FetchCall, CallOK, DispOK, Ops, None, Reconnected, CancelAll, Install, mainVars
<1>7. InHand'
  BY DEF IInv, TypeOK, InHand, Reconnected, CancelAll, Install
<1>8. SubOK' /\ MainOK' /\ LockHeld'
  BY DEF IInv, TypeOK, SubOK, MainOK, LockHeld, Reconnected, subVars, mainVars
<1> QED
  BY <1>1, <1>2, <1>3, <1>4, <1>5, <1>6, <1>7, <1>8 DEF IInv, TypeOK

\* Invariance: the forwarding loop gets a notification.
LEMMA DeliverKeeps ==
  ASSUME IInv, Deliver
  PROVE  IInv'
<1>1. CallOK'
  BY DEF IInv, TypeOK, CallOK, Ops, None, Deliver, StopForwarding
<1>2. DispOK'
  <2>1. 0 \in 0 .. MaxNotes
    BY RpcConstants
  <2> QED
    BY <2>1 DEF IInv, TypeOK, DispOK, Deliver
<1>3. SubOK'
  <2>1. inhand \in 1 .. MaxNotes /\ buffer \in Seq(1 .. MaxNotes) /\ Len(buffer) <= MaxBuffer
    BY DEF IInv, TypeOK, SubOK, InHand, Deliver
  <2>2. CASE buffer' = Append(buffer, inhand) /\ Len(buffer) < MaxBuffer
    <3>1. buffer' \in Seq(1 .. MaxNotes) /\ Len(buffer') = Len(buffer) + 1 /\ Len(buffer) \in Nat
      BY <2>1, <2>2, SeqFacts
    <3>2. Len(buffer') <= MaxBuffer
      BY <2>2, <3>1, RpcConstants
    <3> QED
      BY <3>1, <3>2 DEF IInv, TypeOK, SubOK, Deliver, StopForwarding
  <2>3. CASE buffer' = buffer
    BY <2>3 DEF IInv, TypeOK, SubOK, Deliver, StopForwarding
  <2> QED
    BY <2>2, <2>3 DEF Deliver, StopForwarding
<1>4. WriteLock'
  BY DEF IInv, TypeOK, WriteLock, CallOK, DispOK, Ops, None, Deliver, StopForwarding
<1>5. SwapFor'
  BY DEF IInv, TypeOK, SwapFor, CallOK, DispOK, Ops, None, Deliver, StopForwarding
<1>6. FetchCall'
  BY DEF IInv, TypeOK, FetchCall, CallOK, DispOK, Ops, None, Deliver, StopForwarding, mainVars
<1>7. InHand'
  BY DEF IInv, TypeOK, InHand, Deliver, StopForwarding
<1>8. ConnOK' /\ MainOK' /\ LockHeld'
  BY DEF IInv, TypeOK, ConnOK, MainOK, LockHeld, Deliver, connVars, mainVars
<1> QED
  BY <1>1, <1>2, <1>3, <1>4, <1>5, <1>6, <1>7, <1>8 DEF IInv, TypeOK

\* Invariance: dispatch has closed a lost connection.
LEMMA CloseConnKeeps ==
  ASSUME IInv, CloseConn
  PROVE  IInv'
<1>1. CallOK'
  BY DEF IInv, TypeOK, CallOK, Ops, None, CloseConn, QuitForwarding
<1>2. DispOK'
  BY DEF IInv, TypeOK, DispOK, Ops, None, CloseConn, QuitForwarding
<1>3. SubOK'
  BY DEF IInv, TypeOK, SubOK, CloseConn, QuitForwarding
<1>4. SwapFor'
  BY DEF IInv, TypeOK, SwapFor, CallOK, DispOK, Ops, None, CloseConn, QuitForwarding
<1>5. InHand'
  BY DEF IInv, TypeOK, InHand, CloseConn, QuitForwarding
<1>6. ConnOK' /\ MainOK' /\ WriteLock' /\ LockHeld' /\ FetchCall'
  BY DEF IInv, TypeOK, ConnOK, MainOK, WriteLock, LockHeld, FetchCall, CloseConn, connVars, mainVars
<1> QED
  BY <1>1, <1>2, <1>3, <1>4, <1>5, <1>6 DEF IInv, TypeOK

\* Invariance: dispatch has replaced a connection.
LEMMA SwapConnKeeps ==
  ASSUME IInv, SwapConn
  PROVE  IInv'
<1>1. ConnOK'
  <2>1. <<>> \in Seq(Messages) /\ {} \in SUBSET Ops
    OBVIOUS
  <2> QED
    BY <2>1 DEF IInv, TypeOK, ConnOK, SwapConn, Install
<1>2. CallOK'
  BY DEF IInv, TypeOK, CallOK, Ops, None, SwapConn, QuitForwarding, Install
<1>3. DispOK'
  <2>1. {lastOp} \in SUBSET Ops
    BY DEF IInv, SwapFor, SwapConn
  <2> QED
    BY <2>1 DEF IInv, TypeOK, DispOK, SwapConn, Install
<1>4. SubOK'
  BY DEF IInv, TypeOK, SubOK, SwapConn, QuitForwarding, Install
<1>5. WriteLock'
  <2>1. lastOp \in Ops /\ reqSent = "empty"
    BY DEF IInv, SwapFor, WriteLock, SwapConn
  <2>2. \A o \in Ops : o # lastOp => call'[o] = call[o]
    BY DEF IInv, TypeOK, CallOK, SwapConn, Install
  <2> QED
    BY <2>1, <2>2 DEF IInv, WriteLock, SwapConn, Install
<1>6. SwapFor'
  BY DEF IInv, TypeOK, SwapFor, CallOK, DispOK, Ops, None, SwapConn, QuitForwarding, Install
<1>7. FetchCall'
  <2>1. lastOp \in Ops /\ call[lastOp] = "reconnected"
    BY DEF IInv, SwapFor, SwapConn
  <2>2. "fetch" # lastOp => call'["fetch"] = call["fetch"]
    BY DEF IInv, TypeOK, CallOK, SwapConn, Install, Ops
  <2> QED
    BY <2>1, <2>2 DEF IInv, FetchCall, SwapConn, mainVars
<1>8. InHand'
  BY DEF IInv, TypeOK, InHand, SwapConn, QuitForwarding, Install
<1>9. MainOK' /\ LockHeld'
  BY DEF IInv, TypeOK, MainOK, LockHeld, SwapConn, mainVars
<1> QED
  BY <1>1, <1>2, <1>3, <1>4, <1>5, <1>6, <1>7, <1>8, <1>9 DEF IInv, TypeOK

\* Invariance: the unsubscribe request is over.
LEMMA UnsubscribedKeeps ==
  ASSUME IInv, Unsubscribed
  PROVE  IInv'
<1>1. CallOK'
  BY DEF IInv, TypeOK, CallOK, Ops, None, Unsubscribed, Over
<1>2. SubOK'
  BY DEF IInv, TypeOK, SubOK, Unsubscribed, Over
<1>3. WriteLock'
  BY DEF IInv, TypeOK, WriteLock, CallOK, DispOK, Ops, None, Unsubscribed, Over, dispVars
<1>4. SwapFor'
  BY DEF IInv, TypeOK, SwapFor, CallOK, DispOK, Ops, None, Unsubscribed, Over, dispVars
<1>5. FetchCall'
  BY DEF IInv, TypeOK, FetchCall, CallOK, DispOK, Ops, None, Unsubscribed, Over, mainVars
<1>6. ConnOK' /\ DispOK' /\ MainOK' /\ LockHeld' /\ InHand'
  BY DEF IInv, TypeOK, ConnOK, DispOK, MainOK, LockHeld, InHand, Unsubscribed, connVars, dispVars,
      mainVars
<1> QED
  BY <1>1, <1>2, <1>3, <1>4, <1>5, <1>6 DEF IInv, TypeOK

\* Invariance: the forwarding goroutine reports and ends.
LEMMA ReportKeeps ==
  ASSUME IInv, Report
  PROVE  IInv'
<1>1. SubOK'
  BY DEF IInv, TypeOK, SubOK, Report
<1>2. /\ ConnOK' /\ CallOK' /\ DispOK' /\ MainOK'
      /\ WriteLock' /\ LockHeld' /\ SwapFor' /\ FetchCall' /\ InHand'
  BY DEF IInv, TypeOK, ConnOK, CallOK, DispOK, MainOK, WriteLock, LockHeld, SwapFor, FetchCall,
      InHand, Report, connVars, callVars, dispVars, mainVars
<1> QED
  BY <1>1, <1>2 DEF IInv, TypeOK

\* Invariance: Subscribe returns.
LEMMA MainSubscribedKeeps ==
  ASSUME IInv, MainSubscribed
  PROVE  IInv'
<1>1. CallOK'
  BY DEF IInv, TypeOK, CallOK, Ops, None, MainSubscribed, Over
<1>2. MainOK'
  BY DEF IInv, TypeOK, MainOK, MainSubscribed, Over
<1>3. WriteLock'
  BY DEF IInv, TypeOK, WriteLock, CallOK, DispOK, Ops, None, MainSubscribed, Over, dispVars
<1>4. SwapFor'
  BY DEF IInv, TypeOK, SwapFor, CallOK, DispOK, Ops, None, MainSubscribed, Over, dispVars
<1>5. FetchCall'
  BY DEF IInv, TypeOK, FetchCall, CallOK, DispOK, Ops, None, MainSubscribed, Over
<1>6. ConnOK' /\ DispOK' /\ SubOK' /\ LockHeld' /\ InHand'
  BY DEF IInv, TypeOK, ConnOK, DispOK, SubOK, LockHeld, InHand, MainSubscribed, connVars, dispVars,
      subVars
<1> QED
  BY <1>1, <1>2, <1>3, <1>4, <1>5, <1>6 DEF IInv, TypeOK

\* Invariance: main gets a notification.
LEMMA ReceiveKeeps ==
  ASSUME IInv, Receive
  PROVE  IInv'
<1>1. CallOK'
  BY DEF IInv, TypeOK, CallOK, Ops, None, Receive
<1>2. SubOK'
  <2>1. buffer' \in Seq(1 .. MaxNotes) /\ Len(buffer') = Len(buffer) - 1 /\ Len(buffer) \in Nat
    BY SeqFacts DEF IInv, TypeOK, SubOK, Receive
  <2>2. Len(buffer') <= MaxBuffer
    BY <2>1, RpcConstants DEF IInv, TypeOK, SubOK
  <2> QED
    BY <2>1, <2>2 DEF IInv, TypeOK, SubOK, Receive
<1>3. MainOK'
  <2>1. Head(buffer) \in 1 .. MaxNotes /\ got \in Seq(1 .. MaxNotes)
    BY SeqFacts DEF IInv, TypeOK, SubOK, MainOK, Receive
  <2>2. got' \in Seq(1 .. MaxNotes)
    BY <2>1, SeqFacts DEF Receive
  <2> QED
    BY <2>2 DEF IInv, TypeOK, MainOK, Receive
<1>4. WriteLock'
  BY DEF IInv, TypeOK, WriteLock, CallOK, DispOK, Ops, None, Receive, dispVars
<1>5. SwapFor'
  <2>1. call["fetch"] = "idle"
    BY DEF IInv, FetchCall, Receive
  <2>2. \A o \in Ops : o # "fetch" => call'[o] = call[o]
    BY DEF IInv, TypeOK, CallOK, Receive
  <2> QED
    BY <2>1, <2>2 DEF IInv, SwapFor, Receive, dispVars
<1>6. FetchCall'
  BY DEF IInv, TypeOK, FetchCall, CallOK, DispOK, Ops, None, Receive
<1>7. ConnOK' /\ DispOK' /\ LockHeld' /\ InHand'
  BY DEF IInv, TypeOK, ConnOK, DispOK, LockHeld, InHand, Receive, connVars, dispVars
<1> QED
  BY <1>1, <1>2, <1>3, <1>4, <1>5, <1>6, <1>7 DEF IInv, TypeOK

\* Invariance: main gets the error of the subscription.
LEMMA MainErrKeeps ==
  ASSUME IInv, MainErr
  PROVE  IInv'
<1>1. SubOK'
  BY DEF IInv, TypeOK, SubOK, MainErr
<1>2. MainOK'
  BY DEF IInv, TypeOK, MainOK, MainErr
<1>3. FetchCall'
  BY DEF IInv, TypeOK, FetchCall, CallOK, DispOK, Ops, None, MainErr, callVars
<1>4. ConnOK' /\ CallOK' /\ DispOK' /\ WriteLock' /\ LockHeld' /\ SwapFor' /\ InHand'
  BY DEF IInv, TypeOK, ConnOK, CallOK, DispOK, WriteLock, LockHeld, SwapFor, InHand, MainErr,
      connVars, callVars, dispVars
<1> QED
  BY <1>1, <1>2, <1>3, <1>4 DEF IInv, TypeOK

\* Invariance: BlockByHash returns.
LEMMA FetchedKeeps ==
  ASSUME IInv, Fetched
  PROVE  IInv'
<1>1. CallOK'
  BY DEF IInv, TypeOK, CallOK, Ops, None, Fetched, Over
<1>2. MainOK'
  BY DEF IInv, TypeOK, MainOK, Fetched, Over
<1>3. WriteLock'
  BY DEF IInv, TypeOK, WriteLock, CallOK, DispOK, Ops, None, Fetched, Over, dispVars
<1>4. SwapFor'
  BY DEF IInv, TypeOK, SwapFor, CallOK, DispOK, Ops, None, Fetched, Over, dispVars
<1>5. FetchCall'
  BY DEF IInv, TypeOK, FetchCall, CallOK, DispOK, Ops, None, Fetched, Over
<1>6. ConnOK' /\ DispOK' /\ SubOK' /\ LockHeld' /\ InHand'
  BY DEF IInv, TypeOK, ConnOK, DispOK, SubOK, LockHeld, InHand, Fetched, connVars, dispVars, subVars
<1> QED
  BY <1>1, <1>2, <1>3, <1>4, <1>5, <1>6 DEF IInv, TypeOK

\* Every step keeps the inductive invariant.
LEMMA StepIInv == IInv /\ [Next]_vars => IInv'
<1> SUFFICES ASSUME IInv, [Next]_vars PROVE IInv'
  OBVIOUS
<1>1. CASE Notify \/ Node \/ Break
  BY <1>1, NotifyKeeps, AnswerKeeps, BreakKeeps DEF Node
<1>2. ASSUME NEW op \in Ops, Sender(op) PROVE IInv'
  BY <1>2, WriteKeeps, WriteFailsKeeps, DialFailsKeeps, DialKeeps DEF Sender
<1>3. CASE Requests \/ Reads
  BY <1>3, ReqInitKeeps, ReqSentKeeps, ReadResponseKeeps, ReadNoteKeeps, ReadErrKeeps DEF Requests,
      Reads
<1>4. CASE Reconnected \/ Deliver \/ CloseConn \/ SwapConn
  BY <1>4, ReconnectedKeeps, DeliverKeeps, CloseConnKeeps, SwapConnKeeps
<1>5. CASE Forward \/ Main
  BY <1>5, UnsubscribedKeeps, ReportKeeps, MainSubscribedKeeps, ReceiveKeeps, MainErrKeeps,
      FetchedKeeps
     DEF Forward, Main
<1>6. CASE UNCHANGED vars
  <2>1. ConnOK' /\ CallOK' /\ DispOK' /\ SubOK' /\ MainOK'
    BY <1>6 DEF vars, connVars, callVars, dispVars, subVars, mainVars, IInv, TypeOK, ConnOK, CallOK,
        DispOK,
                SubOK, MainOK
  <2>2. WriteLock' /\ LockHeld' /\ SwapFor' /\ FetchCall' /\ InHand'
    BY <1>6 DEF vars, callVars, dispVars, mainVars, IInv, WriteLock, LockHeld, SwapFor, FetchCall,
        InHand
  <2> QED
    BY <2>1, <2>2 DEF IInv, TypeOK
<1> QED
  BY <1>1, <1>2, <1>3, <1>4, <1>5, <1>6 DEF Next, Dispatch

\* The inductive invariant holds in every reachable state.
THEOREM Inductive == Spec => []IInv
BY InitIInv, StepIInv, PTL DEF Spec

\* TypeOK of RpcClient: with it, the subscription's queue never exceeds MaxBuffer.
THEOREM RpcTypes == Spec => []TypeOK
<1>1. IInv => TypeOK
  BY DEF IInv
<1> QED
  BY <1>1, Inductive, PTL

\* One goroutine at a time writes, reconnects or changes writeConn, and none while
\* dispatch has not taken the result of the write before.
THEOREM LockExcludes == Spec => []WriteLock
<1>1. IInv => WriteLock
  BY DEF IInv
<1> QED
  BY <1>1, Inductive, PTL
===============================================================================
