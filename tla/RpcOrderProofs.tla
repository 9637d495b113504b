---------------------------- MODULE RpcOrderProofs -----------------------------
(***************************************************************************)
(* Proofs about RpcClient, for every number of notifications, queue size   *)
(* and number of broken connections: the notifications keep their order    *)
(* and leave no gap on the way from the node over the wire, dispatch and   *)
(* the queue of the subscription to main, and a subscriber is dropped for  *)
(* being slow only when its queue is full.                                 *)
(***************************************************************************)
EXTENDS RpcClientProofs

\* The message at i is a notification.
IsNote(w, i) == w[i].kind = "note"

\* Notifications lie on the wire in the order of the node, which has sent s.
Rises(w, s) ==
  /\ \A i \in 1 .. Len(w) : IsNote(w, i) => w[i].n <= s
  /\ \A i, j \in 1 .. Len(w) : i < j /\ IsNote(w, i) /\ IsNote(w, j) => w[i].n < w[j].n

\* The notifications on the wire continue those up to last without a gap.
InLine(w, last) ==
  \A j \in 1 .. Len(w) : IsNote(w, j) =>
    w[j].n = last + 1 \/ \E i \in 1 .. Len(w) : i < j /\ w[i] = Note(w[j].n - 1)

\* The last of the s notifications is on the wire, or taken from it.
Reaches(w, s, last) == s = last \/ \E i \in 1 .. Len(w) : w[i] = Note(s)

\* The notifications that come continue those up to last.
Follows(last) == InLine(wire, last) /\ (feed => Reaches(wire, sent, last))

\* The answer that grants the subscription.
Granted(w, p) == w[p] = Response("subscribe", "value")

\* The subscribe request is still to be sent.
Asking == call["subscribe"] \in {"init", "write", "reconnected"}

\* Until the node answers the subscribe request, which it gets once, it sends
\* nothing.
Asks ==
  /\ "subscribe" \in reqs => ~Asking
  /\ Asking \/ "subscribe" \in reqs =>
       run = "none" /\ sent = 0 /\ ~feed /\ \A p \in 1 .. Len(wire) : ~Granted(wire, p)

\* Behind the answer, and only there, the notifications start with the first.
Starting ==
  \A p \in 1 .. Len(wire) : Granted(wire, p) =>
    /\ run = "none" /\ Follows(0)
    /\ \A q \in 1 .. Len(wire) : Granted(wire, q) => q = p
    /\ \A i \in 1 .. Len(wire) : IsNote(wire, i) => p < i

\* There is no subscription yet.
Before == run = "none" => got = <<>> /\ buffer = <<>> /\ ~registered /\ disp # "deliver"

\* The notifications taken from the wire while the loop forwards.
Taken == Len(got) + Len(buffer) + (IF disp = "deliver" THEN 1 ELSE 0)

\* While the loop forwards, every notification is with main, in the queue, with
\* dispatch or on the wire, in this order.
Forwarding ==
  run = "forward" =>
    /\ registered \/ disp \in {"close", "swap"}
    /\ \A k \in 1 .. Len(buffer) : buffer[k] = Len(got) + k
    /\ disp = "deliver" => inhand = Taken
    /\ Follows(Taken)

\* What dispatch delivers was sent, and no end has a cause before it came.
Delivering == disp = "deliver" => inhand <= sent
Causes == run \in {"none", "forward"} => cause = "none"

\* The inductive invariant of the order.
OInv ==
  /\ NotesInOrder /\ DroppedOnlyWhenFull /\ Rises(wire, sent)
  /\ Asks /\ Starting /\ Before /\ Forwarding /\ Delivering /\ Causes

-------------------------------------------------------------------------------
(* Messages and the wire. *)

\* What a message is made of tells notifications and responses apart.
LEMMA Kinds ==
  /\ \A n : Note(n).kind = "note" /\ Note(n).n = n
  /\ \A op, r : Response(op, r).kind = "response" /\ Response(op, r).op = op
                /\ Response(op, r).result = r
  /\ \A x \in Messages : x.kind = "note" => x = Note(x.n)
  /\ \A x \in Messages : x.kind = "response" => x = Response(x.op, x.result)
  /\ \A x \in Messages : x.kind \in {"note", "response"}
<1>1. \A n : Note(n).kind = "note" /\ Note(n).n = n
  BY DEF Note
<1>2. \A op, r : Response(op, r).kind = "response" /\ Response(op, r).op = op
                 /\ Response(op, r).result = r
  BY DEF Response
<1>3. \A x \in Messages : x.kind = "note" => x = Note(x.n)
  BY DEF Messages, Note
<1>4. \A x \in Messages : x.kind = "response" => x = Response(x.op, x.result)
  BY DEF Messages, Response
<1>5. \A x \in Messages : x.kind \in {"note", "response"}
  BY DEF Messages
<1> QED
  BY <1>1, <1>2, <1>3, <1>4, <1>5

\* Where the elements of a sequence are when one is added, taken or the rest lost.
LEMMA Places ==
  ASSUME NEW S, NEW w \in Seq(S)
  PROVE  /\ \A x \in S : /\ Len(Append(w, x)) = Len(w) + 1
                         /\ \A i \in 1 .. Len(w) : Append(w, x)[i] = w[i]
                         /\ Append(w, x)[Len(w) + 1] = x
         /\ w # <<>> => /\ Len(Tail(w)) = Len(w) - 1 /\ Len(w) \in Nat \ {0}
                        /\ \A i \in 1 .. Len(w) - 1 : Tail(w)[i] = w[i + 1]
                        /\ Head(w) = w[1]
         /\ \A k \in 0 .. Len(w) : /\ Len(SubSeq(w, 1, k)) = k
                                   /\ \A i \in 1 .. k : SubSeq(w, 1, k)[i] = w[i]
         /\ \A i \in 1 .. Len(w) : w[i] \in S
         /\ Len(w) \in Nat
  OBVIOUS

\* The node sends the next notification.
LEMMA NoteSent ==
  ASSUME NEW w \in Seq(Messages), NEW s \in Nat, s + 1 \in 1 .. MaxNotes, Rises(w, s)
  PROVE  LET v == Append(w, Note(s + 1))
         IN  /\ Rises(v, s + 1)
             /\ \A last \in Nat : InLine(w, last) /\ Reaches(w, s, last) =>
                  InLine(v, last) /\ Reaches(v, s + 1, last)
             /\ \A p \in 1 .. Len(v) : Granted(v, p) => p \in 1 .. Len(w) /\ Granted(w, p)
             /\ \A i \in 1 .. Len(v) : IsNote(v, i) =>
                  i = Len(w) + 1 \/ (i \in 1 .. Len(w) /\ IsNote(w, i))
<1> DEFINE v == Append(w, Note(s + 1))
<1>1. Note(s + 1) \in Messages /\ Note(s + 1).kind = "note" /\ Note(s + 1).n = s + 1
  BY MessageFacts, Kinds
<1>2. /\ Len(v) = Len(w) + 1 /\ Len(w) \in Nat /\ \A i \in 1 .. Len(w) : v[i] = w[i]
      /\ v[Len(w) + 1] = Note(s + 1) /\ \A i \in 1 .. Len(w) : w[i] \in Messages
  BY <1>1, Places
<1> HIDE DEF v
<1>3. \A i \in 1 .. Len(v) : i = Len(w) + 1 \/ i \in 1 .. Len(w)
  BY <1>2
<1>4. \A i \in 1 .. Len(w) : IsNote(w, i) => w[i].n \in Nat /\ w[i].n <= s
  <2>1. \A i \in 1 .. Len(w) : IsNote(w, i) => w[i].n \in 1 .. MaxNotes
    BY <1>2, MessageFacts DEF IsNote
  <2> QED
    BY <2>1, RpcConstants DEF Rises
<1>5. \A i \in 1 .. Len(v) : IsNote(v, i) => i = Len(w) + 1 \/ (i \in 1 .. Len(w) /\ IsNote(w, i))
  BY <1>2, <1>3 DEF IsNote
<1>6. Rises(v, s + 1)
  <2>1. ASSUME NEW i \in 1 .. Len(v), IsNote(v, i) PROVE v[i].n <= s + 1
    BY <2>1, <1>1, <1>2, <1>4, <1>5
  <2>2. ASSUME NEW i \in 1 .. Len(v), NEW j \in 1 .. Len(v), i < j, IsNote(v, i), IsNote(v, j)
        PROVE v[i].n < v[j].n
    <3>1. i \in 1 .. Len(w) /\ IsNote(w, i) /\ v[i] = w[i] /\ w[i].n \in Nat /\ w[i].n <= s
      BY <2>2, <1>2, <1>4, <1>5
    <3>2. CASE j = Len(w) + 1
      BY <3>1, <3>2, <1>1, <1>2
    <3>3. CASE j \in 1 .. Len(w) /\ IsNote(w, j)
      BY <2>2, <3>1, <3>3, <1>2 DEF Rises
    <3> QED
      BY <2>2, <3>2, <3>3, <1>5
  <2> QED
    BY <2>1, <2>2 DEF Rises
<1>7. ASSUME NEW last \in Nat, InLine(w, last), Reaches(w, s, last)
      PROVE  InLine(v, last) /\ Reaches(v, s + 1, last)
  <2>1. Reaches(v, s + 1, last)
    <3>1. Len(w) + 1 \in 1 .. Len(v)
      BY <1>2
    <3> QED
      BY <3>1, <1>2 DEF Reaches
  <2>2. ASSUME NEW j \in 1 .. Len(v), IsNote(v, j)
        PROVE v[j].n = last + 1 \/ \E i \in 1 .. Len(v) : i < j /\ v[i] = Note(v[j].n - 1)
    <3>1. CASE j = Len(w) + 1
      <4>1. v[j].n = s + 1 /\ v[j].n - 1 = s
        BY <3>1, <1>1, <1>2
      <4> QED
        BY <4>1, <3>1, <1>2, <1>7 DEF Reaches
    <3>2. CASE j \in 1 .. Len(w) /\ IsNote(w, j)
      <4>1. v[j] = w[j]
        BY <3>2, <1>2
      <4>2. w[j].n = last + 1 \/ \E i \in 1 .. Len(w) : i < j /\ w[i] = Note(w[j].n - 1)
        BY <3>2, <1>7 DEF InLine
      <4> QED
        BY <4>1, <4>2, <1>2
    <3> QED
      BY <2>2, <3>1, <3>2, <1>5
  <2> QED
    BY <2>1, <2>2 DEF InLine
<1>8. \A p \in 1 .. Len(v) : Granted(v, p) => p \in 1 .. Len(w) /\ Granted(w, p)
  BY <1>1, <1>2, <1>3, Kinds DEF Granted
<1> QED
  BY <1>5, <1>6, <1>7, <1>8 DEF v

\* The node answers a request.
LEMMA ResponseSent ==
  ASSUME NEW w \in Seq(Messages), NEW s \in Nat, Rises(w, s),
         NEW op \in Ops, NEW r \in {"value", "error"}
  PROVE  LET v == Append(w, Response(op, r))
         IN  /\ Rises(v, s)
             /\ \A last \in Nat : InLine(w, last) => InLine(v, last)
             /\ \A last \in Nat : Reaches(w, s, last) => Reaches(v, s, last)
             /\ \A p \in 1 .. Len(v) : Granted(v, p) =>
                  \/ p \in 1 .. Len(w) /\ Granted(w, p)
                  \/ p = Len(w) + 1 /\ op = "subscribe" /\ r = "value"
             /\ \A i \in 1 .. Len(v) : IsNote(v, i) => i \in 1 .. Len(w) /\ IsNote(w, i)
<1> DEFINE x == Response(op, r)  v == Append(w, x)
<1>1. x \in Messages /\ x.kind = "response" /\ x.op = op /\ x.result = r
  BY MessageFacts, Kinds
<1> HIDE DEF x
<1>2. /\ Len(v) = Len(w) + 1 /\ Len(w) \in Nat /\ \A i \in 1 .. Len(w) : v[i] = w[i]
      /\ v[Len(w) + 1] = x /\ \A i \in 1 .. Len(w) : w[i] \in Messages
  BY <1>1, Places
<1> HIDE DEF v
<1>3. \A i \in 1 .. Len(v) : i = Len(w) + 1 \/ i \in 1 .. Len(w)
  BY <1>2
<1>4. \A i \in 1 .. Len(v) : IsNote(v, i) => i \in 1 .. Len(w) /\ IsNote(w, i)
  BY <1>1, <1>2, <1>3 DEF IsNote
<1>5. Rises(v, s)
  BY <1>2, <1>4 DEF Rises
<1>6. ASSUME NEW last \in Nat, InLine(w, last) PROVE InLine(v, last)
  <2>1. ASSUME NEW j \in 1 .. Len(v), IsNote(v, j)
        PROVE v[j].n = last + 1 \/ \E i \in 1 .. Len(v) : i < j /\ v[i] = Note(v[j].n - 1)
    <3>1. j \in 1 .. Len(w) /\ IsNote(w, j) /\ v[j] = w[j]
      BY <2>1, <1>2, <1>4
    <3>2. w[j].n = last + 1 \/ \E i \in 1 .. Len(w) : i < j /\ w[i] = Note(w[j].n - 1)
      BY <3>1, <1>6 DEF InLine
    <3> QED
      BY <3>1, <3>2, <1>2
  <2> QED
    BY <2>1 DEF InLine
<1>7. \A last \in Nat : Reaches(w, s, last) => Reaches(v, s, last)
  BY <1>2 DEF Reaches
<1>8. ASSUME NEW p \in 1 .. Len(v), Granted(v, p)
      PROVE  \/ p \in 1 .. Len(w) /\ Granted(w, p)
             \/ p = Len(w) + 1 /\ op = "subscribe" /\ r = "value"
  <2>1. CASE p = Len(w) + 1
    <3>1. x = Response("subscribe", "value")
      BY <2>1, <1>2, <1>8 DEF Granted
    <3>2. x.op = "subscribe" /\ x.result = "value"
      BY <3>1, Kinds
    <3> QED
      BY <2>1, <3>2, <1>1
  <2>2. CASE p \in 1 .. Len(w)
    BY <2>2, <1>2, <1>8 DEF Granted
  <2> QED
    BY <1>3, <2>1, <2>2
<1> QED
  BY <1>4, <1>5, <1>6, <1>7, <1>8 DEF v, x

\* The connection breaks: the end of the wire is lost.
LEMMA EndLost ==
  ASSUME NEW w \in Seq(Messages), NEW s \in Nat, Rises(w, s), NEW k \in 0 .. Len(w)
  PROVE  LET v == SubSeq(w, 1, k)
         IN  /\ Rises(v, s)
             /\ \A last \in Nat : InLine(w, last) => InLine(v, last)
             /\ \A i \in 1 .. Len(v) : i \in 1 .. Len(w) /\ v[i] = w[i]
<1> DEFINE v == SubSeq(w, 1, k)
<1>1. Len(v) = k /\ Len(w) \in Nat /\ \A i \in 1 .. k : v[i] = w[i]
  BY Places
<1> HIDE DEF v
<1>2. \A i \in 1 .. Len(v) : i \in 1 .. Len(w) /\ v[i] = w[i]
  BY <1>1
<1>3. Rises(v, s)
  BY <1>2 DEF Rises, IsNote
<1>4. ASSUME NEW last \in Nat, InLine(w, last) PROVE InLine(v, last)
  <2>1. ASSUME NEW j \in 1 .. Len(v), IsNote(v, j)
        PROVE v[j].n = last + 1 \/ \E i \in 1 .. Len(v) : i < j /\ v[i] = Note(v[j].n - 1)
    <3>1. j \in 1 .. Len(w) /\ IsNote(w, j) /\ v[j] = w[j]
      BY <2>1, <1>2 DEF IsNote
    <3>2. w[j].n = last + 1 \/ \E i \in 1 .. Len(w) : i < j /\ w[i] = Note(w[j].n - 1)
      BY <3>1, <1>4 DEF InLine
    <3>3. \A i \in 1 .. Len(w) : i < j => i \in 1 .. Len(v)
      BY <1>1
    <3> QED
      BY <3>1, <3>2, <3>3, <1>2
  <2> QED
    BY <2>1 DEF InLine
<1> QED
  BY <1>2, <1>3, <1>4 DEF v

\* The client reads a message: what is behind it moves up.
LEMMA HeadRead ==
  ASSUME NEW w \in Seq(Messages), w # <<>>, NEW s \in Nat, Rises(w, s)
  PROVE  LET v == Tail(w)
         IN  /\ Rises(v, s)
             /\ \A i \in 1 .. Len(v) : i + 1 \in 1 .. Len(w) /\ v[i] = w[i + 1]
             /\ ~IsNote(w, 1) =>
                  \A last \in Nat : /\ InLine(w, last) => InLine(v, last)
                                    /\ Reaches(w, s, last) => Reaches(v, s, last)
             /\ IsNote(w, 1) =>
                  /\ w[1].n <= s
                  /\ \A last \in Nat : InLine(w, last) =>
                       /\ w[1].n = last + 1 /\ InLine(v, last + 1)
                       /\ Reaches(w, s, last) => Reaches(v, s, last + 1)
<1> DEFINE v == Tail(w)
<1>1. /\ Len(v) = Len(w) - 1 /\ Len(w) \in Nat \ {0} /\ \A i \in 1 .. Len(w) - 1 : v[i] = w[i + 1]
      /\ \A i \in 1 .. Len(w) : w[i] \in Messages
  BY Places
<1> HIDE DEF v
<1>2. \A i \in 1 .. Len(v) : i + 1 \in 1 .. Len(w) /\ v[i] = w[i + 1]
  BY <1>1
<1>3. \A i \in 1 .. Len(w) : i # 1 => i - 1 \in 1 .. Len(v) /\ w[i] = v[i - 1]
  BY <1>1
<1>4. Rises(v, s)
  <2>1. \A i \in 1 .. Len(v) : IsNote(v, i) => v[i].n <= s
    BY <1>2 DEF Rises, IsNote
  <2>2. ASSUME NEW i \in 1 .. Len(v), NEW j \in 1 .. Len(v), i < j, IsNote(v, i), IsNote(v, j)
        PROVE v[i].n < v[j].n
    <3>1. i + 1 < j + 1
      BY <2>2
    <3> QED
      BY <2>2, <3>1, <1>2 DEF Rises, IsNote
  <2> QED
    BY <2>1, <2>2 DEF Rises
<1>5. 1 \in 1 .. Len(w)
  BY <1>1
<1>6. \A i \in 1 .. Len(w) : IsNote(w, i) => w[i].n \in Nat /\ w[i] = Note(w[i].n)
  <2>1. \A i \in 1 .. Len(w) : IsNote(w, i) => w[i].n \in 1 .. MaxNotes /\ w[i] = Note(w[i].n)
    BY <1>1, MessageFacts, Kinds DEF IsNote
  <2> QED
    BY <2>1, RpcConstants
<1>7. \A i \in 1 .. Len(w), n \in Nat : w[i] = Note(n) => IsNote(w, i) /\ w[i].n = n
  BY Kinds DEF IsNote
<1>8. ASSUME ~IsNote(w, 1), NEW last \in Nat
      PROVE  /\ InLine(w, last) => InLine(v, last)
             /\ Reaches(w, s, last) => Reaches(v, s, last)
  <2>1. ASSUME InLine(w, last), NEW j \in 1 .. Len(v), IsNote(v, j)
        PROVE v[j].n = last + 1 \/ \E i \in 1 .. Len(v) : i < j /\ v[i] = Note(v[j].n - 1)
    <3>1. j + 1 \in 1 .. Len(w) /\ v[j] = w[j + 1] /\ IsNote(w, j + 1)
      BY <2>1, <1>2 DEF IsNote
    <3>2. CASE w[j + 1].n = last + 1
      BY <3>1, <3>2
    <3>3. ASSUME NEW i \in 1 .. Len(w), i < j + 1, w[i] = Note(w[j + 1].n - 1)
          PROVE \E k \in 1 .. Len(v) : k < j /\ v[k] = Note(v[j].n - 1)
      <4>1. i # 1
        BY <3>3, <1>8, Kinds DEF IsNote
      <4>2. i - 1 \in 1 .. Len(v) /\ i - 1 < j /\ v[i - 1] = Note(v[j].n - 1)
        BY <4>1, <3>1, <3>3, <1>3
      <4> QED
        BY <4>2
    <3> QED
      BY <2>1, <3>1, <3>2, <3>3 DEF InLine
  <2>2. Reaches(w, s, last) => Reaches(v, s, last)
    BY <1>3, <1>7, <1>8 DEF Reaches
  <2> QED
    BY <2>1, <2>2 DEF InLine
<1>9. ASSUME IsNote(w, 1), NEW last \in Nat, InLine(w, last)
      PROVE  /\ w[1].n = last + 1 /\ InLine(v, last + 1)
             /\ Reaches(w, s, last) => Reaches(v, s, last + 1)
  <2>1. w[1].n = last + 1
    BY <1>5, <1>9 DEF InLine
  <2>2. ASSUME NEW j \in 1 .. Len(v), IsNote(v, j)
        PROVE v[j].n = last + 1 + 1 \/ \E i \in 1 .. Len(v) : i < j /\ v[i] = Note(v[j].n - 1)
    <3>1. j + 1 \in 1 .. Len(w) /\ v[j] = w[j + 1] /\ IsNote(w, j + 1)
      BY <2>2, <1>2 DEF IsNote
    <3>2. w[1].n < w[j + 1].n /\ w[j + 1].n \in Nat
      <4>1. 1 < j + 1
        OBVIOUS
      <4> QED
        BY <4>1, <3>1, <1>5, <1>6, <1>9 DEF Rises
    <3>3. PICK i \in 1 .. Len(w) : i < j + 1 /\ w[i] = Note(w[j + 1].n - 1)
      BY <2>1, <3>1, <3>2, <1>9 DEF InLine
    <3>4. w[i].n = w[j + 1].n - 1
      BY <3>3, Kinds
    <3>5. CASE i = 1
      BY <2>1, <3>1, <3>2, <3>4, <3>5
    <3>6. CASE i # 1
      <4>1. i - 1 \in 1 .. Len(v) /\ i - 1 < j /\ v[i - 1] = Note(v[j].n - 1)
        BY <3>1, <3>3, <3>6, <1>3
      <4> QED
        BY <4>1
    <3> QED
      BY <3>5, <3>6
  <2>3. ASSUME Reaches(w, s, last) PROVE Reaches(v, s, last + 1)
    <3>1. s # last
      BY <2>1, <1>5, <1>9 DEF Rises
    <3>2. PICK i \in 1 .. Len(w) : w[i] = Note(s)
      BY <2>3, <3>1 DEF Reaches
    <3>3. CASE i = 1
      BY <2>1, <3>2, <3>3, Kinds DEF Reaches
    <3>4. CASE i # 1
      BY <3>2, <3>4, <1>3 DEF Reaches
    <3> QED
      BY <3>3, <3>4
  <2> QED
    BY <2>1, <2>2, <2>3 DEF InLine
<1>10. IsNote(w, 1) => w[1].n <= s
  BY <1>5 DEF Rises
<1> QED
  BY <1>2, <1>4, <1>8, <1>9, <1>10 DEF v

-------------------------------------------------------------------------------
(* The steps. *)

\* What the types say of the numbers and the wire.
LEMMA Numbers ==
  ASSUME IInv
  PROVE  /\ wire \in Seq(Messages) /\ sent \in Nat /\ MaxBuffer \in Nat
         /\ got \in Seq(1 .. MaxNotes) /\ buffer \in Seq(1 .. MaxNotes)
         /\ Len(got) \in Nat /\ Len(buffer) \in Nat /\ Taken \in Nat /\ Len(wire) \in Nat
<1>1. wire \in Seq(Messages) /\ sent \in Nat /\ MaxBuffer \in Nat
  BY RpcConstants DEF IInv, TypeOK, ConnOK
<1>2. got \in Seq(1 .. MaxNotes) /\ buffer \in Seq(1 .. MaxNotes)
  BY DEF IInv, TypeOK, SubOK, MainOK
<1>3. Len(got) \in Nat /\ Len(buffer) \in Nat /\ Len(wire) \in Nat
  BY <1>1, <1>2
<1> QED
  BY <1>1, <1>2, <1>3 DEF Taken

\* Initially nothing has been sent.
LEMMA InitOInv == Init => OInv
<1> SUFFICES ASSUME Init PROVE OInv
  OBVIOUS
<1>1. wire = <<>> /\ got = <<>> /\ buffer = <<>> /\ Len(<<>>) = 0
  BY DEF Init
<1>2. NotesInOrder /\ Rises(wire, sent)
  BY <1>1 DEF NotesInOrder, Rises
<1>3. Asks /\ Starting
  BY <1>1 DEF Init, Asks, Starting, Asking
<1>4. DroppedOnlyWhenFull /\ Before /\ Forwarding /\ Delivering /\ Causes
  BY DEF Init, DroppedOnlyWhenFull, Before, Forwarding, Delivering, Causes
<1> QED
  BY <1>2, <1>3, <1>4 DEF OInv

\* A step that leaves the notifications where they are and starts no forwarding.
LEMMA LeavesNotes ==
  ASSUME OInv, UNCHANGED <<wire, feed, sent, buffer, got>>,
         Asking' => Asking, "subscribe" \in reqs' => ~Asking' /\ (Asking \/ "subscribe" \in reqs),
         registered' => registered, run' = "none" <=> run = "none",
         run \in {"none", "forward"} /\ run' = run => cause' = cause,
         cause' = "overflow" => cause = "overflow",
         disp' = "deliver" => disp = "deliver" /\ inhand' = inhand,
         run' = "forward" => run = "forward" /\ (registered' \/ disp' \in {"close", "swap"}),
         run' = "forward" /\ disp = "deliver" => disp' = "deliver"
  PROVE  OInv'
<1>1. wire' = wire /\ feed' = feed /\ sent' = sent /\ buffer' = buffer /\ got' = got
  OBVIOUS
<1>2. NotesInOrder' /\ DroppedOnlyWhenFull' /\ Rises(wire, sent)'
  BY DEF OInv, NotesInOrder, DroppedOnlyWhenFull, Rises
<1>3. Asks'
  BY DEF OInv, Asks
<1>4. Starting'
  BY <1>1 DEF OInv, Starting, Follows, Granted, IsNote, InLine, Reaches
<1>5. Before' /\ Delivering' /\ Causes'
  BY DEF OInv, Before, Delivering, Causes
<1>6. Forwarding'
  <2> SUFFICES ASSUME run' = "forward" PROVE Forwarding'
    BY DEF Forwarding
  <2>1. run = "forward" /\ (disp = "deliver" <=> disp' = "deliver") /\ Taken' = Taken
    BY DEF Taken
  <2>2. Follows(Taken)'
    BY <1>1, <2>1 DEF OInv, Forwarding, Follows, InLine, Reaches, IsNote
  <2> QED
    BY <2>1, <2>2 DEF OInv, Forwarding
<1> QED
  BY <1>2, <1>3, <1>4, <1>5, <1>6 DEF OInv

\* Requests are sent: none of it concerns the notifications, and the subscribe
\* request is written once.
LEMMA SenderOrder ==
  ASSUME IInv, OInv, NEW op \in Ops, ReqInit(op) \/ Sender(op)
  PROVE  OInv'
<1>1. call \in [Ops -> {"idle", "init", "write", "reconnected", "wait", "failed"}] /\ "subscribe" \in Ops
  BY DEF IInv, TypeOK, CallOK, Ops
<1>2. /\ UNCHANGED <<wire, feed, sent, disp, inhand, registered, run, cause, buffer, got>>
      /\ Asking' => Asking
      /\ "subscribe" \in reqs' => ~Asking' /\ (Asking \/ "subscribe" \in reqs)
  <2>1. CASE ReqInit(op)
    BY <1>1, <2>1 DEF ReqInit, Asking, OInv, Asks, connVars, subVars, mainVars
  <2>2. CASE Write(op)
    BY <1>1, <2>2 DEF Write, Sent, Asking, OInv, Asks, subVars, mainVars
  <2>3. CASE WriteFails(op)
    BY <1>1, <2>3 DEF WriteFails, Sent, Asking, OInv, Asks, connVars, subVars, mainVars
  <2>4. CASE DialFails(op)
    BY <1>1, <2>4 DEF DialFails, Sent, Asking, OInv, Asks, connVars, subVars, mainVars
  <2>5. CASE Dial(op)
    BY <1>1, <2>5 DEF Dial, Asking, OInv, Asks, connVars, dispVars, subVars, mainVars
  <2> QED
    BY <2>1, <2>2, <2>3, <2>4, <2>5 DEF Sender
<1> QED
  BY <1>2, LeavesNotes DEF OInv, Forwarding

\* A request is over, a loop has ended or a connection is closed.
LEMMA OverOrder ==
  ASSUME IInv, OInv,
         \/ ReqSent \/ ReadErr \/ CloseConn \/ Forward \/ MainSubscribed \/ MainErr \/ Fetched
         \/ (Reconnected /\ reading) \/ UNCHANGED vars
  PROVE  OInv'
<1>1. call \in [Ops -> {"idle", "init", "write", "reconnected", "wait", "failed"}] /\ "subscribe" \in Ops
  BY DEF IInv, TypeOK, CallOK, Ops
<1>2. CASE ReqSent \/ MainSubscribed \/ MainErr \/ Fetched \/ UNCHANGED vars
  <2>1. /\ UNCHANGED <<wire, reqs, feed, sent, disp, inhand, registered, run, cause, buffer, got>>
        /\ Asking' => Asking
    BY <1>1, <1>2 DEF ReqSent, MainSubscribed, MainErr, Fetched, Asking, vars, connVars, callVars,
        dispVars, subVars, mainVars
  <2> QED
    BY <2>1, LeavesNotes DEF OInv, Forwarding, Asks
<1>3. CASE Forward
  <2>1. /\ UNCHANGED <<wire, reqs, feed, sent, disp, inhand, registered, cause, buffer, got>>
        /\ Asking' => Asking
        /\ run \in {"unsubscribing", "report"} /\ run' \in {"report", "done"}
    BY <1>1, <1>3 DEF Forward, Unsubscribed, Report, Asking, connVars, callVars, dispVars, mainVars
  <2> QED
    BY <2>1, LeavesNotes DEF OInv, Asks
<1>4. CASE CloseConn
  <2>1. /\ UNCHANGED <<wire, reqs, feed, sent, inhand, registered, call, buffer, got>>
        /\ disp' = "idle" /\ run' # "forward" /\ (run' = "none" <=> run = "none")
        /\ (run' = run => cause' = cause) /\ (cause' = "overflow" => cause = "overflow")
    BY <1>4 DEF CloseConn, QuitForwarding, connVars, mainVars
  <2> QED
    BY <2>1, LeavesNotes DEF OInv, Asks, Asking
<1>5. CASE ReadErr \/ (Reconnected /\ reading)
  <2>1. /\ UNCHANGED <<wire, reqs, feed, sent, inhand, call, run, cause, buffer, got>>
        /\ disp = "idle" /\ ~registered' /\ disp' # "deliver"
        /\ registered => disp' \in {"close", "swap"}
    BY <1>5 DEF ReadErr, Reconnected, CancelAll, connVars, subVars, mainVars
  <2> QED
    BY <2>1, LeavesNotes DEF OInv, Asks, Asking, Forwarding
<1> QED
  BY <1>2, <1>3, <1>4, <1>5

\* A new connection is installed: nothing of the old one is left.
LEMMA InstallOrder ==
  ASSUME IInv, OInv, (Reconnected /\ ~reading) \/ SwapConn
  PROVE  OInv'
<1>1. call \in [Ops -> {"idle", "init", "write", "reconnected", "wait", "failed"}] /\ "subscribe" \in Ops
  BY DEF IInv, TypeOK, CallOK, Ops
<1>2. lastOp \in Ops /\ call[lastOp] = "reconnected"
  BY DEF IInv, TypeOK, DispOK, SwapFor, Reconnected, SwapConn
<1>3. /\ wire' = <<>> /\ reqs' = {} /\ ~feed' /\ (Asking' => Asking)
      /\ UNCHANGED <<sent, inhand, buffer, got>> /\ disp \in {"idle", "swap"} /\ disp' = "idle"
  BY <1>1, <1>2 DEF Reconnected, SwapConn, Install, Asking, subVars, mainVars
<1>4. UNCHANGED <<cause, run>> \/ (run' = "report" /\ cause' = "lost" /\ run = "forward")
  BY DEF Reconnected, SwapConn, QuitForwarding, subVars
<1>5. registered' = registered
  BY DEF Reconnected, SwapConn, dispVars
<1>6. NotesInOrder' /\ DroppedOnlyWhenFull' /\ Rises(wire, sent)'
  BY <1>3, <1>4 DEF OInv, NotesInOrder, DroppedOnlyWhenFull, Rises
<1>7. Starting'
  BY <1>3 DEF Starting
<1>8. Asks'
  BY <1>3, <1>4 DEF OInv, Asks
<1>9. Before' /\ Delivering' /\ Causes'
  BY <1>3, <1>4, <1>5 DEF OInv, Before, Delivering, Causes
<1>10. Forwarding'
  <2>1. CASE run' # "forward"
    BY <2>1 DEF Forwarding
  <2>2. CASE run' = "forward"
    <3>1. run = "forward" /\ disp = "idle" /\ registered'
      BY <2>2, <1>4, <1>5 DEF OInv, Forwarding, Reconnected, SwapConn, QuitForwarding
    <3>2. Follows(Taken)'
      BY <1>3 DEF Follows, InLine
    <3> QED
      BY <3>1, <3>2, <1>3 DEF OInv, Forwarding
  <2> QED
    BY <2>1, <2>2
<1> QED
  BY <1>6, <1>7, <1>8, <1>9, <1>10 DEF OInv

\* The node sends a notification.
LEMMA NotifyOrder ==
  ASSUME IInv, OInv, Notify
  PROVE  OInv'
<1>1. /\ wire' = Append(wire, Note(sent + 1)) /\ sent' = sent + 1 /\ feed /\ feed'
      /\ sent + 1 \in 1 .. MaxNotes /\ sent \in Nat /\ wire \in Seq(Messages)
      /\ UNCHANGED <<reqs, call, disp, inhand, registered, run, cause, buffer, got>>
  BY Numbers, RpcConstants DEF Notify, callVars, dispVars, subVars, mainVars
<1>2. Rises(wire, sent)
  BY DEF OInv
<1>3. Rises(wire', sent')
  BY <1>1, <1>2, NoteSent
<1>4. \A last \in Nat : Follows(last) =>
        InLine(wire', last) /\ Reaches(wire', sent', last)
  BY <1>1, <1>2, NoteSent DEF Follows
<1>5. /\ \A p \in 1 .. Len(wire') : Granted(wire', p) => p \in 1 .. Len(wire) /\ Granted(wire, p)
      /\ \A i \in 1 .. Len(wire') : IsNote(wire', i) =>
           i = Len(wire) + 1 \/ (i \in 1 .. Len(wire) /\ IsNote(wire, i))
  BY <1>1, <1>2, NoteSent
<1>6. NotesInOrder' /\ DroppedOnlyWhenFull'
  BY <1>1, Numbers DEF OInv, NotesInOrder, DroppedOnlyWhenFull
<1>7. Rises(wire, sent)'
  BY <1>3 DEF Rises, IsNote
<1>8. Asks'
  BY <1>1 DEF OInv, Asks, Asking
<1>9. Before' /\ Delivering' /\ Causes'
  <2>1. disp = "deliver" => inhand <= sent + 1
    BY <1>1 DEF OInv, Delivering, IInv, InHand
  <2> QED
    BY <1>1, <2>1 DEF OInv, Before, Delivering, Causes
<1>10. Starting'
  <2>1. ASSUME NEW p \in 1 .. Len(wire'), Granted(wire', p)
        PROVE  /\ run = "none" /\ InLine(wire', 0) /\ Reaches(wire', sent', 0)
               /\ \A q \in 1 .. Len(wire') : Granted(wire', q) => q = p
               /\ \A i \in 1 .. Len(wire') : IsNote(wire', i) => p < i
    <3>1. p \in 1 .. Len(wire) /\ Granted(wire, p)
      BY <2>1, <1>5
    <3>2. /\ run = "none" /\ Follows(0)
          /\ \A q \in 1 .. Len(wire) : Granted(wire, q) => q = p
          /\ \A i \in 1 .. Len(wire) : IsNote(wire, i) => p < i
      BY <3>1 DEF OInv, Starting
    <3>3. p < Len(wire) + 1
      BY <3>1, <1>1
    <3> QED
      BY <3>2, <3>3, <1>4, <1>5
  <2> QED
    BY <2>1, <1>1 DEF Starting, Follows, Granted, IsNote, InLine, Reaches
<1>11. Forwarding'
  <2> SUFFICES ASSUME run' = "forward" PROVE Forwarding'
    BY DEF Forwarding
  <2>1. run = "forward" /\ Taken' = Taken /\ Taken \in Nat
    BY <1>1, Numbers DEF Taken
  <2>2. InLine(wire', Taken) /\ Reaches(wire', sent', Taken)
    BY <1>4, <2>1 DEF OInv, Forwarding
  <2>3. Follows(Taken)'
    BY <2>1, <2>2 DEF Follows, InLine, Reaches, IsNote
  <2> QED
    BY <1>1, <2>1, <2>3 DEF OInv, Forwarding
<1> QED
  BY <1>6, <1>7, <1>8, <1>9, <1>10, <1>11 DEF OInv

\* The node answers; when it grants the subscription, nothing has been sent.
LEMMA AnswerOrder ==
  ASSUME IInv, OInv, NEW op \in Ops, NEW r \in {"value", "error"}, Answer(op, r)
  PROVE  OInv'
<1> DEFINE grants == op = "subscribe" /\ r = "value"
<1>1. /\ wire' = Append(wire, Response(op, r)) /\ op \in reqs /\ reqs' = reqs \ {op}
      /\ sent \in Nat /\ wire \in Seq(Messages) /\ Len(wire) \in Nat
      /\ UNCHANGED <<sent, call, disp, inhand, registered, run, cause, buffer, got>>
      /\ ~grants => (feed' => feed)
  BY Numbers DEF Answer, callVars, dispVars, subVars, mainVars
<1>2. Rises(wire, sent)
  BY DEF OInv
<1>3. /\ Rises(wire', sent)
      /\ \A last \in Nat : InLine(wire, last) => InLine(wire', last)
      /\ \A last \in Nat : Reaches(wire, sent, last) => Reaches(wire', sent, last)
      /\ \A p \in 1 .. Len(wire') : Granted(wire', p) =>
           (p \in 1 .. Len(wire) /\ Granted(wire, p)) \/ (p = Len(wire) + 1 /\ grants)
      /\ \A i \in 1 .. Len(wire') : IsNote(wire', i) => i \in 1 .. Len(wire) /\ IsNote(wire, i)
  BY <1>1, <1>2, ResponseSent
<1>4. grants => /\ run = "none" /\ sent = 0 /\ ~feed /\ ~Asking
                /\ \A p \in 1 .. Len(wire) : ~Granted(wire, p)
                /\ \A i \in 1 .. Len(wire) : ~IsNote(wire, i)
  <2>1. grants => /\ run = "none" /\ sent = 0 /\ ~feed /\ ~Asking
                  /\ \A p \in 1 .. Len(wire) : ~Granted(wire, p)
    BY <1>1 DEF OInv, Asks
  <2>2. ASSUME sent = 0, NEW i \in 1 .. Len(wire), IsNote(wire, i) PROVE FALSE
    <3>1. wire[i] \in Messages /\ wire[i].n <= 0
      BY <1>1, <1>2, <2>2, Places DEF Rises
    <3>2. wire[i].n \in 1 .. MaxNotes
      BY <2>2, <3>1, MessageFacts DEF IsNote
    <3> QED
      BY <3>1, <3>2, RpcConstants
  <2> QED
    BY <2>1, <2>2
<1> HIDE DEF grants
<1>5. NotesInOrder' /\ DroppedOnlyWhenFull'
  BY <1>1 DEF OInv, NotesInOrder, DroppedOnlyWhenFull
<1>6. Rises(wire, sent)'
  BY <1>1, <1>3 DEF Rises, IsNote
<1>7. Asks'
  <2>1. Asking' \/ "subscribe" \in reqs' => Asking \/ "subscribe" \in reqs
    BY <1>1 DEF Asking
  <2>2. "subscribe" \in reqs' => ~Asking'
    BY <1>1 DEF OInv, Asks, Asking
  <2>3. Asking' \/ "subscribe" \in reqs' => ~grants
    BY <1>1, <1>4 DEF Asking, grants
  <2> QED
    BY <1>1, <1>3, <2>1, <2>2, <2>3 DEF OInv, Asks, Granted
<1>8. Before' /\ Delivering' /\ Causes'
  BY <1>1 DEF OInv, Before, Delivering, Causes
<1>9. Starting'
  <2>1. ASSUME NEW p \in 1 .. Len(wire'), Granted(wire', p)
        PROVE  /\ run = "none" /\ InLine(wire', 0) /\ (feed' => Reaches(wire', sent, 0))
               /\ \A q \in 1 .. Len(wire') : Granted(wire', q) => q = p
               /\ \A i \in 1 .. Len(wire') : IsNote(wire', i) => p < i
    <3>1. CASE grants
      <4>1. \A i \in 1 .. Len(wire') : ~IsNote(wire', i)
        BY <3>1, <1>3, <1>4
      <4>2. \A q \in 1 .. Len(wire') : Granted(wire', q) => q = Len(wire) + 1
        BY <3>1, <1>3, <1>4
      <4>3. run = "none" /\ Reaches(wire', sent, 0) /\ InLine(wire', 0)
        BY <3>1, <4>1, <1>4 DEF InLine, Reaches
      <4> QED
        BY <2>1, <4>1, <4>2, <4>3
    <3>2. CASE ~grants
      <4>1. p \in 1 .. Len(wire) /\ Granted(wire, p)
        BY <2>1, <3>2, <1>3
      <4>2. /\ run = "none" /\ Follows(0)
            /\ \A q \in 1 .. Len(wire) : Granted(wire, q) => q = p
            /\ \A i \in 1 .. Len(wire) : IsNote(wire, i) => p < i
        BY <4>1 DEF OInv, Starting
      <4> QED
        BY <4>2, <3>2, <1>1, <1>3 DEF Follows, Granted
    <3> QED
      BY <3>1, <3>2
  <2> QED
    BY <2>1, <1>1 DEF Starting, Follows, Granted, IsNote, InLine, Reaches
<1>10. Forwarding'
  <2> SUFFICES ASSUME run' = "forward" PROVE Forwarding'
    BY DEF Forwarding
  <2>1. run = "forward" /\ Taken' = Taken /\ Taken \in Nat /\ ~grants
    BY <1>1, <1>4, Numbers DEF Taken
  <2>2. InLine(wire', Taken) /\ (feed' => Reaches(wire', sent, Taken))
    BY <1>1, <1>3, <2>1 DEF OInv, Forwarding, Follows
  <2>3. Follows(Taken)'
    BY <1>1, <2>1, <2>2 DEF Follows, InLine, Reaches, IsNote
  <2> QED
    BY <1>1, <2>1, <2>3 DEF OInv, Forwarding
<1> QED
  BY <1>5, <1>6, <1>7, <1>8, <1>9, <1>10 DEF OInv

\* The connection breaks.
LEMMA BreakOrder ==
  ASSUME IInv, OInv, Break
  PROVE  OInv'
<1>1. /\ ~feed' /\ reqs' = {} /\ wire \in Seq(Messages)
      /\ UNCHANGED <<sent, call, disp, inhand, registered, run, cause, buffer, got>>
  BY Numbers DEF Break, callVars, dispVars, subVars, mainVars
<1>2. Rises(wire, sent)
  BY DEF OInv
<1>3. /\ Rises(wire', sent)
      /\ \A last \in Nat : InLine(wire, last) => InLine(wire', last)
      /\ \A i \in 1 .. Len(wire') : i \in 1 .. Len(wire) /\ wire'[i] = wire[i]
  <2>1. PICK k \in 0 .. Len(wire) : wire' = SubSeq(wire, 1, k)
    BY DEF Break
  <2>2. wire \in Seq(Messages) /\ sent \in Nat
    BY Numbers
  <2> QED
    BY <1>2, <2>1, <2>2, EndLost
<1>4. NotesInOrder' /\ DroppedOnlyWhenFull' /\ Before' /\ Delivering' /\ Causes'
  BY <1>1 DEF OInv, NotesInOrder, DroppedOnlyWhenFull, Before, Delivering, Causes
<1>5. Rises(wire, sent)'
  BY <1>1, <1>3 DEF Rises, IsNote
<1>6. Asks'
  BY <1>1, <1>3 DEF OInv, Asks, Asking, Granted
<1>7. Starting'
  <2>1. ASSUME NEW p \in 1 .. Len(wire'), Granted(wire', p)
        PROVE  /\ run = "none" /\ InLine(wire', 0)
               /\ \A q \in 1 .. Len(wire') : Granted(wire', q) => q = p
               /\ \A i \in 1 .. Len(wire') : IsNote(wire', i) => p < i
    <3>1. p \in 1 .. Len(wire) /\ Granted(wire, p)
      BY <2>1, <1>3 DEF Granted
    <3>2. /\ run = "none" /\ Follows(0)
          /\ \A q \in 1 .. Len(wire) : Granted(wire, q) => q = p
          /\ \A i \in 1 .. Len(wire) : IsNote(wire, i) => p < i
      BY <3>1 DEF OInv, Starting
    <3> QED
      BY <3>2, <1>3 DEF Follows, IsNote, Granted
  <2> QED
    BY <2>1, <1>1 DEF Starting, Follows, Granted, IsNote, InLine, Reaches
<1>8. Forwarding'
  <2> SUFFICES ASSUME run' = "forward" PROVE Forwarding'
    BY DEF Forwarding
  <2>1. run = "forward" /\ Taken' = Taken /\ Taken \in Nat
    BY <1>1, Numbers DEF Taken
  <2>2. InLine(wire', Taken)
    BY <1>3, <2>1 DEF OInv, Forwarding, Follows
  <2>3. Follows(Taken)'
    BY <1>1, <2>1, <2>2 DEF Follows, InLine, IsNote
  <2> QED
    BY <1>1, <2>1, <2>3 DEF OInv, Forwarding
<1> QED
  BY <1>4, <1>5, <1>6, <1>7, <1>8 DEF OInv

\* Dispatch reads a response; the one that grants the subscription starts the loop
\* with the first notification.
LEMMA ReadResponseOrder ==
  ASSUME IInv, OInv, ReadResponse
  PROVE  OInv'
<1> DEFINE starts == Granted(wire, 1) /\ "subscribe" \in respWait
<1>1. /\ disp = "idle" /\ wire # <<>> /\ wire' = Tail(wire) /\ wire \in Seq(Messages)
      /\ UNCHANGED <<reqs, call, feed, sent, disp, inhand, cause, buffer, got>>
  BY Numbers DEF ReadResponse, mainVars
<1>2. /\ wire[1] \in Messages /\ wire[1].kind = "response" /\ Head(wire) = wire[1]
      /\ 1 \in 1 .. Len(wire)
  <2>1. 1 \in 1 .. Len(wire) /\ Head(wire) = wire[1]
    BY <1>1, Places
  <2> QED
    BY <1>1, <2>1, Places DEF ReadResponse
<1>3. Granted(wire, 1) <=> wire[1].op = "subscribe" /\ wire[1].result = "value"
  <2>1. wire[1] = Response(wire[1].op, wire[1].result)
    BY <1>2, Kinds
  <2>2. Response("subscribe", "value").op = "subscribe" /\ Response("subscribe", "value").result = "value"
    BY Kinds
  <2> QED
    BY <2>1, <2>2 DEF Granted
<1>4. /\ run' = IF starts THEN "forward" ELSE run
      /\ registered' = (registered \/ starts)
  BY <1>2, <1>3 DEF ReadResponse
<1> HIDE DEF starts
<1>5. Rises(wire, sent) /\ ~IsNote(wire, 1)
  BY <1>2 DEF OInv, IsNote
<1>6. /\ Rises(wire', sent)
      /\ \A i \in 1 .. Len(wire') : i + 1 \in 1 .. Len(wire) /\ wire'[i] = wire[i + 1]
      /\ \A last \in Nat : /\ InLine(wire, last) => InLine(wire', last)
                           /\ Reaches(wire, sent, last) => Reaches(wire', sent, last)
  <2>1. wire \in Seq(Messages) /\ wire # <<>> /\ wire' = Tail(wire) /\ sent \in Nat
    BY <1>1, Numbers
  <2> QED
    BY <2>1, <1>5, HeadRead
<1>7. starts => /\ run = "none" /\ Follows(0)
                /\ \A q \in 1 .. Len(wire) : Granted(wire, q) => q = 1
  BY <1>2 DEF OInv, Starting, starts
<1>8. \A p \in 1 .. Len(wire') : Granted(wire', p) => p + 1 \in 1 .. Len(wire) /\ Granted(wire, p + 1)
  BY <1>6 DEF Granted
<1>9. NotesInOrder' /\ DroppedOnlyWhenFull'
  BY <1>1 DEF OInv, NotesInOrder, DroppedOnlyWhenFull
<1>10. Rises(wire, sent)'
  BY <1>1, <1>6 DEF Rises, IsNote
<1>11. Asks'
  <2>1. Asking \/ "subscribe" \in reqs => ~starts
    BY <1>2 DEF OInv, Asks, starts
  <2> QED
    BY <1>1, <1>4, <1>8, <2>1 DEF OInv, Asks, Asking, Granted
<1>12. Before' /\ Delivering' /\ Causes'
  BY <1>1, <1>4, <1>7 DEF OInv, Before, Delivering, Causes
<1>13. Starting'
  <2>1. ASSUME NEW p \in 1 .. Len(wire'), Granted(wire', p)
        PROVE  /\ run' = "none" /\ InLine(wire', 0) /\ (feed => Reaches(wire', sent, 0))
               /\ \A q \in 1 .. Len(wire') : Granted(wire', q) => q = p
               /\ \A i \in 1 .. Len(wire') : IsNote(wire', i) => p < i
    <3>1. p + 1 \in 1 .. Len(wire) /\ Granted(wire, p + 1)
      BY <2>1, <1>8
    <3>2. /\ run = "none" /\ Follows(0)
          /\ \A q \in 1 .. Len(wire) : Granted(wire, q) => q = p + 1
          /\ \A i \in 1 .. Len(wire) : IsNote(wire, i) => p + 1 < i
      BY <3>1 DEF OInv, Starting
    <3>3. ~starts
      <4>1. p + 1 # 1
        OBVIOUS
      <4> QED
        BY <3>1, <4>1, <1>7
    <3>4. \A q \in 1 .. Len(wire') : Granted(wire', q) => q = p
      <4>1. ASSUME NEW q \in 1 .. Len(wire'), Granted(wire', q) PROVE q = p
        <5>1. q + 1 = p + 1
          BY <4>1, <3>2, <1>8
        <5> QED
          BY <5>1
      <4> QED
        BY <4>1
    <3>5. \A i \in 1 .. Len(wire') : IsNote(wire', i) => p < i
      <4>1. ASSUME NEW i \in 1 .. Len(wire'), IsNote(wire', i) PROVE p < i
        <5>1. p + 1 < i + 1
          BY <4>1, <3>2, <1>6 DEF IsNote
        <5> QED
          BY <5>1
      <4> QED
        BY <4>1
    <3> QED
      BY <3>2, <3>3, <3>4, <3>5, <1>4, <1>6 DEF Follows
  <2> QED
    BY <2>1, <1>1 DEF Starting, Follows, Granted, IsNote, InLine, Reaches
<1>14. Forwarding'
  <2> SUFFICES ASSUME run' = "forward" PROVE Forwarding'
    BY DEF Forwarding
  <2>1. Taken' = Taken /\ Taken \in Nat
    BY <1>1, Numbers DEF Taken
  <2>2. Follows(Taken) /\ registered' /\ (\A k \in 1 .. Len(buffer) : buffer[k] = Len(got) + k)
    <3>1. CASE starts
      <4>1. got = <<>> /\ buffer = <<>> /\ Taken = 0
        BY <3>1, <1>1, <1>7 DEF OInv, Before, Taken
      <4>2. \A k \in 1 .. Len(buffer) : buffer[k] = Len(got) + k
        BY <4>1
      <4> QED
        BY <4>1, <4>2, <3>1, <1>4, <1>7
    <3>2. CASE ~starts
      BY <3>2, <1>1, <1>4 DEF OInv, Forwarding
    <3> QED
      BY <3>1, <3>2
  <2>3. InLine(wire', Taken) /\ (feed => Reaches(wire', sent, Taken))
    BY <1>6, <2>1, <2>2 DEF Follows
  <2>4. Follows(Taken)'
    BY <1>1, <2>1, <2>3 DEF Follows, InLine, Reaches, IsNote
  <2> QED
    BY <1>1, <2>1, <2>2, <2>4 DEF Forwarding
<1> QED
  BY <1>9, <1>10, <1>11, <1>12, <1>13, <1>14 DEF OInv

\* Dispatch reads a notification, which is the next one while the loop forwards.
LEMMA ReadNoteOrder ==
  ASSUME IInv, OInv, ReadNote
  PROVE  OInv'
<1>1. /\ disp = "idle" /\ wire # <<>> /\ wire' = Tail(wire) /\ wire \in Seq(Messages)
      /\ UNCHANGED <<reqs, call, feed, sent, registered, run, cause, buffer, got>>
      /\ registered => disp' = "deliver" /\ inhand' = Head(wire).n
      /\ ~registered => UNCHANGED <<disp, inhand>>
  BY Numbers DEF ReadNote, callVars, subVars, mainVars
<1>2. Head(wire) = wire[1] /\ 1 \in 1 .. Len(wire) /\ IsNote(wire, 1)
  <2>1. 1 \in 1 .. Len(wire) /\ Head(wire) = wire[1]
    BY <1>1, Places
  <2> QED
    BY <2>1 DEF ReadNote, IsNote
<1>3. Rises(wire, sent)
  BY DEF OInv
<1>4. /\ Rises(wire', sent) /\ wire[1].n <= sent
      /\ \A i \in 1 .. Len(wire') : i + 1 \in 1 .. Len(wire) /\ wire'[i] = wire[i + 1]
      /\ \A last \in Nat : InLine(wire, last) =>
           /\ wire[1].n = last + 1 /\ InLine(wire', last + 1)
           /\ Reaches(wire, sent, last) => Reaches(wire', sent, last + 1)
  <2>1. wire \in Seq(Messages) /\ wire # <<>> /\ wire' = Tail(wire) /\ sent \in Nat
    BY <1>1, Numbers
  <2> QED
    BY <2>1, <1>2, <1>3, HeadRead
<1>5. NotesInOrder' /\ DroppedOnlyWhenFull'
  BY <1>1 DEF OInv, NotesInOrder, DroppedOnlyWhenFull
<1>6. Rises(wire, sent)'
  BY <1>1, <1>4 DEF Rises, IsNote
<1>7. \A p \in 1 .. Len(wire) : ~Granted(wire, p)
  <2>1. ASSUME NEW p \in 1 .. Len(wire), Granted(wire, p) PROVE FALSE
    <3>1. p < 1
      BY <2>1, <1>2 DEF OInv, Starting
    <3> QED
      BY <3>1
  <2> QED
    BY <2>1
<1>8. \A p \in 1 .. Len(wire') : ~Granted(wire', p)
  BY <1>4, <1>7 DEF Granted
<1>9. Asks' /\ Starting'
  BY <1>1, <1>8 DEF OInv, Asks, Asking, Starting, Granted
<1>10. Before' /\ Delivering' /\ Causes'
  BY <1>1, <1>2, <1>4 DEF OInv, Before, Delivering, Causes
<1>11. Forwarding'
  <2> SUFFICES ASSUME run' = "forward" PROVE Forwarding'
    BY DEF Forwarding
  <2>1. /\ run = "forward" /\ registered /\ Follows(Taken)
        /\ \A k \in 1 .. Len(buffer) : buffer[k] = Len(got) + k
    BY <1>1 DEF OInv, Forwarding
  <2>2. Taken' = Taken + 1 /\ Taken \in Nat
    BY <1>1, <2>1, Numbers DEF Taken
  <2>3. /\ wire[1].n = Taken + 1 /\ InLine(wire', Taken + 1)
        /\ feed => Reaches(wire', sent, Taken + 1)
    BY <1>4, <2>1, <2>2 DEF Follows
  <2>4. Follows(Taken)'
    BY <1>1, <2>2, <2>3 DEF Follows, InLine, Reaches, IsNote
  <2> QED
    BY <1>1, <1>2, <2>1, <2>2, <2>3, <2>4 DEF Forwarding
<1> QED
  BY <1>5, <1>6, <1>9, <1>10, <1>11 DEF OInv

\* The loop takes a notification from dispatch into its queue, or ends.
LEMMA DeliverOrder ==
  ASSUME IInv, OInv, Deliver
  PROVE  OInv'
<1>1. /\ disp = "deliver" /\ disp' = "idle"
      /\ UNCHANGED <<wire, reqs, feed, sent, registered, got>>
  BY DEF Deliver, connVars, mainVars
<1>2. call'["subscribe"] = call["subscribe"]
  <2>1. call \in [Ops -> {"idle", "init", "write", "reconnected", "wait", "failed"}]
    BY DEF IInv, TypeOK, CallOK
  <2> QED
    BY <2>1 DEF Deliver, StopForwarding, Ops
<1>3. /\ wire \in Seq(Messages) /\ Len(got) \in Nat /\ buffer \in Seq(1 .. MaxNotes)
      /\ Len(buffer) \in Nat /\ inhand \in 1 .. MaxNotes /\ sent \in Nat
  BY <1>1, Numbers DEF IInv, InHand
<1>4. /\ run # "none" /\ inhand <= sent
      /\ run = "forward" => /\ cause = "none" /\ inhand = Len(got) + Len(buffer) + 1
                            /\ \A k \in 1 .. Len(buffer) : buffer[k] = Len(got) + k
                            /\ Follows(Len(got) + Len(buffer) + 1)
  BY <1>1 DEF OInv, Before, Delivering, Causes, Forwarding, Taken
<1>5. NotesInOrder' /\ Rises(wire, sent)'
  BY <1>1 DEF OInv, NotesInOrder, Rises, IsNote
<1>6. Starting'
  BY <1>1, <1>4 DEF OInv, Starting, Granted
<1>7. CASE run # "forward"
  <2>1. UNCHANGED <<run, cause, buffer>>
    BY <1>7 DEF Deliver
  <2>2. DroppedOnlyWhenFull' /\ Asks' /\ Before' /\ Delivering' /\ Causes' /\ Forwarding'
    BY <1>1, <1>2, <1>4, <1>7, <2>1
       DEF OInv, DroppedOnlyWhenFull, Asks, Asking, Granted, Before, Delivering, Causes, Forwarding
  <2> QED
    BY <1>5, <1>6, <2>2 DEF OInv
<1>8. CASE run' = "unsubscribing" /\ run = "forward"
  <2>1. DroppedOnlyWhenFull'
    <3>1. ASSUME cause' = "overflow" PROVE Len(buffer) = MaxBuffer
      BY <1>8, <3>1 DEF Deliver, StopForwarding
    <3> QED
      BY <3>1, <1>1, <1>3, <1>4, <1>8, RpcConstants DEF DroppedOnlyWhenFull
  <2>2. Asks' /\ Before' /\ Delivering' /\ Causes' /\ Forwarding'
    BY <1>1, <1>2, <1>4, <1>8
       DEF OInv, Asks, Asking, Granted, Before, Delivering, Causes, Forwarding
  <2> QED
    BY <1>5, <1>6, <2>1, <2>2 DEF OInv
<1>9. CASE run = "forward" /\ run' # "unsubscribing"
  <2>1. UNCHANGED <<run, cause>> /\ buffer' = Append(buffer, inhand)
    BY <1>9 DEF Deliver, StopForwarding
  <2>2. DroppedOnlyWhenFull' /\ Asks' /\ Before' /\ Delivering' /\ Causes'
    BY <1>1, <1>2, <1>4, <1>9, <2>1
       DEF OInv, DroppedOnlyWhenFull, Asks, Asking, Granted, Before, Delivering, Causes
  <2>3. /\ Len(buffer') = Len(buffer) + 1 /\ buffer'[Len(buffer) + 1] = inhand
        /\ \A k \in 1 .. Len(buffer) : buffer'[k] = buffer[k]
    BY <1>3, <2>1, Places
  <2>4. \A k \in 1 .. Len(buffer') : buffer'[k] = Len(got) + k
    <3>1. \A k \in 1 .. Len(buffer') : k \in 1 .. Len(buffer) \/ k = Len(buffer) + 1
      BY <1>3, <2>3
    <3>2. inhand = Len(got) + (Len(buffer) + 1)
      BY <1>3, <1>4, <1>9
    <3> QED
      BY <3>1, <3>2, <1>4, <1>9, <2>3
  <2>5. Taken' = Len(got) + Len(buffer) + 1
    BY <1>1, <1>3, <2>3 DEF Taken
  <2>6. Follows(Taken)'
    BY <1>1, <1>4, <1>9, <2>5 DEF Follows, InLine, Reaches, IsNote
  <2>7. Forwarding'
    BY <1>1, <1>9, <2>1, <2>4, <2>6 DEF OInv, Forwarding
  <2> QED
    BY <1>5, <1>6, <2>2, <2>7 DEF OInv
<1> QED
  BY <1>7, <1>8, <1>9

\* main receives the notification at the front of the queue.
LEMMA ReceiveOrder ==
  ASSUME IInv, OInv, Receive
  PROVE  OInv'
<1>1. /\ run = "forward" /\ buffer # <<>> /\ buffer' = Tail(buffer) /\ got' = Append(got, Head(buffer))
      /\ UNCHANGED <<wire, reqs, feed, sent, disp, inhand, registered, run, cause>>
  BY DEF Receive, connVars, dispVars
<1>2. call'["subscribe"] = call["subscribe"]
  <2>1. call \in [Ops -> {"idle", "init", "write", "reconnected", "wait", "failed"}]
    BY DEF IInv, TypeOK, CallOK
  <2> QED
    BY <2>1 DEF Receive, Ops
<1>3. /\ Len(got') = Len(got) + 1 /\ got'[Len(got) + 1] = buffer[1]
      /\ \A k \in 1 .. Len(got) : got'[k] = got[k]
      /\ Len(buffer') = Len(buffer) - 1 /\ Len(buffer) \in Nat \ {0} /\ Len(got) \in Nat
      /\ \A k \in 1 .. Len(buffer) - 1 : buffer'[k] = buffer[k + 1]
  <2>1. got \in Seq(1 .. MaxNotes) /\ buffer \in Seq(1 .. MaxNotes)
    BY Numbers
  <2>2. /\ Len(buffer') = Len(buffer) - 1 /\ Len(buffer) \in Nat \ {0} /\ Head(buffer) = buffer[1]
        /\ \A k \in 1 .. Len(buffer) - 1 : buffer'[k] = buffer[k + 1]
    BY <1>1, <2>1, Places
  <2>3. Head(buffer) \in 1 .. MaxNotes
    BY <1>1, <2>1, SeqFacts
  <2> QED
    BY <1>1, <2>1, <2>2, <2>3, Places
<1>4. /\ cause = "none" /\ \A k \in 1 .. Len(buffer) : buffer[k] = Len(got) + k
      /\ Follows(Taken) /\ (disp = "deliver" => inhand = Taken)
      /\ registered \/ disp \in {"close", "swap"}
  BY <1>1 DEF OInv, Causes, Forwarding
<1>5. NotesInOrder'
  <2>1. \A k \in 1 .. Len(got') : k \in 1 .. Len(got) \/ k = Len(got) + 1
    BY <1>3
  <2>2. buffer[1] = Len(got) + 1
    BY <1>3, <1>4
  <2> QED
    BY <1>3, <2>1, <2>2 DEF OInv, NotesInOrder
<1>6. Rises(wire, sent)' /\ DroppedOnlyWhenFull'
  BY <1>1, <1>4 DEF OInv, Rises, IsNote, DroppedOnlyWhenFull
<1>7. Asks' /\ Starting' /\ Before' /\ Delivering' /\ Causes'
  BY <1>1, <1>2, <1>4 DEF OInv, Asks, Asking, Granted, Starting, Before, Delivering, Causes
<1>8. Forwarding'
  <2>1. Taken' = Taken
    BY <1>1, <1>3 DEF Taken
  <2>2. \A k \in 1 .. Len(buffer') : buffer'[k] = Len(got') + k
    BY <1>3, <1>4
  <2>3. Follows(Taken)'
    BY <1>1, <1>4, <2>1 DEF Follows, InLine, Reaches, IsNote
  <2> QED
    BY <1>1, <1>4, <2>1, <2>2, <2>3 DEF Forwarding
<1> QED
  BY <1>5, <1>6, <1>7, <1>8 DEF OInv

\* Every step keeps the order.
LEMMA StepOInv == IInv /\ OInv /\ [Next]_vars => OInv'
<1> SUFFICES ASSUME IInv, OInv, [Next]_vars PROVE OInv'
  OBVIOUS
<1>1. CASE Notify \/ Node \/ Break
  BY <1>1, NotifyOrder, AnswerOrder, BreakOrder DEF Node
<1>2. ASSUME NEW op \in Ops, Sender(op) PROVE OInv'
  BY <1>2, SenderOrder
<1>3. CASE Requests
  BY <1>3, SenderOrder, OverOrder DEF Requests
<1>4. CASE Reads
  BY <1>4, ReadResponseOrder, ReadNoteOrder, OverOrder DEF Reads
<1>5. CASE Reconnected
  BY <1>5, OverOrder, InstallOrder
<1>6. CASE Deliver \/ CloseConn \/ SwapConn
  BY <1>6, DeliverOrder, OverOrder, InstallOrder
<1>7. CASE Forward \/ Main
  BY <1>7, OverOrder, ReceiveOrder DEF Main
<1>8. CASE UNCHANGED vars
  BY <1>8, OverOrder
<1> QED
  BY <1>1, <1>2, <1>3, <1>4, <1>5, <1>6, <1>7, <1>8 DEF Next, Dispatch

\* The order of the notifications is kept in every reachable state.
THEOREM Ordered == Spec => []OInv
BY Inductive, InitOInv, StepOInv, PTL DEF Spec

\* main receives the notifications 1, 2, 3, ... without a gap.
THEOREM ReceivedInOrder == Spec => []NotesInOrder
<1>1. OInv => NotesInOrder
  BY DEF OInv
<1> QED
  BY <1>1, Ordered, PTL

\* A subscriber is dropped for being slow only when MaxBuffer notifications wait
\* for it and one more came.
THEOREM DroppedWhenFull == Spec => []DroppedOnlyWhenFull
<1>1. OInv => DroppedOnlyWhenFull
  BY DEF OInv
<1> QED
  BY <1>1, Ordered, PTL
===============================================================================
