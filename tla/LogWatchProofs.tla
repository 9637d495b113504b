---------------------------- MODULE LogWatchProofs -----------------------------
(***************************************************************************)
(* Proofs about LogWatch, for any number of goroutines that unsubscribe,   *)
(* queues of any size and any number of logs.                              *)
(*                                                                         *)
(* The inductive invariant has two parts.  InPlace says where every log    *)
(* is: while the watcher listens, the events received, the one in its      *)
(* hand, the channel and the forwarding loop's queue are, in this order,   *)
(* consecutive logs.  Endings says who may have ended the subscription,    *)
(* and that the reason travels with it from goroutine to goroutine.        *)
(***************************************************************************)
EXTENDS LogWatch, TLAPS

\* The logs the watcher has taken from the channel.
Taken == Len(got) + (IF watcher = "sink" THEN 1 ELSE 0)

InPlace ==
  /\ watcher = "sink" => event = Taken
  /\ Listening => \A k \in 1 .. Len(logs) : logs[k] = Taken + k
  /\ Listening => \A k \in 1 .. Len(buffer) : buffer[k] = Taken + Len(logs) + k
  /\ Listening /\ run = "forward" => sent = Taken + Len(logs) + Len(buffer)

Marked == watcher \in {"marked", "closed"}

Endings ==
  /\ run = "forward" => cause = "none"
  /\ subErr # "none" => subErr = cause /\ run = "done"
  /\ unsub => unsubscribed
  /\ unsubscribed => unsub \/ Marked
  /\ Marked => unsubscribed /\ run = "done"
  /\ ~Listening => result # "none" \/ unsub \/ cause = "quit"
  /\ Marked /\ seen = "none" => err # "none" \/ unsub \/ cause = "quit"
  /\ unsub => watcher = "closed" \/ \E c \in Closers : closer[c] = "waiting"
  /\ result \in {"none", "unpack", cause} /\ err \in {"none", "unpack", cause}

IInv == TypeOK /\ EventsInOrder /\ InPlace /\ Endings /\ ReasonGiven

\* The head of a queue and the rest of it, index by index.
LEMMA HeadAndTail ==
  ASSUME NEW S, NEW q \in Seq(S), q # <<>>
  PROVE  /\ Head(q) \in S /\ Head(q) = q[1]
         /\ Tail(q) \in Seq(S) /\ Len(Tail(q)) = Len(q) - 1
         /\ Len(q) \in Nat /\ Len(q) >= 1
         /\ \A k \in 1 .. Len(Tail(q)) : Tail(q)[k] = q[k + 1]
  OBVIOUS

\* An element appended to a queue, index by index.
LEMMA Appended ==
  ASSUME NEW S, NEW q \in Seq(S), NEW x \in S
  PROVE  /\ Append(q, x) \in Seq(S) /\ Len(Append(q, x)) = Len(q) + 1
         /\ Len(q) \in Nat
         /\ \A k \in 1 .. Len(q) : Append(q, x)[k] = q[k]
         /\ Append(q, x)[Len(q) + 1] = x
  OBVIOUS

\* The initial states satisfy the inductive invariant.
LEMMA InitIInv == Init => IInv
<1> SUFFICES ASSUME Init PROVE IInv
  OBVIOUS
<1>1. <<>> \in Seq(1 .. MaxLogs) /\ Len(<<>>) = 0
  OBVIOUS
<1>2. closer \in [Closers -> {"idle", "waiting", "returned"}]
  BY DEF Init
<1>3. sent \in 0 .. MaxLogs /\ event \in 0 .. MaxLogs
  BY WatchConstants DEF Init
<1>4. Len(buffer) <= MaxBuffer /\ Len(logs) <= Capacity
  BY <1>1, WatchConstants DEF Init
<1>7. buffer \in Seq(1 .. MaxLogs) /\ logs \in Seq(1 .. MaxLogs) /\ got \in Seq(1 .. MaxLogs)
  BY <1>1 DEF Init
<1>8. TypeOK
  BY <1>2, <1>3, <1>4, <1>7 DEF Init, TypeOK
<1>5. EventsInOrder /\ InPlace
  BY <1>1 DEF Init, EventsInOrder, InPlace, Taken, Listening
<1>6. Endings /\ ReasonGiven
  BY DEF Init, Endings, Marked, Listening, ReasonGiven
<1> QED
  BY <1>5, <1>6, <1>8 DEF IInv

\* The types of the forwarding goroutine and of the channel.
ForwardOK ==
  /\ sent \in 0 .. MaxLogs /\ run \in {"forward", "unsubscribing", "report", "done"}
  /\ cause \in Reasons \cup {"none"} /\ subErr \in Reasons \cup {"none"}
  /\ buffer \in Seq(1 .. MaxLogs) /\ Len(buffer) <= MaxBuffer
  /\ logs \in Seq(1 .. MaxLogs) /\ Len(logs) <= Capacity

\* The types of the watcher, its subscription and the user.
WatcherOK ==
  /\ watcher \in {"select", "sink", "unsubscribe", "wait", "marked", "closed"}
  /\ event \in 0 .. MaxLogs /\ result \in Reasons \cup {"none"}
  /\ unsub \in BOOLEAN /\ unsubscribed \in BOOLEAN /\ err \in Reasons \cup {"none"}
  /\ closer \in [Closers -> {"idle", "waiting", "returned"}]
  /\ got \in Seq(1 .. MaxLogs) /\ seen \in Reasons \cup {"none", "closed"}

\* The two halves are the whole.
LEMMA TypeHalves == TypeOK <=> ForwardOK /\ WatcherOK
  BY DEF TypeOK, ForwardOK, WatcherOK

\* Every step keeps the types of the forwarding goroutine.
LEMMA ForwardTypes ==
  ASSUME ForwardOK, WatcherOK, [Next]_vars
  PROVE  ForwardOK'
<1> USE DEF ForwardOK
<1>0. /\ Len(buffer) \in Nat /\ Len(logs) \in Nat
      /\ MaxBuffer \in Nat /\ Capacity \in Nat /\ MaxLogs \in Nat /\ sent \in Nat
  BY WatchConstants
<1>1. CASE ForwardLog
  <2>1. sent + 1 \in 1 .. MaxLogs /\ sent' \in 0 .. MaxLogs
    BY <1>0, <1>1 DEF ForwardLog
  <2>2. cause' \in Reasons \cup {"none"} /\ run' \in {"forward", "unsubscribing"}
    BY <1>1 DEF ForwardLog, Reasons
  <2>3. \/ buffer' = buffer
        \/ Len(buffer) < MaxBuffer /\ buffer' = Append(buffer, sent + 1)
    BY <1>1 DEF ForwardLog
  <2>4. buffer' \in Seq(1 .. MaxLogs) /\ Len(buffer') <= MaxBuffer
    <3>1. CASE buffer' = buffer
      BY <3>1
    <3>2. CASE Len(buffer) < MaxBuffer /\ buffer' = Append(buffer, sent + 1)
      <4>1. Append(buffer, sent + 1) \in Seq(1 .. MaxLogs)
            /\ Len(Append(buffer, sent + 1)) = Len(buffer) + 1
        BY <2>1, Appended
      <4> QED
        BY <1>0, <3>2, <4>1
    <3> QED
      BY <2>3, <3>1, <3>2
  <2> QED
    BY <1>1, <2>1, <2>2, <2>4 DEF ForwardLog
<1>2. CASE ForwardSend
  <2>1. buffer # <<>> /\ Len(logs) < Capacity
        /\ logs' = Append(logs, Head(buffer)) /\ buffer' = Tail(buffer)
    BY <1>2 DEF ForwardSend
  <2>2. Head(buffer) \in 1 .. MaxLogs /\ buffer' \in Seq(1 .. MaxLogs)
        /\ Len(buffer') <= MaxBuffer
    BY <1>0, <2>1, HeadAndTail
  <2>3. logs' \in Seq(1 .. MaxLogs) /\ Len(logs') <= Capacity
    BY <1>0, <2>1, <2>2, Appended
  <2> QED
    BY <1>2, <2>2, <2>3 DEF ForwardSend
<1>3. CASE ForwardLost
  BY <1>3 DEF ForwardLost, Reasons
<1>4. CASE Forward
  BY <1>4 DEF Forward, Unsubscribed, Report
<1>5. CASE WatchLog
  <2>1. logs # <<>> /\ logs' = Tail(logs) /\ UNCHANGED forwardVars
    BY <1>5 DEF WatchLog
  <2>2. logs' \in Seq(1 .. MaxLogs) /\ Len(logs') <= Capacity
    BY <1>0, <2>1, HeadAndTail
  <2> QED
    BY <2>1, <2>2 DEF forwardVars
<1>6. CASE WatchErr
  BY <1>6 DEF WatchErr
<1>7. CASE ForwardQuit
  BY <1>7 DEF ForwardQuit
<1>8. CASE UNCHANGED <<forwardVars, logs>>
  BY <1>8 DEF forwardVars
<1>9. WatchQuit \/ WatchReturn \/ WatchClose \/ WatchSink \/ UserErr => UNCHANGED <<forwardVars, logs>>
  BY DEF WatchQuit, WatchReturn, WatchClose, WatchSink, UserErr
<1>10. ASSUME NEW c \in Closers, Unsubscribe(c) \/ UnsubscribeReturns(c)
       PROVE  UNCHANGED <<forwardVars, logs>>
  BY <1>10 DEF Unsubscribe, UnsubscribeReturns
<1>11. UNCHANGED vars => UNCHANGED <<forwardVars, logs>>
  BY DEF vars
<1> QED
  BY <1>1, <1>2, <1>3, <1>4, <1>5, <1>6, <1>7, <1>8, <1>9, <1>10, <1>11 DEF Next, Watcher

\* Every step keeps the types of the watcher, its subscription and the user.
LEMMA WatcherTypes ==
  ASSUME ForwardOK, WatcherOK, InPlace, [Next]_vars
  PROVE  WatcherOK'
<1> USE DEF WatcherOK
<1>1. CASE WatchLog
  <2>1. Head(logs) \in 1 .. MaxLogs
    BY <1>1, HeadAndTail DEF WatchLog, ForwardOK
  <2>2. event' \in 0 .. MaxLogs /\ result' \in Reasons \cup {"none"}
        /\ watcher' \in {"unsubscribe", "sink"}
    BY <1>1, <2>1 DEF WatchLog, Leave, Reasons
  <2> QED
    BY <1>1, <2>2 DEF WatchLog, subVars, userVars
<1>2. CASE WatchSink
  <2>1. got' = Append(got, event) /\ event' = 0 /\ watcher' = "select" /\ watcher = "sink"
    BY <1>2 DEF WatchSink
  <2>2. event = Len(got) + 1 /\ Len(got) \in Nat
    BY <2>1 DEF InPlace, Taken
  <2>3. event \in 1 .. MaxLogs /\ event' \in 0 .. MaxLogs
    BY <2>1, <2>2, WatchConstants
  <2>4. got' \in Seq(1 .. MaxLogs)
    BY <2>1, <2>3, Appended
  <2> QED
    BY <1>2, <2>1, <2>3, <2>4 DEF WatchSink, subVars
<1>3. CASE WatchErr
  <2>1. result' \in Reasons \cup {"none"} /\ watcher' = "unsubscribe"
    BY <1>3 DEF WatchErr, Leave, ForwardOK
  <2> QED
    BY <1>3, <2>1 DEF WatchErr, subVars, userVars
<1>4. CASE WatchQuit
  BY <1>4 DEF WatchQuit, Leave, subVars, userVars
<1>5. CASE ForwardQuit
  BY <1>5 DEF ForwardQuit, subVars, userVars
<1>6. CASE WatchReturn
  BY <1>6 DEF WatchReturn, userVars
<1>7. CASE WatchClose
  BY <1>7 DEF WatchClose, subVars, userVars
<1>8. ASSUME NEW c \in Closers, Unsubscribe(c)
      PROVE  WatcherOK'
  <2>1. closer' \in [Closers -> {"idle", "waiting", "returned"}]
    BY <1>8 DEF Unsubscribe
  <2>2. unsub' \in BOOLEAN /\ unsubscribed' \in BOOLEAN
    BY <1>8 DEF Unsubscribe
  <2> QED
    BY <1>8, <2>1, <2>2 DEF Unsubscribe, watchVars, userVars
<1>9. ASSUME NEW c \in Closers, UnsubscribeReturns(c)
      PROVE  WatcherOK'
  <2>1. closer' \in [Closers -> {"idle", "waiting", "returned"}]
    BY <1>9 DEF UnsubscribeReturns
  <2> QED
    BY <1>9, <2>1 DEF UnsubscribeReturns, watchVars, userVars
<1>10. CASE UserErr
  BY <1>10 DEF UserErr, watchVars
<1>11. CASE UNCHANGED <<watchVars, subVars, userVars>>
  BY <1>11 DEF watchVars, subVars, userVars
<1>12. ForwardLog \/ ForwardSend \/ ForwardLost \/ Forward \/ UNCHANGED vars
         => UNCHANGED <<watchVars, subVars, userVars>>
  BY DEF ForwardLog, ForwardSend, ForwardLost, Forward, Unsubscribed, Report, vars
<1> QED
  BY <1>1, <1>2, <1>3, <1>4, <1>5, <1>6, <1>7, <1>8, <1>9, <1>10, <1>11, <1>12 DEF Next, Watcher

\* Every step keeps what Endings says of how a subscription ends.
LEMMA EndingsKept ==
  ASSUME ForwardOK, WatcherOK, Endings, ReasonGiven, [Next]_vars
  PROVE  Endings' /\ ReasonGiven'
<1> USE DEF Endings, ReasonGiven, Marked, Listening
<1>1. CASE ForwardLog \/ ForwardLost
  BY <1>1 DEF ForwardLog, ForwardLost, watchVars, subVars, userVars
<1>2. CASE ForwardSend \/ Unsubscribed \/ Report
  BY <1>2 DEF ForwardSend, Unsubscribed, Report, watchVars, subVars, userVars
<1>3. CASE WatchLog
  BY <1>3 DEF WatchLog, Leave, forwardVars, subVars, userVars
<1>4. CASE WatchErr
  BY <1>4 DEF WatchErr, Leave, subVars, userVars
<1>5. CASE WatchQuit \/ ForwardQuit
  BY <1>5 DEF WatchQuit, ForwardQuit, Leave, forwardVars, subVars, userVars
<1>6. CASE WatchSink
  BY <1>6 DEF WatchSink, forwardVars, subVars
<1>7. CASE WatchReturn
  BY <1>7 DEF WatchReturn, forwardVars, userVars, WatcherOK
<1>8. CASE WatchClose
  BY <1>8 DEF WatchClose, forwardVars, subVars, userVars
<1>9. ASSUME NEW c \in Closers, Unsubscribe(c)
      PROVE  Endings' /\ ReasonGiven'
  <2>1. unsub' => watcher' = "closed" \/ \E b \in Closers : closer'[b] = "waiting"
    BY <1>9 DEF Unsubscribe, watchVars, WatcherOK
  <2> QED
    BY <1>9, <2>1 DEF Unsubscribe, forwardVars, watchVars, userVars, WatcherOK
<1>10. ASSUME NEW c \in Closers, UnsubscribeReturns(c)
       PROVE  Endings' /\ ReasonGiven'
  BY <1>10 DEF UnsubscribeReturns, forwardVars, watchVars, userVars
<1>11. CASE UserErr
  <2>1. seen' = "closed" => err = "none" /\ watcher = "closed"
    BY <1>11 DEF UserErr, WatcherOK, Reasons
  <2>2. seen' # "none"
    BY <1>11 DEF UserErr
  <2> QED
    BY <1>11, <2>1, <2>2 DEF UserErr, forwardVars, watchVars
<1>12. CASE UNCHANGED vars
  BY <1>12 DEF vars, forwardVars, watchVars, subVars, userVars
<1> QED
  BY <1>1, <1>2, <1>3, <1>4, <1>5, <1>6, <1>7, <1>8, <1>9, <1>10, <1>11, <1>12
  DEF Next, Watcher, Forward

\* Every step keeps the place of every log.
LEMMA InPlaceKept ==
  ASSUME TypeOK, EventsInOrder, InPlace, [Next]_vars
  PROVE  EventsInOrder' /\ InPlace'
<1> USE DEF EventsInOrder, InPlace, Listening
<1>0. /\ buffer \in Seq(1 .. MaxLogs) /\ logs \in Seq(1 .. MaxLogs) /\ got \in Seq(1 .. MaxLogs)
      /\ Len(buffer) \in Nat /\ Len(logs) \in Nat /\ Len(got) \in Nat
      /\ sent \in Nat /\ MaxLogs \in Nat /\ Taken \in Nat
  BY WatchConstants DEF TypeOK, Taken
<1>1. CASE ForwardLog
  <2>1. UNCHANGED <<logs, watcher, event, got>> /\ run = "forward" /\ sent' = sent + 1
        /\ sent + 1 \in 1 .. MaxLogs
    BY <1>0, <1>1 DEF ForwardLog, watchVars, userVars
  <2>4. Taken' = Taken /\ Listening' = Listening
    BY <2>1 DEF Taken
  <2>2. CASE buffer' = buffer /\ run' # "forward"
    BY <2>1, <2>2, <2>4
  <2>3. CASE buffer' = Append(buffer, sent + 1)
    <3>1. /\ Len(buffer') = Len(buffer) + 1
          /\ \A k \in 1 .. Len(buffer) : buffer'[k] = buffer[k]
          /\ buffer'[Len(buffer) + 1] = sent + 1
      BY <1>0, <2>1, <2>3, Appended
    <3>4. Listening => sent = Taken + Len(logs) + Len(buffer)
      BY <2>1
    <3>2. Listening => sent' = Taken + Len(logs) + Len(buffer')
      <4> HIDE DEF InPlace, EventsInOrder
      <4> QED
        BY <1>0, <2>1, <3>1, <3>4
    <3>3. ASSUME Listening, NEW k \in 1 .. Len(buffer')
          PROVE  buffer'[k] = Taken + Len(logs) + k
      <4>1. CASE k \in 1 .. Len(buffer)
        BY <3>1, <3>3, <4>1
      <4>2. CASE k = Len(buffer) + 1
        <5>1. buffer'[k] = sent + 1
          BY <3>1, <4>2
        <5>2. sent = Taken + Len(logs) + Len(buffer)
          BY <3>3, <3>4
        <5> HIDE DEF InPlace, EventsInOrder
        <5> QED
          BY <1>0, <4>2, <5>1, <5>2
      <4> QED
        BY <1>0, <3>1, <4>1, <4>2
    <3> QED
      BY <2>1, <2>4, <3>2, <3>3
  <2> QED
    BY <1>1, <2>2, <2>3 DEF ForwardLog
<1>2. CASE ForwardSend
  <2>1. /\ UNCHANGED <<sent, run, watcher, event, got>> /\ buffer # <<>>
        /\ logs' = Append(logs, Head(buffer)) /\ buffer' = Tail(buffer)
    BY <1>2 DEF ForwardSend, watchVars, userVars
  <2>2. /\ Head(buffer) \in 1 .. MaxLogs /\ Head(buffer) = buffer[1] /\ Len(buffer) >= 1
        /\ Len(buffer') = Len(buffer) - 1
        /\ \A k \in 1 .. Len(buffer') : buffer'[k] = buffer[k + 1]
    BY <1>0, <2>1, HeadAndTail
  <2>3. /\ Len(logs') = Len(logs) + 1
        /\ \A k \in 1 .. Len(logs) : logs'[k] = logs[k]
        /\ logs'[Len(logs) + 1] = Head(buffer)
    BY <1>0, <2>1, <2>2, Appended
  <2>4. ASSUME Listening, NEW k \in 1 .. Len(logs')
        PROVE  logs'[k] = Taken + k
    <3>1. CASE k \in 1 .. Len(logs)
      BY <2>3, <2>4, <3>1
    <3>2. CASE k = Len(logs) + 1
      <4>1. buffer[1] = Taken + Len(logs) + 1
        BY <1>0, <2>2, <2>4
      <4> QED
        BY <1>0, <2>2, <2>3, <3>2, <4>1
    <3> QED
      BY <1>0, <2>3, <3>1, <3>2
  <2>5. ASSUME Listening, NEW k \in 1 .. Len(buffer')
        PROVE  buffer'[k] = Taken + Len(logs') + k
    <3>1. k + 1 \in 1 .. Len(buffer)
      BY <1>0, <2>2
    <3>2. buffer[k + 1] = Taken + Len(logs) + (k + 1)
      BY <2>5, <3>1
    <3> QED
      BY <1>0, <2>2, <2>3, <3>2
  <2>6. Listening /\ run = "forward" => sent = Taken + Len(logs') + Len(buffer')
    BY <1>0, <2>2, <2>3
  <2>7. Taken' = Taken /\ Listening' = Listening
    BY <2>1 DEF Taken
  <2> QED
    BY <2>1, <2>4, <2>5, <2>6, <2>7
<1>3. CASE ForwardLost \/ Forward \/ UserErr \/ UNCHANGED vars
  <2>1. UNCHANGED <<sent, buffer, logs, watcher, event, got>> /\ (run' = "forward" => run = "forward")
    BY <1>3 DEF ForwardLost, Forward, Unsubscribed, Report, UserErr, vars, forwardVars, watchVars, userVars
  <2>2. Taken' = Taken
    BY <2>1 DEF Taken
  <2> QED
    BY <2>1, <2>2
<1>4. CASE WatchLog
  <2>1. /\ UNCHANGED <<sent, run, buffer, got>> /\ watcher = "select" /\ logs # <<>> /\ logs' = Tail(logs)
        /\ \/ watcher' = "unsubscribe"
           \/ watcher' = "sink" /\ event' = Head(logs)
    BY <1>4 DEF WatchLog, Leave, forwardVars, userVars
  <2>2. /\ Head(logs) = logs[1] /\ Len(logs) >= 1 /\ Len(logs') = Len(logs) - 1
        /\ \A k \in 1 .. Len(logs') : logs'[k] = logs[k + 1]
    BY <1>0, <2>1, HeadAndTail
  <2>3. CASE watcher' = "unsubscribe"
    BY <2>1, <2>3
  <2>4. CASE watcher' = "sink" /\ event' = Head(logs)
    <3>1. Taken' = Taken + 1 /\ Taken' = Len(got) + 1
      BY <1>0, <2>1, <2>4 DEF Taken
    <3>2. event' = Taken'
      <4>1. logs[1] = Taken + 1
        BY <2>1, <2>2
      <4> QED
        BY <2>2, <2>4, <3>1, <4>1
    <3>3. ASSUME NEW k \in 1 .. Len(logs') PROVE logs'[k] = Taken' + k
      <4>1. k + 1 \in 1 .. Len(logs)
        BY <1>0, <2>2
      <4>2. logs[k + 1] = Taken + (k + 1)
        BY <2>1, <4>1
      <4> QED
        BY <1>0, <2>2, <3>1, <4>2
    <3>4. ASSUME NEW k \in 1 .. Len(buffer') PROVE buffer'[k] = Taken' + Len(logs') + k
      <4>1. buffer[k] = Taken + Len(logs) + k
        BY <2>1
      <4> QED
        BY <1>0, <2>1, <2>2, <3>1, <4>1
    <3>5. run' = "forward" => sent' = Taken' + Len(logs') + Len(buffer')
      BY <1>0, <2>1, <2>2, <3>1
    <3> QED
      BY <2>1, <3>2, <3>3, <3>4, <3>5
  <2> QED
    BY <2>1, <2>3, <2>4
<1>5. CASE WatchSink
  <2>1. /\ UNCHANGED <<sent, run, buffer, logs>> /\ watcher = "sink"
        /\ watcher' = "select" /\ got' = Append(got, event)
    BY <1>5 DEF WatchSink, forwardVars
  <2>2. event = Len(got) + 1 /\ event \in Nat
    BY <1>0, <2>1 DEF Taken
  <2>3. /\ Len(got') = Len(got) + 1
        /\ \A k \in 1 .. Len(got) : got'[k] = got[k]
        /\ got'[Len(got) + 1] = event
    BY <1>0, <2>1, <2>2, Appended
  <2>4. EventsInOrder'
    <3> SUFFICES ASSUME NEW k \in 1 .. Len(got') PROVE got'[k] = k
      OBVIOUS
    <3>1. CASE k \in 1 .. Len(got)
      BY <2>3, <3>1
    <3>2. CASE k = Len(got) + 1
      BY <2>2, <2>3, <3>2
    <3> QED
      BY <1>0, <2>3, <3>1, <3>2
  <2>5. Taken' = Taken
    BY <1>0, <2>1, <2>3 DEF Taken
  <2> QED
    BY <2>1, <2>4, <2>5
<1>6. CASE WatchErr \/ WatchQuit \/ WatchReturn \/ ForwardQuit \/ WatchClose
  <2>1. got' = got /\ watcher' \notin {"select", "sink"}
    BY <1>6 DEF WatchErr, WatchQuit, WatchReturn, ForwardQuit, WatchClose, Leave, userVars
  <2> QED
    BY <2>1
<1>7. ASSUME NEW c \in Closers, Unsubscribe(c) \/ UnsubscribeReturns(c)
      PROVE  EventsInOrder' /\ InPlace'
  <2>1. UNCHANGED <<sent, run, buffer, logs, watcher, event, got>>
    BY <1>7 DEF Unsubscribe, UnsubscribeReturns, forwardVars, watchVars, userVars
  <2>2. Taken' = Taken
    BY <2>1 DEF Taken
  <2> QED
    BY <2>1, <2>2
<1> QED
  BY <1>1, <1>2, <1>3, <1>4, <1>5, <1>6, <1>7 DEF Next, Watcher

\* IInv is an invariant.
THEOREM Inductive == Spec => []IInv
<1>1. IInv /\ [Next]_vars => IInv'
  <2> SUFFICES ASSUME IInv, [Next]_vars PROVE IInv'
    OBVIOUS
  <2>1. ForwardOK /\ WatcherOK
    BY TypeHalves DEF IInv
  <2>2. ForwardOK' /\ WatcherOK'
    BY <2>1, ForwardTypes, WatcherTypes DEF IInv
  <2>3. TypeOK'
    BY <2>2 DEF TypeOK, ForwardOK, WatcherOK
  <2>4. Endings' /\ ReasonGiven'
    BY <2>1, EndingsKept DEF IInv
  <2>5. EventsInOrder' /\ InPlace'
    BY InPlaceKept DEF IInv
  <2> QED
    BY <2>3, <2>4, <2>5 DEF IInv
<1> QED
  BY <1>1, InitIInv, PTL DEF Spec

\* The types of the watcher and its goroutines; no queue exceeds its bound.
THEOREM WatchTypes == Spec => []TypeOK
<1>1. IInv => TypeOK
  BY DEF IInv
<1> QED
  BY <1>1, Inductive, PTL

\* The user receives the events in the order of the node and without a gap.
THEOREM InOrder == Spec => []EventsInOrder
<1>1. IInv => EventsInOrder
  BY DEF IInv
<1> QED
  BY <1>1, Inductive, PTL

\* The Unsubscribe that closed unsub returns only when both goroutines are gone.
THEOREM Released == Spec => []UnsubscribeReleases
<1>1. IInv => UnsubscribeReleases
  BY DEF IInv, Endings, Marked, UnsubscribeReleases
<1> QED
  BY <1>1, Inductive, PTL

\* The error a user reads is what ended the watcher, and nothing but a closed client
\* or an Unsubscribe called before the watcher marked its end hides it.
THEOREM SaysWhy == Spec => []ReasonGiven
<1>1. IInv => ReasonGiven
  BY DEF IInv
<1> QED
  BY <1>1, Inductive, PTL
===============================================================================
