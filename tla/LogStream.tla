------------------------------ MODULE LogStream -------------------------------
(***************************************************************************)
(* What an event iterator of the contract bindings promises its reader:    *)
(* the logs the node answered, one at a time and in the order of the       *)
(* answer, until all of them were handed out, one of them could not be     *)
(* parsed, or the iterator was closed.  Nothing follows a failure or the   *)
(* end.  How logs travel from the node's answer to the reader is not said. *)
(***************************************************************************)
EXTENDS Naturals, Sequences

CONSTANT Answers    \* the answers of the node: sequences of logs

VARIABLES
  buff,             \* the answer of this iteration
  out,              \* the events handed out
  status,           \* "open", "ended" or "failed"
  closing           \* somebody called Close

Init ==
  /\ buff \in Answers
  /\ out = <<>>
  /\ status = "open"
  /\ closing = FALSE

\* The reader is given the next event.
Deliver ==
  /\ status = "open" /\ Len(out) < Len(buff)
  /\ out' = Append(out, buff[Len(out) + 1])
  /\ UNCHANGED <<buff, status, closing>>

\* The next log is rejected: the reader is told to stop and to look at Error().
Fail ==
  /\ status = "open" /\ Len(out) < Len(buff)
  /\ status' = "failed"
  /\ UNCHANGED <<buff, out, closing>>

\* The reader is told that there are no more events.
End ==
  /\ status = "open" /\ (Len(out) = Len(buff) \/ closing)
  /\ status' = "ended"
  /\ UNCHANGED <<buff, out, closing>>

Close ==
  /\ closing' = TRUE
  /\ UNCHANGED <<buff, out, status>>

Next == Deliver \/ Fail \/ End \/ Close

vars == <<buff, out, status, closing>>

Spec == Init /\ [][Next]_vars
===============================================================================
