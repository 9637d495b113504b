------------------------------ MODULE MCEventRead ------------------------------
(***************************************************************************)
(* A small instance of EventRead for TLC: for every program, the events it *)
(* knows, look-alikes with other fields indexed, an event it does not know *)
(* and an anonymous log; three transactions, one of which creates.         *)
(***************************************************************************)
EXTENDS EventRead, TLC

CONSTANTS star, other

L(a, s, t, w) == [addr |-> a, sig |-> s, topics |-> t, words |-> w]

\* The second is that of event_read_erc20.go:42, with its numbers made small.
UpAndDown == {<<1, 2>>, <<2, 1>>}

Emitted == [
  event_read |-> {L(star, "ItemSet", 1, 2), L(star, "ItemSet", 2, 1), L(star, "Transfer", 3, 1)},
  event_read_erc20 |->
    {L(star, "Transfer", 3, 1), L(star, "Approval", 3, 1), L(star, "Transfer", 4, 0),
     L(star, "Transfer", 1, 3), L(star, "Swap", 3, 4), L(star, None, 0, 1),
     L(other, "Transfer", 3, 1)},
  event_read_0xprotocol |->
    {L(star, "LogFill", 4, 8), L(star, "LogCancel", 4, 5), L(star, "LogError", 3, 0),
     L(star, "LogError", 1, 2), L(star, "LogFill", 1, 11), L(star, "Transfer", 3, 1)},
  event_read_by_transaction |->
    {L(star, "Transfer", 3, 1), L(star, "Approval", 4, 0), L(other, "Approval", 3, 1),
     L(star, None, 0, 0)},
  transactions |-> [id : {1, 2}, creates : {FALSE}] \cup {[id |-> 3, creates |-> TRUE]}]
===============================================================================
