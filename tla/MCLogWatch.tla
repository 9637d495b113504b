------------------------------ MODULE MCLogWatch ------------------------------
(***************************************************************************)
(* A small instance of LogWatch for TLC: two goroutines that may           *)
(* unsubscribe, and queues shorter than what the node sends.               *)
(***************************************************************************)
EXTENDS LogWatch

CONSTANTS c1, c2
===============================================================================
