---------------------------- MODULE MCLogIterator -----------------------------
(***************************************************************************)
(* Small instances of LogIterator for TLC: answers of up to three logs, a  *)
(* channel smaller than the longest answer, two goroutines that may close. *)
(***************************************************************************)
EXTENDS LogIterator, TLC

CONSTANTS l1, l2, l3, c1, c2

UpToThree == {<<>>, <<l1>>, <<l2, l1>>, <<l1, l2, l3>>}
LastBroken == {l3}
MiddleBroken == {l2}
===============================================================================
