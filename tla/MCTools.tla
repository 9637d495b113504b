-------------------------------- MODULE MCTools --------------------------------
(***************************************************************************)
(* A small instance of Tools for TLC: amounts around the halves of the     *)
(* precision, limits around half the width, short addresses, and files of  *)
(* up to two lines with or without a newline at their end.                 *)
(***************************************************************************)
EXTENDS Tools

CONSTANTS a1, a2

SomeWei == -160..160
SomeAmounts == [num : -15..15, exp : 0..2]
SomeTexts == [prefix : BOOLEAN, chars : UNION {[1..n -> Chars] : n \in 0..5}]
SomeFiles == [lines : {<<>>, <<a1>>, <<a1, a2>>, <<a1, None>>}, rest : {None, a2}]
===============================================================================
