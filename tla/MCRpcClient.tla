----------------------------- MODULE MCRpcClient ------------------------------
(***************************************************************************)
(* Small instances of RpcClient for TLC; the configurations say which      *)
(* program runs, how many notifications come and whether a connection      *)
(* breaks.                                                                 *)
(***************************************************************************)
EXTENDS RpcClient, TLC
===============================================================================
