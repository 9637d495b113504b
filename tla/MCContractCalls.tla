---------------------------- MODULE MCContractCalls ----------------------------
(***************************************************************************)
(* Small instances of ContractCalls for TLC: texts shorter and longer than *)
(* the array they are read into, programs of one key.                      *)
(***************************************************************************)
EXTENDS ContractCalls, TLC

CONSTANTS p1, p2, p3

Texts == (p1 :> <<"1", ".", "0">>) @@ [p \in Progs |-> <<"2">>]
Session(k2, k3) == (p1 :> "contract_deploy") @@ (p2 :> k2) @@ (p3 :> k3)

\* Beside the deployment: two programs that send, one that sends and one that reads,
\* two that read.
Sessions3 == {
  Session("TokenWrite", "contract_deploy"),
  Session("contract_write", "contract_read"),
  Session("contract_read_erc20", "Bindings"),
  Session("GetTokenBalance", "contract_write_estimate_gas"),
  Session("GetTokenDecimals", "contract_bytecode"),
  Session("TokenWrite", "contract_load")}
===============================================================================
