------------------------------ MODULE MCTxSubmit ------------------------------
(***************************************************************************)
(* Small instances of TxSubmit for TLC: three calls that sign for one      *)
(* account, and a market whose second quote outbids the first.             *)
(***************************************************************************)
EXTENDS TxSubmit, TLC

CONSTANTS c1, c2, c3, alice, p1, p2

TwoQuotes == {[base |-> 5, tip |-> 5], [base |-> 6, tip |-> 6]}

AllFromAlice == [c \in Calls |-> alice]
OwnPay == (c1 :> p1) @@ [c \in Calls |-> p2]

KindsMixed == (c1 :> "raw") @@ [c \in Calls |-> "contract_write"]
KindsOfRetry == (c1 :> "TransferTokens") @@ [c \in Calls |-> "raw"]
OnlyTransferEth == [c \in Calls |-> "TransferEth"]
Alike == Permutations({c2, c3})
===============================================================================
