-------------------------------- MODULE Ledger --------------------------------
(***************************************************************************)
(* What those who send transactions to a node may rely on.  A nonce has    *)
(* one holder.  Two things may give it another: a transaction that outbids *)
(* the holder, or a block, which may contain any that was ever offered for *)
(* it, one that was outbid since too.  Nothing else gets lost but what is  *)
(* thrown out, and that is known.  A sender is told of its transaction in  *)
(* the step in which the node takes it.  That blocks are undone cannot be  *)
(* seen here: their transactions go on holding their nonces.               *)
(***************************************************************************)

CONSTANTS
  SameNonce(_, _),  \* two transactions of one account with one nonce
  Outbids(_, _)     \* the first pays enough more to replace the second

VARIABLES
  held,     \* the transactions that hold their nonce
  offered,  \* all that ever did
  dropped,  \* those the node has thrown out
  told      \* those whose sender was last told that the node has taken it

Init == held = {} /\ offered = {} /\ dropped = {} /\ told = {}

\* What is held when the transactions of ts have come to hold their nonces.
Displaced(ts) == {u \in held : \A t \in ts : ~SameNonce(u, t)} \cup ts

\* The node takes a transaction, in place of the one of its nonce.
Take(t) == /\ \A u \in held : SameNonce(u, t) => Outbids(t, u)
           /\ held' = Displaced({t}) /\ offered' = offered \cup {t}
           /\ UNCHANGED dropped

\* Its sender waits for the answer, or has given up.
Accept(t) == Take(t) /\ told' = told \cup {t}
TakeLate(t) == Take(t) /\ UNCHANGED told

\* A sender sends once more, and waits for another answer.
AskAgain(t) == told' = told \ {t} /\ UNCHANGED <<held, offered, dropped>>

\* Blocks give their nonces to ts, and the node throws out lost.
Settle(ts, lost) == /\ \A t, u \in ts : SameNonce(t, u) => t = u
                    /\ held' = Displaced(ts) \ lost /\ dropped' = dropped \cup lost
                    /\ UNCHANGED <<offered, told>>

Drop(t) == /\ held' = held \ {t} /\ dropped' = dropped \cup {t}
           /\ UNCHANGED <<offered, told>>

Next == \/ \E t \in held' : Accept(t) \/ TakeLate(t)
        \/ \E t \in told : AskAgain(t)
        \/ \E ts \in SUBSET offered : \E lost \in SUBSET (held \ ts) : Settle(ts, lost)
        \/ \E t \in held : Drop(t)

vars == <<held, offered, dropped, told>>

Spec == Init /\ [][Next]_vars
===============================================================================
