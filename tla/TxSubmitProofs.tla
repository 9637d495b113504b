---------------------------- MODULE TxSubmitProofs ----------------------------
(***************************************************************************)
(* Theorems about TxSubmit, for any number of calls, accounts and nonces:  *)
(* the types; that a nonce has one holder (Settled) and blocks contain     *)
(* what the pool has taken (Recorded); that no nonce is skipped            *)
(* (NothingSkipped); that an offer holds (OfferHolds); who sent what the   *)
(* pool has taken (Signed, Twins); what calls that run one after another   *)
(* may rely on (Alone); and that all of it implements Ledger.              *)
(***************************************************************************)
EXTENDS TxSubmit, TLAPS

\* Every program is a sequence of three to five steps.
LEMMA ProgramLength ==
  \A k \in Kinds : /\ Len(Program[k]) \in 3..5
                   /\ DOMAIN Program[k] = 1..Len(Program[k])
  <1> DEFINE Steps == {"head", "nonce", "price", "estimate", "chain", "send"}
  <1>1. /\ TransferEthSteps \in Seq(Steps) /\ Len(TransferEthSteps) = 3
        /\ TransferTokensSteps \in Seq(Steps) /\ Len(TransferTokensSteps) = 5
    BY DEF TransferEthSteps, TransferTokensSteps, TransactSteps
  <1>2. /\ transfer_ethSteps \in Seq(Steps) /\ Len(transfer_ethSteps) = 4
        /\ transfer_tokensSteps \in Seq(Steps) /\ Len(transfer_tokensSteps) = 5
    BY DEF transfer_ethSteps, transfer_tokensSteps
  <1>3. /\ contract_deploySteps \in Seq(Steps) /\ Len(contract_deploySteps) = 3
        /\ contract_writeSteps \in Seq(Steps) /\ Len(contract_writeSteps) = 3
    BY DEF contract_deploySteps, contract_writeSteps
  <1>4. /\ raw_createSteps \in Seq(Steps) /\ Len(raw_createSteps) = 3
        /\ raw_sendSteps \in Seq(Steps) /\ Len(raw_sendSteps) = 1
    BY DEF raw_createSteps, raw_sendSteps
  <1> HIDE DEF Steps
  <1>5. ASSUME NEW p \in Seq(Steps), NEW q \in Seq(Steps)
        PROVE  p \o q \in Seq(Steps) /\ Len(p \o q) = Len(p) + Len(q)
    OBVIOUS
  <1>6. /\ raw_createSteps \o raw_sendSteps \in Seq(Steps)
        /\ Len(raw_createSteps \o raw_sendSteps) = 4
    <2>1. /\ raw_createSteps \o raw_sendSteps \in Seq(Steps)
          /\ Len(raw_createSteps \o raw_sendSteps) = Len(raw_createSteps) + Len(raw_sendSteps)
      BY <1>4, <1>5, Zenon
    <2> QED BY <2>1, <1>4
  <1>7. \A p \in Seq(Steps) : DOMAIN p = 1..Len(p)
    OBVIOUS
  <1> QED
    BY <1>1, <1>2, <1>3, <1>6, <1>7 DEF Program, Kinds

\* What a call signs is a well formed transaction.
LEMMA TxOfType == ASSUME TypeOK, NEW c \in Calls PROVE TxOf(c) \in Tx
  <1>1. SignerChain(c) \in Nat \cup {Unprotected}
    BY ConstantsOK DEF SignerChain
  <1> QED
    BY <1>1, ConstantsOK DEF TypeOK, TxOf, Tx

\* Returning leaves the program counter behind the last step.
LEMMA ReturnType ==
  ASSUME TypeOK, NEW c \in Calls, NEW r \in {"failed", "ok", "refused", "unknown"}, Return(c, r)
  PROVE  /\ at' \in [Calls -> Nat \ {0}]
         /\ outcome' \in [Calls -> {"none", "failed", "ok", "refused", "unknown"}]
         /\ nonce' = nonce /\ price' = price
  <1>1. Len(Program[Kind[c]]) \in Nat
    BY ProgramLength, ConstantsOK
  <1> QED
    BY <1>1 DEF TypeOK, Return

\* Fees with another fee cap are fees.
LEMMA FeeCap == ASSUME NEW p \in Fees, NEW n \in Nat PROVE [p EXCEPT !.fee = n] \in Fees
  BY DEF Fees

\* The state variables keep their types.
LEMMA TypeStep == TypeOK /\ [Next]_vars => TypeOK'
  <1> SUFFICES ASSUME TypeOK, [Next]_vars PROVE TypeOK'
    OBVIOUS
  <1> USE DEF TypeOK
  <1>a. ASSUME NEW c \in Calls, NoteStart(c) PROVE overlap' \in BOOLEAN
    BY <1>a DEF NoteStart
  <1>b. ASSUME NEW c \in Calls, Proceed(c)
        PROVE  /\ at' \in [Calls -> Nat \ {0}] /\ overlap' \in BOOLEAN
               /\ UNCHANGED <<nodeVars, outcome, sends>>
    BY <1>a, <1>b DEF Proceed
  <1>1. ASSUME NEW c \in Calls, ReadNonce(c) PROVE TypeOK'
    <2>1. PICK n \in 0..MaxNonce : nonce' = [nonce EXCEPT ![c] = n]
      BY <1>1 DEF ReadNonce
    <2> QED BY <2>1, <1>1, <1>b, ConstantsOK DEF ReadNonce, nodeVars, poolVars, chainVars
  <1>2. ASSUME NEW c \in Calls, ReadHead(c) PROVE TypeOK'
    <2>1. PICK m \in Market : price' = [price EXCEPT ![c].fee = 2 * m.base]
      BY <1>2 DEF ReadHead
    <2>2. 2 * m.base \in Nat
      BY ConstantsOK
    <2>3. ASSUME NEW p \in Fees PROVE [p EXCEPT !.fee = 2 * m.base] \in Fees
      BY <2>2, FeeCap
    <2>4. price' \in [Calls -> Fees]
      BY <2>1, <2>3
    <2> QED BY <2>4, <1>2, <1>b DEF ReadHead, nodeVars, poolVars, chainVars
  <1>3. ASSUME NEW c \in Calls, ReadPrice(c) PROVE TypeOK'
    <2>1. PICK m \in Market :
            price' = [price EXCEPT ![c] =
              IF Kind[c] = "TransferTokens"
              THEN [fee |-> price[c].fee + m.tip, tip |-> m.tip]
              ELSE [fee |-> m.base + m.tip, tip |-> m.base + m.tip]]
      BY <1>3 DEF ReadPrice
    <2>2. m.base \in Nat /\ m.tip \in Nat /\ price[c].fee \in Nat
      BY ConstantsOK DEF Fees
    <2>3. price' \in [Calls -> Fees]
      BY <2>1, <2>2 DEF Fees
    <2> QED BY <2>3, <1>3, <1>b DEF ReadPrice, nodeVars, poolVars, chainVars
  <1>4. ASSUME NEW c \in Calls, Ask(c) PROVE TypeOK'
    BY <1>4, <1>b DEF Ask, nodeVars, poolVars, chainVars
  <1>5. ASSUME NEW c \in Calls, Fail(c) PROVE TypeOK'
    BY <1>5, <1>a, ReturnType DEF Fail, nodeVars, poolVars, chainVars
  <1>c. ASSUME NEW c \in Calls, Send(c) PROVE sends' \in [Calls -> Nat]
    BY <1>c DEF Send
  <1>6. ASSUME NEW c \in Calls, SendAccepted(c) PROVE TypeOK'
    BY <1>6, <1>c, TxOfType, ReturnType DEF SendAccepted, PoolAdd, chainVars
  <1>7. ASSUME NEW c \in Calls, SendRefused(c) PROVE TypeOK'
    BY <1>7, <1>c, ReturnType DEF SendRefused, nodeVars, poolVars, chainVars
  <1>8. ASSUME NEW c \in Calls, SendAbandoned(c) PROVE TypeOK'
    BY <1>8, <1>c, TxOfType, ReturnType DEF SendAbandoned, poolVars, chainVars
  <1>9. ASSUME NEW c \in Calls, SendAgain(c) PROVE TypeOK'
    <2>0. "raw" \in Kinds
      BY DEF Kinds
    <2>1. Len(Program["raw"]) \in 3..5
      BY <2>0, ProgramLength
    <2>2. overlap' \in BOOLEAN
      BY <1>9 DEF SendAgain
    <2>4. PICK n \in 3..5 : at' = [at EXCEPT ![c] = n]
      BY <1>9, <2>1 DEF SendAgain
    <2>5. at' \in [Calls -> Nat \ {0}]
      BY <2>4
    <2>3. outcome' \in [Calls -> {"none", "failed", "ok", "refused", "unknown"}]
      BY <1>9 DEF SendAgain
    <2> QED BY <1>9, <2>2, <2>3, <2>5 DEF SendAgain, nodeVars, poolVars, chainVars
  <1>10. ASSUME NEW t \in wire, LateArrival(t) PROVE TypeOK'
    BY <1>10 DEF LateArrival, PoolAdd, callVars, poolVars, chainVars
  <1>11. ASSUME NEW t \in wire, RequestLost(t) PROVE TypeOK'
    BY <1>11 DEF RequestLost, callVars, poolVars, chainVars
  <1>12. ASSUME NEW t \in known, Mine(t) PROVE TypeOK'
    <2>1. t \in Tx /\ t.from \in Accounts
      BY DEF Tx
    <2>2. Append(chain[t.from], t) \in Seq(Tx)
      BY <2>1
    <2> QED BY <1>12, <2>1, <2>2 DEF Mine, callVars, poolVars
  <1>13. ASSUME NEW a \in Accounts, Undo(a) PROVE TypeOK'
    <2>1. chain[a] \in Seq(Tx) /\ Len(chain[a]) \in Nat \ {0}
      BY <1>13 DEF Undo
    <2>2. SubSeq(chain[a], 1, Len(chain[a]) - 1) \in Seq(Tx)
      BY <2>1
    <2> QED BY <1>13, <2>2 DEF Undo, callVars, poolVars
  <1>14. CASE Reset
    <2>1. Reinject \subseteq Tx
      BY DEF Reinject, InBlocks
    <2> QED BY <1>14, <2>1 DEF Reset, callVars, chainVars
  <1>16. ASSUME NEW t \in pool, Evict(t) PROVE TypeOK'
    BY <1>16 DEF Evict, callVars, chainVars
  <1>15. CASE UNCHANGED vars
    BY <1>15 DEF vars, callVars, nodeVars, poolVars, chainVars
  <1> QED
    BY <1>1, <1>2, <1>3, <1>4, <1>5, <1>6, <1>7, <1>8, <1>9, <1>10, <1>11, <1>12, <1>13, <1>14, <1>15,
       <1>16
    DEF Next, Step

\* Every reachable state of the senders and the node is well typed.
THEOREM TypeCorrect == Spec => []TypeOK
  <1>1. Init => TypeOK
    <2> SUFFICES ASSUME Init PROVE TypeOK
      OBVIOUS
    <2>1. base \in [Accounts -> Seq(Tx)] /\ chain \in [Accounts -> Seq(Tx)]
      BY DEF Init
    <2>2. [fee |-> 0, tip |-> 0] \in Fees
      BY DEF Fees
    <2>3. price \in [Calls -> Fees] /\ nonce \in [Calls -> Nat] /\ sends \in [Calls -> Nat]
      BY <2>2 DEF Init
    <2>4. /\ outcome \in [Calls -> {"none", "failed", "ok", "refused", "unknown"}]
          /\ at \in [Calls -> Nat \ {0}]
      BY DEF Init
    <2> QED
      BY <2>1, <2>3, <2>4 DEF Init, TypeOK
  <1> QED
    BY <1>1, TypeStep, PTL DEF Spec

-------------------------------------------------------------------------------
(* What a step may do to the transactions the pool stands on and holds:     *)
(* nothing, add one that is acceptable, learn of the blocks or throw one    *)
(* out; and to the blocks: nothing, add one or undo one.                    *)

Added(t) == Acceptable(t) /\ PoolAdd(t)
NodeStep == \/ UNCHANGED poolVars
            \/ \E t \in Tx : Added(t)
            \/ Reset
            \/ \E t \in pool : Evict(t)
ChainStep == \/ UNCHANGED chainVars
             \/ \E t \in known : Mine(t)
             \/ \E a \in Accounts : Undo(a)

\* Every step of the system is one of those to the pool, and to the blocks.
LEMMA NodeSteps == TypeOK /\ [Next]_vars => NodeStep /\ ChainStep
  <1> SUFFICES ASSUME TypeOK, [Next]_vars PROVE NodeStep /\ ChainStep
    OBVIOUS
  <1>1. ASSUME NEW c \in Calls, Step(c) \/ SendAgain(c) PROVE NodeStep /\ ChainStep
    <2>1. ASSUME SendAccepted(c) PROVE NodeStep /\ ChainStep
      BY <2>1, TxOfType DEF SendAccepted, NodeStep, ChainStep, Added
    <2>2. CASE ~SendAccepted(c)
      BY <1>1, <2>2 DEF Step, NodeStep, ChainStep, ReadNonce, ReadHead, ReadPrice, Ask, Proceed,
                        Fail, SendRefused, SendAbandoned, SendAgain, nodeVars
    <2> QED
      BY <2>1, <2>2
  <1>2. ASSUME NEW t \in wire, LateArrival(t) PROVE NodeStep /\ ChainStep
    BY <1>2 DEF LateArrival, NodeStep, ChainStep, Added, TypeOK
  <1>3. ASSUME NEW t \in wire, RequestLost(t) PROVE NodeStep /\ ChainStep
    BY <1>3 DEF RequestLost, NodeStep, ChainStep
  <1>4. CASE UNCHANGED vars
    BY <1>4 DEF vars, nodeVars, NodeStep, ChainStep
  <1>5. ASSUME NEW t \in known, Mine(t) PROVE NodeStep /\ ChainStep
    BY <1>5 DEF Mine, NodeStep, ChainStep
  <1>6. ASSUME NEW a \in Accounts, Undo(a) PROVE NodeStep /\ ChainStep
    BY <1>6 DEF Undo, NodeStep, ChainStep
  <1>7. CASE Reset
    BY <1>7 DEF Reset, NodeStep, ChainStep
  <1>8. ASSUME NEW t \in pool, Evict(t) PROVE NodeStep /\ ChainStep
    BY <1>8 DEF Evict, NodeStep, ChainStep
  <1> QED
    BY <1>1, <1>2, <1>3, <1>4, <1>5, <1>6, <1>7, <1>8 DEF Next

\* Blocks hold the transactions of an account one after another, one for each nonce
\* below their number.
LEMMA InBlockOrder ==
  ASSUME NEW a, NEW bs \in Seq(Tx), InOrder(a, bs)
  PROVE  /\ Len(bs) \in Nat /\ DOMAIN bs = 1..Len(bs)
         /\ \A t \in InBlocks(bs) : t.from = a /\ t.nonce \in Nat /\ t.nonce < Len(bs) /\ t \in Tx
         /\ \A t, u \in InBlocks(bs) : t.nonce = u.nonce => t = u
         /\ \A n \in Nat : n < Len(bs) => \E t \in InBlocks(bs) : t.nonce = n
  <1>1. Len(bs) \in Nat /\ DOMAIN bs = 1..Len(bs) /\ \A i \in 1..Len(bs) : bs[i] \in Tx
    OBVIOUS
  <1>2. \A t \in InBlocks(bs) : \E i \in 1..Len(bs) : t = bs[i] /\ t.from = a /\ t.nonce = i - 1
    BY <1>1 DEF InBlocks, InOrder
  <1>3. \A t \in InBlocks(bs) : t.from = a /\ t.nonce \in Nat /\ t.nonce < Len(bs) /\ t \in Tx
    BY <1>1, <1>2
  <1>4. \A t, u \in InBlocks(bs) : t.nonce = u.nonce => t = u
    BY <1>1, <1>2
  <1>5. ASSUME NEW n \in Nat, n < Len(bs) PROVE \E t \in InBlocks(bs) : t.nonce = n
    <2>1. n + 1 \in DOMAIN bs
      BY <1>1, <1>5
    <2>2. bs[n + 1] \in InBlocks(bs) /\ bs[n + 1].nonce = (n + 1) - 1
      BY <2>1 DEF InBlocks, InOrder
    <2> QED BY <2>2
  <1> QED
    BY <1>1, <1>3, <1>4, <1>5

\* So it is in the blocks, and in those the pool stands on.
LEMMA BlockFacts ==
  ASSUME TypeOK, Settled, NEW a \in Accounts
  PROVE  /\ Len(base[a]) \in Nat /\ Len(chain[a]) \in Nat
         /\ \A t \in InBlocks(base[a]) : t.from = a /\ t.nonce \in Nat /\ t.nonce < Len(base[a]) /\ t \in Tx
         /\ \A t \in InBlocks(chain[a]) : t.from = a /\ t.nonce \in Nat /\ t.nonce < Len(chain[a]) /\ t \in Tx
         /\ \A t, u \in InBlocks(base[a]) : t.nonce = u.nonce => t = u
         /\ \A t, u \in InBlocks(chain[a]) : t.nonce = u.nonce => t = u
         /\ \A n \in Nat : n < Len(chain[a]) => \E t \in InBlocks(chain[a]) : t.nonce = n
  <1>1. /\ base[a] \in Seq(Tx) /\ InOrder(a, base[a])
        /\ chain[a] \in Seq(Tx) /\ InOrder(a, chain[a])
    BY DEF TypeOK, Settled, BlocksInOrder
  <1> QED
    BY <1>1, InBlockOrder

\* Every nonce below the number of the blocks the pool stands on is used up there.
LEMMA BaseTaken ==
  ASSUME TypeOK, Settled, NEW a \in Accounts, NEW n \in Nat, n < Len(base[a])
  PROVE  \E t \in InBlocks(base[a]) : t.nonce = n
  <1>1. base[a] \in Seq(Tx) /\ InOrder(a, base[a])
    BY DEF TypeOK, Settled, BlocksInOrder
  <1> QED
    BY <1>1, InBlockOrder

\* What the pool holds is well typed and above the blocks it stands on.
LEMMA PoolFacts ==
  ASSUME TypeOK, Settled, NEW t \in pool
  PROVE  /\ t \in Tx /\ t.nonce \in Nat /\ t.from \in Accounts /\ Len(base[t.from]) \in Nat
         /\ t.nonce >= Len(base[t.from])
  BY DEF TypeOK, Tx, Settled, PoolAboveBlocks

\* What the pool takes back when it learns of the blocks.
LEMMA ReinjectFacts ==
  ASSUME TypeOK, Settled, NEW t \in Reinject
  PROVE  /\ t \in Tx /\ t.from \in Accounts /\ t.nonce \in Nat
         /\ t \in InBlocks(base[t.from]) /\ t \notin InBlocks(chain[t.from])
         /\ t.nonce < Len(base[t.from]) /\ t.nonce >= Len(chain[t.from])
  <1>1. PICK a \in Accounts : t \in InBlocks(base[a]) /\ t \notin InBlocks(chain[a])
    BY DEF Reinject
  <1> QED
    BY <1>1, BlockFacts DEF Reinject

-------------------------------------------------------------------------------
(* One holder per nonce.                                                    *)

\* Blocks that are found and undone leave the transactions of an account in order.
LEMMA ChainInOrder ==
  ASSUME TypeOK, BlocksInOrder, ChainStep, NEW a \in Accounts
  PROVE  InOrder(a, chain'[a])
  <1>t. /\ \A b \in Accounts : chain[b] \in Seq(Tx) /\ InOrder(b, chain[b])
        /\ \A t \in known : t \in Tx /\ t.from \in Accounts
    BY DEF TypeOK, BlocksInOrder, Tx
  <1>1. CASE UNCHANGED chainVars
    BY <1>1, <1>t DEF chainVars
  <1>2. ASSUME NEW t \in known, Mine(t) PROVE InOrder(a, chain'[a])
    <2>1. /\ t.nonce = Len(chain[t.from]) /\ t \in Tx
          /\ chain' = [chain EXCEPT ![t.from] = Append(@, t)]
      BY <1>2, <1>t DEF Mine
    <2>2. CASE t.from # a
      BY <2>1, <2>2, <1>t DEF TypeOK
    <2>3. CASE t.from = a
      <3>1. chain'[a] = Append(chain[a], t)
        BY <2>1, <2>3 DEF TypeOK
      <3>2. \A i \in DOMAIN chain'[a] :
              \/ i \in DOMAIN chain[a] /\ chain'[a][i] = chain[a][i]
              \/ i = Len(chain[a]) + 1 /\ chain'[a][i] = t
        BY <3>1, <2>1, <1>t
      <3>3. Len(chain[a]) \in Nat
        BY <1>t
      <3> QED BY <3>2, <3>3, <2>1, <2>3, <1>t DEF InOrder
    <2> QED BY <2>2, <2>3
  <1>3. ASSUME NEW b \in Accounts, Undo(b) PROVE InOrder(a, chain'[a])
    <2>1. chain' = [chain EXCEPT ![b] = SubSeq(@, 1, Len(@) - 1)] /\ chain[b] # <<>>
      BY <1>3 DEF Undo
    <2>2. CASE b # a
      BY <2>1, <2>2, <1>t DEF TypeOK
    <2>3. CASE b = a
      <3>1. chain'[a] = SubSeq(chain[a], 1, Len(chain[a]) - 1)
        BY <2>1, <2>3 DEF TypeOK
      <3>2. \A i \in DOMAIN chain'[a] : i \in DOMAIN chain[a] /\ chain'[a][i] = chain[a][i]
        BY <3>1, <2>1, <2>3, <1>t
      <3> QED BY <3>2, <1>t DEF InOrder
    <2> QED BY <2>2, <2>3
  <1> QED
    BY <1>1, <1>2, <1>3 DEF ChainStep

\* Replacing, learning of blocks and evicting keep the blocks in nonce order and the
\* pool unique and above those it stands on.
LEMMA SettledStep == TypeOK /\ TypeOK' /\ Settled /\ [Next]_vars => Settled'
  <1> SUFFICES ASSUME TypeOK, TypeOK', Settled, [Next]_vars PROVE Settled'
    OBVIOUS
  <1>0. NodeStep /\ ChainStep
    BY NodeSteps
  <1>c. \A a \in Accounts : InOrder(a, chain'[a])
    BY <1>0, ChainInOrder DEF Settled
  <1>1. CASE UNCHANGED poolVars
    BY <1>1, <1>c DEF Settled, BlocksInOrder, PoolAboveBlocks, PoolUnique, poolVars
  <1>2. ASSUME NEW t \in Tx, Added(t) PROVE Settled'
    <2>1. /\ pool' = (pool \ Rivals(t)) \cup {t} /\ base' = base
          /\ t.nonce >= Len(base[t.from])
      BY <1>2 DEF Added, PoolAdd, Acceptable
    <2>2. BlocksInOrder'
      BY <2>1, <1>c DEF Settled, BlocksInOrder
    <2>3. PoolAboveBlocks'
      BY <2>1 DEF Settled, PoolAboveBlocks
    <2>4. PoolUnique'
      BY <2>1 DEF Settled, PoolUnique, Rivals
    <2> QED BY <2>2, <2>3, <2>4 DEF Settled
  <1>3. CASE Reset
    <2>1. /\ base' = chain
          /\ \A t \in pool' : \/ t \in pool /\ t.nonce >= Len(chain[t.from])
                              \/ t \in Reinject
      BY <1>3 DEF Reset
    <2>2. BlocksInOrder'
      BY <2>1, <1>c DEF Settled, BlocksInOrder
    <2>3. PoolAboveBlocks'
      BY <2>1, ReinjectFacts DEF PoolAboveBlocks
    <2>4. ASSUME NEW t \in pool', NEW u \in pool', t.from = u.from, t.nonce = u.nonce PROVE t = u
      <3>1. CASE t \in pool /\ u \in pool
        BY <2>4, <3>1 DEF Settled, PoolUnique
      <3>2. CASE t \in Reinject /\ u \in Reinject
        BY <2>4, <3>2, ReinjectFacts, BlockFacts
      <3>3. ASSUME NEW v \in pool, NEW w \in Reinject, v.from = w.from PROVE v.nonce # w.nonce
        BY <3>3, PoolFacts, ReinjectFacts
      <3> QED BY <2>1, <2>4, <3>1, <3>2, <3>3
    <2> QED BY <2>2, <2>3, <2>4 DEF Settled, PoolUnique
  <1>4. ASSUME NEW t \in pool, Evict(t) PROVE Settled'
    BY <1>4, <1>c DEF Evict, Settled, BlocksInOrder, PoolAboveBlocks, PoolUnique
  <1> QED
    BY <1>0, <1>1, <1>2, <1>3, <1>4 DEF NodeStep

\* What the pool holds it has taken, and so has every block been made of what it took.
LEMMA RecordedStep == TypeOK /\ Settled /\ Recorded /\ [Next]_vars => Recorded'
  <1> SUFFICES ASSUME TypeOK, Settled, Recorded, [Next]_vars PROVE Recorded'
    OBVIOUS
  <1>0. NodeStep /\ ChainStep
    BY NodeSteps
  <1>1. mined \subseteq mined' /\ known \subseteq known'
    BY <1>0 DEF NodeStep, ChainStep, Added, PoolAdd, Reset, Evict, Mine, Undo, poolVars, chainVars
  <1>2. mined' \subseteq known
    BY <1>0 DEF ChainStep, Mine, Undo, chainVars, Recorded
  <1>3. pool' \subseteq known'
    <2>1. CASE Reset
      <3>1. pool' \subseteq pool \cup Reinject
        BY <2>1 DEF Reset
      <3>2. \A t \in Reinject : t \in mined
        BY ReinjectFacts DEF Recorded
      <3> QED BY <3>1, <3>2, <1>1 DEF Recorded
    <2>2. CASE ~Reset
      BY <2>2, <1>0, <1>1 DEF NodeStep, Added, PoolAdd, Evict, poolVars, Recorded
    <2> QED BY <2>1, <2>2
  <1>4. ASSUME NEW a \in Accounts PROVE InBlocks(base'[a]) \subseteq mined'
    <2>1. base' = base \/ base' = chain
      BY <1>0 DEF NodeStep, Added, PoolAdd, Reset, Evict, poolVars
    <2> QED BY <2>1, <1>1 DEF Recorded
  <1>5. ASSUME NEW a \in Accounts PROVE InBlocks(chain'[a]) \subseteq mined'
    <2>1. CASE UNCHANGED chainVars
      BY <2>1 DEF chainVars, Recorded
    <2>2. ASSUME NEW t \in known, Mine(t) PROVE InBlocks(chain'[a]) \subseteq mined'
      <3>1. /\ mined' = mined \cup {t} /\ chain[a] \in Seq(Tx) /\ t \in Tx
            /\ chain'[a] = chain[a] \/ chain'[a] = Append(chain[a], t)
        BY <2>2 DEF Mine, TypeOK, Tx
      <3>2. ASSUME NEW bs \in Seq(Tx)
            PROVE  \A i \in DOMAIN Append(bs, t) : Append(bs, t)[i] = t \/
                                                   (i \in DOMAIN bs /\ Append(bs, t)[i] = bs[i])
        BY <3>1
      <3>3. InBlocks(chain'[a]) \subseteq InBlocks(chain[a]) \cup {t}
        BY <3>1, <3>2 DEF InBlocks
      <3> QED BY <3>1, <3>3 DEF Recorded
    <2>3. ASSUME NEW b \in Accounts, Undo(b) PROVE InBlocks(chain'[a]) \subseteq mined'
      <3>1. /\ mined' = mined /\ chain[a] \in Seq(Tx)
            /\ \/ chain'[a] = chain[a]
               \/ chain[a] # <<>> /\ chain'[a] = SubSeq(chain[a], 1, Len(chain[a]) - 1)
        BY <2>3 DEF Undo, TypeOK
      <3>2. ASSUME NEW bs \in Seq(Tx), bs # <<>>
            PROVE  \A i \in DOMAIN SubSeq(bs, 1, Len(bs) - 1) :
                     i \in DOMAIN bs /\ SubSeq(bs, 1, Len(bs) - 1)[i] = bs[i]
        BY <3>2
      <3>3. InBlocks(chain'[a]) \subseteq InBlocks(chain[a])
        BY <3>1, <3>2 DEF InBlocks
      <3> QED BY <3>1, <3>3 DEF Recorded
    <2> QED BY <2>1, <2>2, <2>3, <1>0 DEF ChainStep
  <1>6. mined' \subseteq known'
    BY <1>1, <1>2
  <1> QED
    BY <1>3, <1>4, <1>5, <1>6 DEF Recorded

\* At the start nothing is held, and nothing was taken.
LEMMA InitSettled == Init => Settled /\ Recorded
  <1> SUFFICES ASSUME Init PROVE Settled /\ Recorded
    OBVIOUS
  <1>1. \A a \in Accounts : base[a] = <<>> /\ chain[a] = <<>>
    BY DEF Init
  <1>2. \A a \in Accounts : InBlocks(base[a]) = {} /\ InBlocks(chain[a]) = {}
    BY <1>1 DEF InBlocks
  <1> QED
    BY <1>1, <1>2 DEF Init, Settled, BlocksInOrder, InOrder, PoolAboveBlocks, PoolUnique, Recorded

\* Unique in the pool, in order in the blocks and apart from each other: one holder.
LEMMA SettledImpliesOneHolder == TypeOK /\ Settled => OneHolderPerNonce
  <1> SUFFICES ASSUME TypeOK, Settled, NEW a \in Accounts, NEW t \in Held(a), NEW u \in Held(a),
                      t.nonce = u.nonce
               PROVE  t = u
    BY DEF OneHolderPerNonce
  <1>1. ASSUME NEW v \in Held(a)
        PROVE  \/ v \in pool /\ v.from = a /\ v.nonce \in Nat /\ v.nonce >= Len(base[a])
               \/ v \in InBlocks(base[a]) /\ v.nonce \in Nat /\ v.nonce < Len(base[a])
    BY PoolFacts, BlockFacts DEF Held
  <1>2. CASE t \in pool /\ u \in pool /\ t.from = a /\ u.from = a
    BY <1>2 DEF Settled, PoolUnique
  <1>3. CASE t \in InBlocks(base[a]) /\ u \in InBlocks(base[a])
    BY <1>3, BlockFacts
  <1>4. Len(base[a]) \in Nat
    BY BlockFacts
  <1> QED
    BY <1>1, <1>2, <1>3, <1>4

\* Whatever calls race, and whichever rival a block contains, at most one transaction
\* holds a nonce of an account, in the pool and in the blocks it stands on.
THEOREM OneHolder == Spec => []OneHolderPerNonce
  <1> QED
    BY InitSettled, TypeCorrect, SettledStep, SettledImpliesOneHolder, PTL DEF Spec

-------------------------------------------------------------------------------
(* No gaps.                                                                 *)

\* Only an eviction frees a nonce.
LEMMA TakenKept ==
  ASSUME TypeOK, Settled, NodeStep, evicted' = {},
         NEW a \in Accounts, NEW m \in Nat, Taken(a, m)
  PROVE  Taken(a, m)'
  <1>1. CASE UNCHANGED poolVars
    BY <1>1 DEF Taken, poolVars
  <1>2. ASSUME NEW t \in Tx, Added(t) PROVE Taken(a, m)'
    BY <1>2 DEF Added, PoolAdd, Rivals, Taken
  <1>3. CASE Reset
    <2>1. /\ base' = chain
          /\ pool' = {t \in pool : t.nonce >= Len(chain[t.from])} \cup Reinject
      <3>1. PICK refused \in SUBSET Reinject :
              /\ pool' = {t \in pool : t.nonce >= Len(chain[t.from])} \cup (Reinject \ refused)
              /\ evicted' = evicted \cup refused
        BY <1>3 DEF Reset
      <3>2. refused = {}
        BY <3>1
      <3> QED BY <1>3, <3>1, <3>2 DEF Reset
    <2>2. Len(base[a]) \in Nat /\ Len(chain[a]) \in Nat
      BY BlockFacts
    <2>3. CASE m < Len(chain[a])
      BY <2>1, <2>3 DEF Taken
    <2>4. CASE m >= Len(chain[a]) /\ m < Len(base[a])
      <3>1. PICK t \in InBlocks(base[a]) : t.nonce = m
        BY <2>4, BaseTaken
      <3>2. t \notin InBlocks(chain[a]) /\ t.from = a
        BY <3>1, <2>2, <2>4, BlockFacts
      <3>3. t \in Reinject
        BY <3>1, <3>2, <2>4 DEF Reinject
      <3> QED BY <2>1, <3>1, <3>2, <3>3 DEF Taken
    <2>5. CASE m >= Len(chain[a]) /\ m >= Len(base[a])
      <3>1. PICK t \in pool : t.from = a /\ t.nonce = m
        BY <2>2, <2>5 DEF Taken
      <3>2. t \in pool'
        BY <2>1, <2>5, <3>1
      <3> QED BY <3>1, <3>2 DEF Taken
    <2> QED BY <2>2, <2>3, <2>4, <2>5
  <1>4. ASSUME NEW t \in pool, Evict(t) PROVE FALSE
    BY <1>4 DEF Evict
  <1> QED
    BY <1>1, <1>2, <1>3, <1>4 DEF NodeStep

\* What a call has read is kept, or it is the pending nonce of this moment.
LEMMA NonceStep ==
  ASSUME TypeOK, [Next]_vars, NEW c \in Calls
  PROVE  nonce'[c] = nonce[c] \/ (IsPendingNonce(From[c], nonce'[c]) /\ nonce'[c] \in Nat)
  <1>1. ASSUME NEW d \in Calls, ReadNonce(d)
        PROVE  nonce'[c] = nonce[c] \/ (IsPendingNonce(From[c], nonce'[c]) /\ nonce'[c] \in Nat)
    BY <1>1, ConstantsOK DEF ReadNonce, TypeOK
  <1>2. ASSUME NEW d \in Calls, Step(d) \/ SendAgain(d), ~ReadNonce(d) PROVE nonce' = nonce
    BY <1>2 DEF Step, SendAgain, ReadHead, ReadPrice, Ask, Fail, SendAccepted, SendRefused,
                SendAbandoned, Return
  <1>3. ASSUME NEW t \in wire, LateArrival(t) \/ RequestLost(t) PROVE nonce' = nonce
    BY <1>3 DEF LateArrival, RequestLost, callVars
  <1>4. ASSUME NEW t \in known, Mine(t) PROVE nonce' = nonce
    BY <1>4 DEF Mine, callVars
  <1>5. ASSUME NEW a \in Accounts, Undo(a) PROVE nonce' = nonce
    BY <1>5 DEF Undo, callVars
  <1>7. ASSUME Reset \/ \E t \in pool : Evict(t) PROVE nonce' = nonce
    BY <1>7 DEF Reset, Evict, callVars
  <1>6. CASE UNCHANGED vars
    BY <1>6 DEF vars, callVars
  <1> QED
    BY <1>1, <1>2, <1>3, <1>4, <1>5, <1>6, <1>7 DEF Next

\* A transaction in the pool or on the wire was there before, was signed by a
\* call just now, or comes from an undone block; nothing forgets an eviction.
LEMMA Origin ==
  ASSUME TypeOK, Settled, [Next]_vars
  PROVE  /\ evicted \subseteq evicted'
         /\ \A t \in (pool \cup wire)' :
              \/ t \in pool \cup wire
              \/ \E c \in Calls : t = TxOf(c)
              \/ t \in Reinject
  <1> DEFINE Goal == /\ evicted \subseteq evicted'
                     /\ \A t \in (pool \cup wire)' :
                          \/ t \in pool \cup wire
                          \/ \E c \in Calls : t = TxOf(c)
                          \/ t \in Reinject
  <1> SUFFICES Goal
    OBVIOUS
  <1>1. ASSUME NEW c \in Calls, Step(c) \/ SendAgain(c) PROVE Goal
    <2>1. CASE SendAccepted(c)
      BY <2>1 DEF SendAccepted, PoolAdd
    <2>2. CASE SendAbandoned(c)
      BY <2>2 DEF SendAbandoned, poolVars
    <2>3. CASE ~SendAccepted(c) /\ ~SendAbandoned(c)
      BY <1>1, <2>3 DEF Step, ReadNonce, ReadHead, ReadPrice, Ask, Proceed, Fail,
                        SendRefused, SendAgain, nodeVars, poolVars
    <2> QED
      BY <2>1, <2>2, <2>3
  <1>2. ASSUME NEW t \in wire, LateArrival(t) \/ RequestLost(t) PROVE Goal
    BY <1>2 DEF LateArrival, RequestLost, PoolAdd, poolVars
  <1>3. ASSUME NEW t \in known, Mine(t) PROVE Goal
    BY <1>3 DEF Mine, poolVars
  <1>4. ASSUME NEW a \in Accounts, Undo(a) PROVE Goal
    BY <1>4 DEF Undo, poolVars
  <1>7. CASE Reset
    BY <1>7 DEF Reset
  <1>5. ASSUME NEW t \in pool, Evict(t) PROVE Goal
    BY <1>5 DEF Evict
  <1>6. CASE UNCHANGED vars
    BY <1>6 DEF vars, nodeVars, poolVars
  <1> QED
    BY <1>1, <1>2, <1>3, <1>4, <1>5, <1>6, <1>7 DEF Next

\* Everything below a nonce that was read or signed stays taken.
LEMMA NothingSkippedStep ==
  TypeOK /\ TypeOK' /\ Settled /\ NothingSkipped /\ [Next]_vars => NothingSkipped'
  <1> SUFFICES ASSUME TypeOK, TypeOK', Settled, NothingSkipped, [Next]_vars, evicted' = {}
               PROVE  /\ \A c \in Calls : BelowTaken(From[c], nonce[c])'
                      /\ \A t \in (pool \cup wire)' : BelowTaken(t.from, t.nonce)'
    BY DEF NothingSkipped
  <1>1. evicted = {}
    BY Origin
  <1>2. /\ \A c \in Calls : BelowTaken(From[c], nonce[c])
        /\ \A t \in pool \cup wire : BelowTaken(t.from, t.nonce)
    BY <1>1 DEF NothingSkipped
  <1>3. ASSUME NEW a \in Accounts, NEW n \in Nat, BelowTaken(a, n) PROVE BelowTaken(a, n)'
    BY <1>3, NodeSteps, TakenKept DEF BelowTaken
  <1>4. ASSUME NEW c \in Calls PROVE BelowTaken(From[c], nonce[c])'
    <2>1. From[c] \in Accounts /\ nonce[c] \in Nat /\ nonce'[c] \in Nat
      BY ConstantsOK DEF TypeOK
    <2>2. BelowTaken(From[c], nonce'[c])
      BY <1>2, NonceStep DEF BelowTaken, IsPendingNonce
    <2> QED BY <2>1, <2>2, <1>3 DEF BelowTaken
  <1>5. ASSUME NEW t \in (pool \cup wire)' PROVE BelowTaken(t.from, t.nonce)'
    <2>1. t.from \in Accounts /\ t.nonce \in Nat
      BY DEF TypeOK, Tx
    <2>2. BelowTaken(t.from, t.nonce)
      <3>1. CASE t \in pool \cup wire
        BY <1>2, <3>1
      <3>2. ASSUME NEW c \in Calls, t = TxOf(c) PROVE BelowTaken(t.from, t.nonce)
        BY <1>2, <3>2 DEF TxOf
      <3>3. CASE t \in Reinject
        <4>1. t.nonce < Len(base[t.from]) /\ Len(base[t.from]) \in Nat
          BY <3>3, ReinjectFacts, BlockFacts
        <4> QED BY <2>1, <4>1 DEF BelowTaken, Taken
      <3> QED BY <3>1, <3>2, <3>3, Origin
    <2> QED BY <2>1, <2>2, <1>3
  <1> QED
    BY <1>4, <1>5

\* Calls that fail, race or are answered late leave no hole in an account's
\* nonces: every transaction in the pool can be mined, unless one was evicted.
THEOREM NoGap == Spec => []NoGapUnlessEvicted
  <1>1. Init => Settled /\ NothingSkipped
    BY InitSettled, ConstantsOK DEF Init, NothingSkipped, BelowTaken
  <1>2. TypeOK /\ NothingSkipped => NoGapUnlessEvicted
    <2> SUFFICES ASSUME TypeOK, NothingSkipped, evicted = {}, NEW t \in pool, NEW m \in 0..t.nonce
                 PROVE  Taken(t.from, m)
      BY DEF NoGapUnlessEvicted
    <2>1. t.nonce \in Nat /\ BelowTaken(t.from, t.nonce)
      BY DEF TypeOK, Tx, NothingSkipped
    <2>2. CASE m = t.nonce
      BY <2>2 DEF Taken
    <2>3. CASE m # t.nonce
      <3>1. m \in 0..(t.nonce - 1)
        BY <2>1, <2>3
      <3> QED BY <2>1, <3>1 DEF BelowTaken
    <2> QED BY <2>2, <2>3
  <1> QED
    BY <1>1, <1>2, TypeCorrect, SettledStep, NothingSkippedStep, PTL DEF Spec

-------------------------------------------------------------------------------
(* Accepted transactions are only displaced by better paid ones.            *)

\* Raising the price is transitive.
LEMMA OutbidsTransitive ==
  ASSUME NEW t \in Tx, NEW u \in Tx, NEW v \in Tx, Outbids(v, u), Outbids(u, t)
  PROVE  Outbids(v, t)
  <1>1. ASSUME NEW x \in Nat, NEW y \in Nat, NEW z \in Nat, Raises(z, y), Raises(y, x)
        PROVE  Raises(z, x)
    <2>1. (x * (100 + PriceBump)) \div 100 \in Int
      BY ConstantsOK
    <2> HIDE DEF ConstantsOK
    <2> QED BY <1>1, <2>1 DEF Raises
  <1>2. /\ t.price.fee \in Nat /\ u.price.fee \in Nat /\ v.price.fee \in Nat
        /\ t.price.tip \in Nat /\ u.price.tip \in Nat /\ v.price.tip \in Nat
    BY DEF Tx, Fees
  <1> QED
    BY <1>1, <1>2 DEF Outbids

\* What the pool's learning of the blocks does to a transaction that is held: it is
\* held further, a block has another of its nonce, or it is thrown out.
LEMMA ResetKeepsOrMined ==
  ASSUME TypeOK, Settled, Recorded, Reset, NEW a \in Accounts, NEW t \in Held(a)
  PROVE  \/ t \in Held(a)'
         \/ \E u \in Held(a)' : u.from = a /\ u.nonce = t.nonce /\ u \in mined
         \/ t \in evicted' /\ t.from = a
  <1>1. PICK refused \in SUBSET Reinject :
          /\ pool' = {u \in pool : u.nonce >= Len(chain[u.from])} \cup (Reinject \ refused)
          /\ evicted' = evicted \cup refused
    BY DEF Reset
  <1>2. base' = chain /\ InBlocks(base'[a]) = InBlocks(chain[a])
    BY DEF Reset
  <1>3. t.from = a /\ t.nonce \in Nat /\ Len(chain[a]) \in Nat
    BY PoolFacts, BlockFacts DEF Held
  <1>4. CASE t.nonce < Len(chain[a])
    <2>1. PICK u \in InBlocks(chain[a]) : u.nonce = t.nonce
      BY <1>3, <1>4, BlockFacts
    <2>2. u \in Held(a)' /\ u.from = a /\ u \in mined
      BY <1>2, <2>1, BlockFacts DEF Held, Recorded
    <2> QED BY <2>1, <2>2
  <1>5. CASE t.nonce >= Len(chain[a]) /\ t \in pool
    BY <1>1, <1>3, <1>5 DEF Held
  <1>6. CASE t.nonce >= Len(chain[a]) /\ t \in InBlocks(base[a])
    <2>1. t \notin InBlocks(chain[a])
      BY <1>3, <1>6, BlockFacts
    <2>2. t \in Reinject
      BY <1>3, <1>6, <2>1 DEF Reinject
    <2> QED BY <1>1, <1>3, <2>2 DEF Held
  <1> QED BY <1>3, <1>4, <1>5, <1>6 DEF Held

\* While nothing of its nonce is evicted, a held transaction stays held, is replaced
\* by one that outbids it, or a block has contained another.
LEMMA HeldKept ==
  ASSUME TypeOK, Settled, Recorded, NodeStep, NEW a \in Accounts, NEW t \in Held(a), t.from = a,
         \A e \in evicted' : e.from = a => e.nonce # t.nonce
  PROVE  \E u \in Held(a)' : /\ u.from = a /\ u.nonce = t.nonce
                             /\ u = t \/ Outbids(u, t) \/ u \in mined
  <1> DEFINE Goal == \E u \in Held(a)' : /\ u.from = a /\ u.nonce = t.nonce
                                         /\ u = t \/ Outbids(u, t) \/ u \in mined
  <1>1. CASE UNCHANGED poolVars
    BY <1>1 DEF Held, poolVars
  <1>2. ASSUME NEW u \in Tx, Added(u) PROVE Goal
    <2>1. /\ pool' = (pool \ Rivals(u)) \cup {u} /\ base' = base
          /\ \A old \in Rivals(u) : Outbids(u, old)
      BY <1>2 DEF Added, PoolAdd, Acceptable
    <2>2. CASE t \in InBlocks(base[a])
      BY <2>1, <2>2 DEF Held
    <2>3. CASE t \in pool /\ t \notin Rivals(u)
      BY <2>1, <2>3 DEF Held
    <2>4. CASE t \in Rivals(u)
      BY <2>1, <2>4 DEF Held, Rivals
    <2> QED BY <2>2, <2>3, <2>4 DEF Held
  <1>3. CASE Reset
    BY <1>3, ResetKeepsOrMined
  <1>4. ASSUME NEW u \in pool, Evict(u) PROVE Goal
    BY <1>4 DEF Evict, Held
  <1> QED
    BY <1>1, <1>2, <1>3, <1>4 DEF NodeStep

\* A call that has returned "ok" read nothing since, or returned just now.
LEMMA OkStep ==
  ASSUME TypeOK, OkReturned, [Next]_vars, NEW c \in Calls, outcome'[c] = "ok"
  PROVE  /\ at'[c] > Len(Program[Kind[c]])
         /\ \/ outcome[c] = "ok" /\ nonce'[c] = nonce[c] /\ price'[c] = price[c]
            \/ SendAccepted(c)
  <1> DEFINE Goal == /\ at'[c] > Len(Program[Kind[c]])
                     /\ \/ outcome[c] = "ok" /\ nonce'[c] = nonce[c] /\ price'[c] = price[c]
                        \/ SendAccepted(c)
  <1>l. \A d \in Calls : /\ Len(Program[Kind[d]]) \in 3..5
                         /\ DOMAIN Program[Kind[d]] = 1..Len(Program[Kind[d]])
    BY ProgramLength, ConstantsOK
  <1>1. CASE nonce' = nonce /\ price' = price /\ at' = at /\ outcome' = outcome
    BY <1>1 DEF OkReturned, Returned
  <1>2. ASSUME NEW d \in Calls, ~Returned(d), NEW r \in {"failed", "refused", "unknown"}, Return(d, r)
        PROVE  Goal
    BY <1>2, <1>l DEF Return, OkReturned, Returned, TypeOK
  <1>3. ASSUME NEW d \in Calls, SendAccepted(d) PROVE Goal
    <2>1. CASE d = c
      BY <1>3, <2>1, <1>l DEF SendAccepted, Return, TypeOK
    <2>2. CASE d # c
      BY <1>3, <2>2 DEF SendAccepted, Return, OkReturned, Returned, TypeOK
    <2> QED BY <2>1, <2>2
  <1>4. ASSUME NEW d \in Calls, NEW s, Doing(d, s) PROVE ~Returned(d)
    BY <1>4, <1>l DEF Doing, Returned, TypeOK
  <1>5. ASSUME NEW d \in Calls, ~Returned(d), Proceed(d),
               \A e \in Calls : e # d => nonce'[e] = nonce[e] /\ price'[e] = price[e]
        PROVE  Goal
    BY <1>5, <1>l DEF Proceed, OkReturned, Returned, TypeOK
  <1>6. ASSUME NEW d \in Calls, ReadNonce(d) \/ ReadHead(d) \/ ReadPrice(d) \/ Ask(d) PROVE Goal
    <2>1. ~Returned(d) /\ Proceed(d)
      BY <1>6, <1>4 DEF ReadNonce, ReadHead, ReadPrice, Ask
    <2>2. ASSUME NEW e \in Calls, e # d PROVE nonce'[e] = nonce[e] /\ price'[e] = price[e]
      BY <1>6, <2>2 DEF ReadNonce, ReadHead, ReadPrice, Ask, TypeOK
    <2> QED BY <2>1, <2>2, <1>5
  <1>7. ASSUME NEW d \in Calls, SendAgain(d) PROVE Goal
    BY <1>7 DEF SendAgain, OkReturned, Returned, TypeOK
  <1>8. ASSUME NEW d \in Calls, Fail(d) \/ SendRefused(d) \/ SendAbandoned(d) PROVE Goal
    <2>1. ~Returned(d)
      BY <1>8, <1>4 DEF Fail, SendRefused, SendAbandoned, Send
    <2> QED BY <1>8, <2>1, <1>2 DEF Fail, SendRefused, SendAbandoned
  <1>9. ASSUME NEW t \in wire, LateArrival(t) \/ RequestLost(t) PROVE Goal
    BY <1>9, <1>1 DEF LateArrival, RequestLost, callVars
  <1>10. ASSUME \/ \E t \in known : Mine(t)
                \/ \E a \in Accounts : Undo(a)
         PROVE  Goal
    BY <1>10, <1>1 DEF Mine, Undo, callVars
  <1>11. ASSUME Reset \/ \E t \in pool : Evict(t) PROVE Goal
    BY <1>11, <1>1 DEF Reset, Evict, callVars
  <1>12. CASE UNCHANGED vars
    BY <1>12, <1>1 DEF vars, callVars
  <1> QED
    BY <1>3, <1>6, <1>7, <1>8, <1>9, <1>10, <1>11, <1>12 DEF Next, Step

\* The call's own offer, a better one, or one whose nonce a block gave to less.
Honoured(c, t) == \/ t = TxOf(c) \/ Outbids(t, TxOf(c))
                  \/ \E m \in mined : SameNonce(m, TxOf(c)) /\ m # TxOf(c) /\ ~Outbids(m, TxOf(c))

\* A step of the system keeps the offers of returned calls, or outbids them, or a
\* block has contained another.
LEMMA OfferStep ==
  TypeOK /\ TypeOK' /\ Settled /\ Recorded /\ OkReturned /\ OfferHolds /\ [Next]_vars
    => OkReturned' /\ OfferHolds'
  <1> SUFFICES ASSUME TypeOK, TypeOK', Settled, Recorded, OkReturned, OfferHolds, [Next]_vars
               PROVE  OkReturned' /\ OfferHolds'
    OBVIOUS
  <1>1. OkReturned'
    BY OkStep DEF OkReturned, Returned
  <1> SUFFICES ASSUME NEW c \in Calls, outcome'[c] = "ok",
                      \A e \in evicted' : e.from = From[c] => e.nonce # nonce'[c]
               PROVE  \E t \in Held(From[c])' : t.nonce = nonce'[c] /\ Honoured(c, t)'
    BY <1>1 DEF OfferHolds, Honoured
  <1>2. CASE SendAccepted(c)
    <2>1. TxOf(c)' = TxOf(c) /\ pool' = (pool \ Rivals(TxOf(c))) \cup {TxOf(c)}
      BY <1>2 DEF SendAccepted, PoolAdd, Return, TxOf
    <2>2. TxOf(c) \in Held(From[c])' /\ TxOf(c).nonce = nonce'[c]
      BY <1>2, <2>1 DEF Held, TxOf, SendAccepted, Return
    <2> QED BY <2>1, <2>2 DEF Honoured
  <1>3. CASE outcome[c] = "ok" /\ nonce'[c] = nonce[c] /\ price'[c] = price[c]
    <2>1. TxOf(c)' = TxOf(c) /\ TxOf(c) \in Tx /\ From[c] \in Accounts
      BY <1>3, TxOfType, ConstantsOK DEF TxOf
    <2>2. PICK t \in Held(From[c]) : t.nonce = nonce[c] /\ Honoured(c, t)
      BY <1>3, Origin DEF OfferHolds, Honoured
    <2>3. t \in Tx /\ t.from = From[c]
      BY <2>1, PoolFacts, BlockFacts DEF Held
    <2>4. PICK u \in Held(From[c])' : /\ u.from = From[c] /\ u.nonce = t.nonce
                                      /\ u = t \/ Outbids(u, t) \/ u \in mined
      BY <1>3, <2>1, <2>2, <2>3, NodeSteps, HeldKept
    <2>5. u \in Tx
      <3>1. base'[From[c]] \in Seq(Tx) /\ pool' \subseteq Tx
        BY <2>1 DEF TypeOK
      <3> QED BY <3>1 DEF Held, InBlocks
    <2>6. mined \subseteq mined'
      BY NodeSteps DEF ChainStep, Mine, Undo, chainVars
    <2>7. \/ u = TxOf(c) \/ Outbids(u, TxOf(c))
          \/ \E m \in mined : SameNonce(m, TxOf(c)) /\ m # TxOf(c) /\ ~Outbids(m, TxOf(c))
      <3>1. CASE u \in mined /\ u # TxOf(c) /\ ~Outbids(u, TxOf(c))
        <4>1. SameNonce(u, TxOf(c))
          BY <2>2, <2>4 DEF SameNonce, TxOf
        <4> QED BY <3>1, <4>1
      <3>2. CASE t = TxOf(c) \/ Outbids(t, TxOf(c))
        BY <2>1, <2>3, <2>4, <2>5, <3>1, <3>2, OutbidsTransitive
      <3> QED BY <2>2, <3>2 DEF Honoured
    <2>8. Honoured(c, u)'
      BY <2>1, <2>6, <2>7 DEF Honoured, Outbids, SameNonce
    <2> QED BY <1>3, <2>2, <2>4, <2>8
  <1> QED
    BY <1>2, <1>3, OkStep

\* The nonce of a call that returned without error is held by its transaction or by
\* one that offered more, until the pool evicts a holder of that nonce; by one that
\* offered less only after some block has contained such a rival.
THEOREM OffersHold == Spec => []OfferHolds
  <1>1. Init => OkReturned /\ OfferHolds
    BY DEF Init, OkReturned, OfferHolds
  <1> QED
    BY <1>1, InitSettled, TypeCorrect, SettledStep, RecordedStep, OfferStep, PTL DEF Spec

-------------------------------------------------------------------------------
(* Who sent what the node holds, or may still get.                          *)

\* What the node has taken, and what is on its way, was signed and sent by a call.
SentBy(t) == \E d \in Calls : TxOf(d) = t /\ sends[d] > 0
Signed == \A t \in wire \cup known : SentBy(t)

\* A call that has sent has read all it signs.
SentLast == \A d \in Calls : /\ outcome[d] \in {"ok", "refused", "unknown"} => sends[d] > 0
                             /\ sends[d] > 0 => at[d] >= Len(Program[Kind[d]])

\* A refused call whose transaction the node has taken, or may get, sent it before,
\* or another call signed the same one.
HasTwin(c) == sends[c] > 1 \/ \E d \in Calls \ {c} : TxOf(d) = TxOf(c) /\ sends[d] > 0
Twins == \A c \in Calls :
           outcome[c] = "refused" /\ TxOf(c) \in wire \cup known => HasTwin(c)

\* A program sends in its last step, after it has read the nonce.
LEMMA SendsLast ==
  ASSUME NEW k \in Kinds
  PROVE  /\ Len(Program[k]) \in 3..5 /\ DOMAIN Program[k] = 1..Len(Program[k])
         /\ \A i \in 1..Len(Program[k]) : Program[k][i] = "send" <=> i = Len(Program[k])
         /\ \E i \in 1..(Len(Program[k]) - 1) : Program[k][i] = "nonce"
  <1> DEFINE Good(p) == /\ \A i \in 1..Len(p) : p[i] = "send" <=> i = Len(p)
                        /\ \E i \in 1..(Len(p) - 1) : p[i] = "nonce"
  <1>1. Good(TransferEthSteps)
    BY DEF TransferEthSteps
  <1>2. Good(TransactSteps) /\ TransferTokensSteps = TransactSteps
    BY DEF TransactSteps, TransferTokensSteps
  <1>3. Good(transfer_ethSteps)
    BY DEF transfer_ethSteps
  <1>4. Good(transfer_tokensSteps)
    BY DEF transfer_tokensSteps
  <1>5. Good(contract_deploySteps)
    BY DEF contract_deploySteps
  <1>6. Good(contract_writeSteps)
    BY DEF contract_writeSteps
  <1>7. Good(raw_createSteps \o raw_sendSteps)
    <2> DEFINE S == {"nonce", "price", "chain", "send"}  q == raw_createSteps \o raw_sendSteps
    <2>1. ASSUME NEW x \in Seq(S), NEW y \in Seq(S)
          PROVE  /\ Len(x \o y) = Len(x) + Len(y)
                 /\ \A i \in 1..Len(x) : (x \o y)[i] = x[i]
                 /\ \A i \in 1..Len(y) : (x \o y)[Len(x) + i] = y[i]
      OBVIOUS
    <2>2. /\ raw_createSteps \in Seq(S) /\ raw_sendSteps \in Seq(S)
          /\ Len(raw_createSteps) = 3 /\ Len(raw_sendSteps) = 1
          /\ raw_createSteps[1] = "nonce" /\ raw_createSteps[2] = "price"
          /\ raw_createSteps[3] = "chain" /\ raw_sendSteps[1] = "send"
      BY DEF raw_createSteps, raw_sendSteps
    <2>3. /\ Len(q) = 4 /\ q[1] = "nonce" /\ q[2] = "price" /\ q[3] = "chain" /\ q[4] = "send"
      <3> HIDE DEF S
      <3>1. /\ Len(q) = Len(raw_createSteps) + Len(raw_sendSteps)
            /\ \A i \in 1..Len(raw_createSteps) : q[i] = raw_createSteps[i]
            /\ \A i \in 1..Len(raw_sendSteps) : q[Len(raw_createSteps) + i] = raw_sendSteps[i]
        BY <2>1, <2>2, Zenon
      <3> HIDE DEF q
      <3> QED
        BY <3>1, <2>2
    <2> HIDE DEF q
    <2>4. Good(q)
      BY <2>3
    <2> QED
      BY <2>4 DEF q
  <1> HIDE DEF Good
  <1>8. Good(Program[k])
    BY <1>1, <1>2, <1>3, <1>4, <1>5, <1>6, <1>7 DEF Program, Kinds
  <1>9. /\ \A i \in 1..Len(Program[k]) : Program[k][i] = "send" <=> i = Len(Program[k])
        /\ \E i \in 1..(Len(Program[k]) - 1) : Program[k][i] = "nonce"
    BY <1>8 DEF Good
  <1> QED
    BY <1>9, ProgramLength

\* Where a call stands in its program.
LEMMA Standing ==
  ASSUME TypeOK, NEW c \in Calls
  PROVE  /\ Kind[c] \in Kinds /\ From[c] \in Accounts /\ at[c] \in Nat \ {0}
         /\ Len(Program[Kind[c]]) \in 3..5
         /\ Doing(c, "send") <=> at[c] = Len(Program[Kind[c]])
         /\ \A s : Doing(c, s) /\ s # "send" => at[c] < Len(Program[Kind[c]])
         /\ Returned(c) <=> at[c] > Len(Program[Kind[c]])
         /\ at[c] \in 1..Len(Program[Kind[c]]) \/ Returned(c)
         /\ Running(c) <=> at[c] > 1 /\ at[c] <= Len(Program[Kind[c]])
  <1>1. Kind[c] \in Kinds /\ From[c] \in Accounts /\ at[c] \in Nat \ {0}
    BY ConstantsOK DEF TypeOK
  <1>2. /\ Len(Program[Kind[c]]) \in 3..5 /\ DOMAIN Program[Kind[c]] = 1..Len(Program[Kind[c]])
        /\ \A i \in 1..Len(Program[Kind[c]]) :
             Program[Kind[c]][i] = "send" <=> i = Len(Program[Kind[c]])
    BY <1>1, SendsLast
  <1> QED
    BY <1>1, <1>2 DEF Doing, Returned, Running

-------------------------------------------------------------------------------
(* What the calls do.                                                      *)

\* Call d makes a request before its send, which touches no other call and not the
\* node; what it reads is its nonce, or a price.
Reads(d) == /\ at[d] < Len(Program[Kind[d]]) /\ at' = [at EXCEPT ![d] = @ + 1]
            /\ NoteStart(d)
            /\ UNCHANGED <<nodeVars, outcome, sends>>
            /\ \A e \in Calls : e # d => nonce'[e] = nonce[e] /\ price'[e] = price[e]
            /\ nonce'[d] = nonce[d] \/ (Doing(d, "nonce") /\ IsPendingNonce(From[d], nonce'[d]))
            /\ Doing(d, "nonce") => IsPendingNonce(From[d], nonce'[d])

\* A request before the send fails.
Fails(d) == /\ at[d] < Len(Program[Kind[d]]) /\ Return(d, "failed") /\ NoteStart(d)
            /\ UNCHANGED <<nodeVars, sends>>

\* What each step is to the calls.
LEMMA CallSteps ==
  ASSUME TypeOK, [Next]_vars
  PROVE  \/ \E d \in Calls : \/ Reads(d) \/ Fails(d) \/ SendAccepted(d) \/ SendRefused(d)
                             \/ SendAbandoned(d) \/ SendAgain(d)
         \/ UNCHANGED <<callVars, overlap>>
  <1>1. ASSUME NEW d \in Calls, Step(d) PROVE Reads(d) \/ Fails(d) \/ SendAccepted(d) \/ SendRefused(d)
                                              \/ SendAbandoned(d)
    <2>1. CASE ReadNonce(d)
      <3>1. Doing(d, "nonce") /\ at[d] < Len(Program[Kind[d]])
        BY <2>1, Standing DEF ReadNonce
      <3>2. PICK n \in 0..MaxNonce : IsPendingNonce(From[d], n) /\ nonce' = [nonce EXCEPT ![d] = n]
        BY <2>1 DEF ReadNonce
      <3>3. nonce'[d] = n /\ \A e \in Calls : e # d => nonce'[e] = nonce[e]
        BY <3>2 DEF TypeOK
      <3> QED
        BY <2>1, <3>1, <3>2, <3>3 DEF ReadNonce, Proceed, Reads
    <2>2. CASE ReadHead(d) \/ ReadPrice(d) \/ Ask(d)
      <3>1. PICK s \in {"head", "price", "estimate", "chain"} : Doing(d, s)
        BY <2>2 DEF ReadHead, ReadPrice, Ask
      <3>2. at[d] < Len(Program[Kind[d]]) /\ ~Doing(d, "nonce")
        BY <3>1, Standing DEF Doing
      <3>3. nonce' = nonce /\ \A e \in Calls : e # d => price'[e] = price[e]
        BY <2>2 DEF ReadHead, ReadPrice, Ask, TypeOK
      <3> QED
        BY <2>2, <3>2, <3>3 DEF ReadHead, ReadPrice, Ask, Proceed, Reads
    <2>3. CASE Fail(d)
      <3>1. at[d] < Len(Program[Kind[d]])
        BY <2>3, Standing DEF Fail
      <3> QED
        BY <2>3, <3>1 DEF Fail, Fails
    <2> QED
      BY <1>1, <2>1, <2>2, <2>3 DEF Step
  <1>2. ASSUME NEW t \in wire, LateArrival(t) \/ RequestLost(t) PROVE UNCHANGED <<callVars, overlap>>
    BY <1>2 DEF LateArrival, RequestLost
  <1>3. ASSUME (\E t \in known : Mine(t)) \/ \E a \in Accounts : Undo(a)
        PROVE  UNCHANGED <<callVars, overlap>>
    BY <1>3 DEF Mine, Undo
  <1>4. ASSUME Reset \/ \E t \in pool : Evict(t) PROVE UNCHANGED <<callVars, overlap>>
    BY <1>4 DEF Reset, Evict
  <1>5. CASE UNCHANGED vars
    BY <1>5 DEF vars
  <1> QED
    BY <1>1, <1>2, <1>3, <1>4, <1>5 DEF Next

\* What a call that has sent signs stays what it is, and it has sent it.
LEMMA SentStep ==
  TypeOK /\ SentLast /\ [Next]_vars =>
    /\ SentLast'
    /\ \A c \in Calls : sends[c] > 0 => TxOf(c)' = TxOf(c) /\ sends'[c] >= sends[c]
  <1> SUFFICES ASSUME TypeOK, SentLast, [Next]_vars
               PROVE  /\ SentLast'
                      /\ \A c \in Calls : sends[c] > 0 => TxOf(c)' = TxOf(c) /\ sends'[c] >= sends[c]
    OBVIOUS
  <1>1. ASSUME NEW c \in Calls
        PROVE  /\ outcome'[c] \in {"ok", "refused", "unknown"} => sends'[c] > 0
               /\ sends'[c] > 0 => at'[c] >= Len(Program[Kind[c]])
               /\ sends[c] > 0 => nonce'[c] = nonce[c] /\ price'[c] = price[c]
               /\ sends'[c] >= sends[c]
    <2>0. /\ sends[c] \in Nat /\ at[c] \in Nat /\ Len(Program[Kind[c]]) \in 3..5
          /\ outcome[c] \in {"ok", "refused", "unknown"} => sends[c] > 0
          /\ sends[c] > 0 => at[c] >= Len(Program[Kind[c]])
      BY Standing DEF TypeOK, SentLast
    <2>1. CASE UNCHANGED <<callVars, overlap>>
      BY <2>0, <2>1 DEF callVars
    <2>2. ASSUME NEW d \in Calls, d # c, \/ Reads(d) \/ Fails(d) \/ SendAccepted(d) \/ SendRefused(d)
                                         \/ SendAbandoned(d) \/ SendAgain(d)
          PROVE  /\ outcome'[c] = outcome[c] /\ sends'[c] = sends[c] /\ at'[c] = at[c]
                 /\ nonce'[c] = nonce[c] /\ price'[c] = price[c]
      BY <2>2 DEF TypeOK, Reads, Fails, SendAccepted, SendRefused, SendAbandoned, SendAgain, Send,
          Return
    <2>3. CASE Reads(c)
      BY <2>0, <2>3 DEF Reads, TypeOK
    <2>4. CASE Fails(c)
      BY <2>0, <2>4 DEF Fails, Return, TypeOK
    <2>5. CASE SendAccepted(c) \/ SendRefused(c) \/ SendAbandoned(c)
      <3>1. /\ sends'[c] = sends[c] + 1 /\ at'[c] = Len(Program[Kind[c]]) + 1
            /\ nonce' = nonce /\ price' = price
        BY <2>5 DEF SendAccepted, SendRefused, SendAbandoned, Send, Return, TypeOK
      <3> QED
        BY <2>0, <3>1
    <2>6. CASE SendAgain(c)
      BY <2>0, <2>6 DEF SendAgain, TypeOK
    <2> QED
      BY <2>0, <2>1, <2>2, <2>3, <2>4, <2>5, <2>6, CallSteps
  <1> QED
    BY <1>1 DEF SentLast, TxOf, SignerChain

-------------------------------------------------------------------------------
(* What the node may come to take.                                         *)

\* A transaction the node has taken was taken before, or is accepted now, from a
\* call or from the wire; what is on the wire was, or is abandoned now.
LEMMA Comes ==
  ASSUME TypeOK, [Next]_vars
  PROVE  /\ \A t \in known' :
              \/ t \in known
              \/ t \in wire /\ t \in pool'
              \/ \E c \in Calls : SendAccepted(c) /\ t = TxOf(c)
         /\ \A t \in wire' : t \in wire \/ \E c \in Calls : SendAbandoned(c) /\ t = TxOf(c)
  <1> DEFINE Goal == \A t \in known' :
                       \/ t \in known
                       \/ t \in wire /\ t \in pool'
                       \/ \E c \in Calls : SendAccepted(c) /\ t = TxOf(c)
             Wire == \A t \in wire' : t \in wire \/ \E c \in Calls : SendAbandoned(c) /\ t = TxOf(c)
  <1> SUFFICES Goal /\ Wire
    OBVIOUS
  <1>1. ASSUME NEW c \in Calls, Step(c) \/ SendAgain(c) PROVE Goal /\ Wire
    <2>1. CASE SendAccepted(c)
      BY <2>1 DEF SendAccepted, PoolAdd
    <2>2. CASE SendAbandoned(c)
      BY <2>2 DEF SendAbandoned, poolVars
    <2>3. CASE ~SendAccepted(c) /\ ~SendAbandoned(c)
      BY <1>1, <2>3 DEF Step, ReadNonce, ReadHead, ReadPrice, Ask, Proceed, Fail, SendRefused,
          SendAgain, nodeVars, poolVars
    <2> QED
      BY <2>1, <2>2, <2>3
  <1>2. ASSUME NEW u \in wire, LateArrival(u) \/ RequestLost(u) PROVE Goal /\ Wire
    BY <1>2 DEF LateArrival, RequestLost, PoolAdd, poolVars
  <1>3. ASSUME (\E t \in known : Mine(t)) \/ \E a \in Accounts : Undo(a) PROVE Goal /\ Wire
    BY <1>3 DEF Mine, Undo, poolVars
  <1>4. ASSUME Reset \/ \E u \in pool : Evict(u) PROVE Goal /\ Wire
    BY <1>4 DEF Reset, Evict
  <1>5. CASE UNCHANGED vars
    BY <1>5 DEF vars, nodeVars, poolVars
  <1> QED
    BY <1>1, <1>2, <1>3, <1>4, <1>5 DEF Next

\* Everything the node has taken or may still get was sent by some call.
LEMMA SignedStep ==
  TypeOK /\ TypeOK' /\ SentLast /\ Signed /\ [Next]_vars => Signed'
  <1> SUFFICES ASSUME TypeOK, TypeOK', SentLast, Signed, [Next]_vars, NEW t \in (wire \cup known)'
               PROVE  \E d \in Calls : TxOf(d)' = t /\ sends'[d] > 0
    BY DEF Signed, SentBy
  <1>1. ASSUME NEW c \in Calls, sends[c] > 0 PROVE TxOf(c)' = TxOf(c) /\ sends'[c] > 0
    BY <1>1, SentStep DEF TypeOK
  <1>2. CASE t \in wire \cup known
    BY <1>1, <1>2 DEF Signed, SentBy
  <1>3. ASSUME NEW c \in Calls, SendAccepted(c) \/ SendAbandoned(c)
        PROVE  TxOf(c)' = TxOf(c) /\ sends'[c] > 0
    BY <1>3 DEF SendAccepted, SendAbandoned, Send, Return, TypeOK, TxOf, SignerChain
  <1> QED
    BY <1>2, <1>3, Comes

\* A call that was refused and whose transaction is taken all the same has a twin: it
\* sent before, or another call signed the same and sent it.
LEMMA TwinsStep ==
  TypeOK /\ TypeOK' /\ SentLast /\ Signed /\ Twins /\ [Next]_vars => Twins'
  <1> SUFFICES ASSUME TypeOK, TypeOK', SentLast, Signed, Twins, [Next]_vars,
                      NEW c \in Calls, outcome'[c] = "refused",
                      TxOf(c)' \in wire' \cup known'
               PROVE  HasTwin(c)'
    BY DEF Twins
  <1>0. From[c] \in Accounts /\ sends[c] \in Nat /\ sends'[c] \in Nat
    BY ConstantsOK DEF TypeOK
  <1>1. \A d \in Calls : sends[d] > 0 => TxOf(d)' = TxOf(d) /\ sends'[d] >= sends[d] /\ sends'[d] > 0
    BY SentStep DEF TypeOK
  <1>2. ASSUME sends[c] > 0, HasTwin(c) PROVE HasTwin(c)'
    <2>1. sends'[c] >= sends[c] /\ TxOf(c)' = TxOf(c)
      BY <1>1, <1>2
    <2>2. CASE sends[c] > 1
      BY <2>1, <2>2, <1>0 DEF HasTwin
    <2>3. ASSUME NEW d \in Calls \ {c}, TxOf(d) = TxOf(c), sends[d] > 0 PROVE HasTwin(c)'
      BY <2>1, <2>3, <1>1 DEF HasTwin
    <2> QED
      BY <2>2, <2>3, <1>2 DEF HasTwin
  <1>3. CASE outcome[c] = "refused"
    <2>1. sends[c] > 0 /\ TxOf(c)' = TxOf(c)
      BY <1>1, <1>3 DEF SentLast
    <2>2. CASE TxOf(c) \in wire \cup known
      BY <2>1, <2>2, <1>2, <1>3 DEF Twins
    <2>3. CASE \E d \in Calls : (SendAccepted(d) \/ SendAbandoned(d)) /\ TxOf(c) = TxOf(d)
      <3>1. PICK d \in Calls : (SendAccepted(d) \/ SendAbandoned(d)) /\ TxOf(c) = TxOf(d)
        BY <2>3
      <3>2. /\ outcome'[d] \in {"ok", "unknown"} /\ sends'[d] > 0
            /\ nonce' = nonce /\ price' = price
        BY <3>1 DEF SendAccepted, SendAbandoned, Send, Return, TypeOK
      <3>3. d # c /\ TxOf(d)' = TxOf(d)
        BY <3>2 DEF TxOf, SignerChain
      <3> QED
        BY <3>1, <3>2, <3>3, <2>1 DEF HasTwin
    <2> QED
      BY <2>1, <2>2, <2>3, <1>0, Comes
  <1>4. CASE outcome[c] # "refused"
    <2>1. SendRefused(c)
      <3>1. CASE \E d \in Calls : Reads(d)
        BY <3>1, <1>4 DEF Reads
      <3>2. CASE \E d \in Calls : Fails(d) \/ SendAccepted(d) \/ SendAbandoned(d) \/ SendAgain(d)
        BY <3>2, <1>4 DEF Fails, SendAccepted, SendAbandoned, SendAgain, Return, TypeOK
      <3>3. ASSUME NEW d \in Calls, SendRefused(d), d # c PROVE FALSE
        BY <3>3, <1>4 DEF SendRefused, Return, TypeOK
      <3>4. CASE UNCHANGED <<callVars, overlap>>
        BY <3>4, <1>4 DEF callVars
      <3> QED
        BY <3>1, <3>2, <3>3, <3>4, CallSteps
    <2>2. /\ sends'[c] = sends[c] + 1 /\ TxOf(c)' = TxOf(c)
          /\ wire' = wire /\ known' = known
      BY <2>1 DEF SendRefused, Send, Return, TypeOK, TxOf, SignerChain, nodeVars, poolVars
    <2>3. CASE sends[c] > 0
      BY <2>2, <2>3, <1>0 DEF HasTwin
    <2>4. CASE sends[c] = 0
      <3>1. PICK d \in Calls : TxOf(d) = TxOf(c) /\ sends[d] > 0
        BY <2>2, <1>0 DEF Signed, SentBy
      <3> QED
        BY <3>1, <2>2, <2>4, <1>1 DEF HasTwin
    <2> QED
      BY <2>3, <2>4, <1>0
  <1> QED
    BY <1>3, <1>4

\* A call the node refused has its transaction taken all the same only when an equal
\* one was sent by another call, or by itself before.
THEOREM RefusedIsTwin == Spec => []RefusedButHeldHasATwin
  <1>1. Init => SentLast /\ Signed /\ Twins
    BY DEF Init, SentLast, Signed, Twins
  <1>2. Twins => RefusedButHeldHasATwin
    BY DEF Twins, RefusedButHeldHasATwin, HasTwin
  <1>3. TypeOK /\ SentLast /\ [Next]_vars => SentLast'
    BY SentStep
  <1> QED
    BY <1>1, <1>2, <1>3, TypeCorrect, SignedStep, TwinsStep, PTL DEF Spec

-------------------------------------------------------------------------------
(* Calls that run one after another.                                       *)

\* The nonce that the call will sign is known.
NonceRead(d) == \E i \in DOMAIN Program[Kind[d]] : i < at[d] /\ Program[Kind[d]][i] = "nonce"

\* Of an account one call runs; what is on the wire is its own, of an earlier send.
OneRuns == \A c, d \in Calls : From[c] = From[d] /\ Running(c) /\ Running(d) => c = d
WireOwn == \A d \in Calls, t \in wire :
             Running(d) /\ t.from = From[d] => t = TxOf(d) /\ sends[d] > 0

\* All the node ever took of an account.
Of(a) == {t \in known : t.from = a}

\* What is on the wire, or will be signed, has a nonce above all that was taken.
WireOne == \A t, u \in wire : t.from = u.from => t = u
WireAbove == \A t \in wire : \A u \in Of(t.from) : u = t \/ u.nonce < t.nonce
RunAbove == \A d \in Calls :
              Running(d) /\ NonceRead(d) =>
                \A u \in Of(From[d]) : u.nonce < nonce[d] \/ (u = TxOf(d) /\ sends[d] > 0)

\* What was accepted was taken, and all that was taken is held: itself and not what
\* outbid it, or what a block gave its nonce to.
AllTaken == \A c \in Calls : outcome[c] = "ok" => TxOf(c) \in known
AllHeld == \A t \in known : t \in Held(t.from)

\* What holds as long as no two calls of an account ran at once.
Alone == ~overlap /\ evicted = {} =>
           OneRuns /\ WireOwn /\ WireOne /\ WireAbove /\ RunAbove /\ AllTaken /\ AllHeld

\* The pending nonce is above all that is held, while nothing was evicted.
LEMMA PendingAbove ==
  ASSUME TypeOK, Settled, NothingSkipped, evicted = {}, NEW a \in Accounts, NEW n \in Nat,
         IsPendingNonce(a, n), NEW u \in Held(a)
  PROVE  u.nonce < n
  <1>1. Len(base[a]) \in Nat /\ n >= Len(base[a]) /\ ~Taken(a, n)
    BY BlockFacts DEF IsPendingNonce, Taken
  <1>2. CASE u \in InBlocks(base[a])
    BY <1>1, <1>2, BlockFacts
  <1>3. CASE u \in pool /\ u.from = a
    <2>1. u.nonce \in Nat /\ BelowTaken(a, u.nonce)
      BY <1>3 DEF TypeOK, Tx, NothingSkipped
    <2>2. u.nonce # n
      BY <1>1, <1>3 DEF Taken
    <2>3. CASE u.nonce > n
      <3>1. n \in 0..(u.nonce - 1)
        BY <2>1, <2>3
      <3> QED
        BY <2>1, <3>1, <1>1 DEF BelowTaken
    <2> QED
      BY <2>1, <2>2, <2>3
  <1> QED
    BY <1>2, <1>3 DEF Held

\* A call that runs did so before; or it starts, with no other call of the account
\* running and nothing of it on the wire; or it sends again, as the only call that
\* was started.
LEMMA Starts ==
  ASSUME TypeOK, [Next]_vars, ~overlap', NEW c \in Calls, Running(c)'
  PROVE  \/ Running(c) /\ ~SendAgain(c)
         \/ /\ \A d \in Calls : From[d] = From[c] => ~Running(d)
            /\ \A t \in wire : t.from # From[c]
            /\ Reads(c)
         \/ /\ \A d \in Calls : d # c /\ From[d] = From[c] => at[d] = 1
            /\ SendAgain(c)
  <1>1. CASE SendAgain(c)
    <2>1. ASSUME NEW d \in Calls, d # c, From[d] = From[c] PROVE at[d] = 1
      <3>1. ~(at[d] > 1)
        BY <1>1, <2>1 DEF SendAgain
      <3> QED
        BY <3>1, Standing
    <2> QED
      BY <1>1, <2>1
  <1>2. CASE ~SendAgain(c) /\ ~Running(c)
    <2>1. Len(Program[Kind[c]]) \in 3..5 /\ at[c] \in Nat \ {0}
          /\ (at[c] = 1 \/ at[c] > Len(Program[Kind[c]]))
          /\ at'[c] > 1 /\ at'[c] <= Len(Program[Kind[c]])
      <3>1. Len(Program[Kind[c]]) \in 3..5 /\ at[c] \in Nat \ {0} /\ at'[c] \in Nat
        BY Standing, TypeStep DEF TypeOK
      <3> QED
        BY <3>1, <1>2 DEF Running, Returned
    <2>2. at'[c] # at[c]
      BY <2>1
    <2>3. ASSUME NEW d \in Calls, d # c, Reads(d) \/ SendAgain(d) PROVE FALSE
      BY <2>2, <2>3 DEF Reads, SendAgain, TypeOK
    <2>4. ASSUME NEW d \in Calls, Fails(d) \/ SendAccepted(d) \/ SendRefused(d) \/ SendAbandoned(d)
          PROVE FALSE
      <3>1. at' = [at EXCEPT ![d] = Len(Program[Kind[d]]) + 1]
        BY <2>4 DEF Fails, SendAccepted, SendRefused, SendAbandoned, Return
      <3> QED
        BY <3>1, <2>1, <2>2 DEF TypeOK
    <2>5. Reads(c)
      BY <1>2, <2>2, <2>3, <2>4, CallSteps DEF callVars
    <2>6. at[c] = 1
      BY <2>1, <2>5 DEF Reads
    <2>7. NoteStart(c)
      BY <2>5 DEF Reads
    <2> QED
      BY <2>5, <2>6, <2>7 DEF NoteStart
  <1> QED
    BY <1>1, <1>2

\* While one call sends, the others stand still.
LEMMA OthersStand ==
  ASSUME TypeOK, [Next]_vars, NEW c \in Calls, SendAccepted(c) \/ SendAbandoned(c)
  PROVE  /\ Running(c) /\ NonceRead(c) /\ ~Running(c)'
         /\ \A d \in Calls : d # c => at'[d] = at[d] /\ (Running(d)' => Running(d))
         /\ UNCHANGED <<nonce, price>>
  <1>1. at[c] = Len(Program[Kind[c]]) /\ Len(Program[Kind[c]]) \in 3..5 /\ Kind[c] \in Kinds
    BY Standing DEF SendAccepted, SendAbandoned, Send
  <1>2. at' = [at EXCEPT ![c] = Len(Program[Kind[c]]) + 1] /\ nonce' = nonce /\ price' = price
    BY DEF SendAccepted, SendAbandoned, Return
  <1>3. Running(c)
    <2>1. ASSUME NEW m, NEW n \in 3..5, m = n PROVE m > 1 /\ ~(m > n)
      BY <2>1
    <2>2. at[c] > 1 /\ ~(at[c] > Len(Program[Kind[c]]))
      BY <1>1, <2>1
    <2> QED
      BY <2>2 DEF Running, Returned
  <1>4. NonceRead(c)
    <2>1. PICK i \in 1..(Len(Program[Kind[c]]) - 1) : Program[Kind[c]][i] = "nonce"
      BY <1>1, SendsLast
    <2>2. i \in DOMAIN Program[Kind[c]] /\ i < at[c]
      BY <1>1, SendsLast
    <2> QED
      BY <2>1, <2>2 DEF NonceRead
  <1>5. ~Running(c)'
    BY <1>1, <1>2 DEF Running, Returned, TypeOK
  <1>6. \A d \in Calls : d # c => at'[d] = at[d] /\ (Running(d)' => Running(d))
    BY <1>2 DEF Running, Returned, TypeOK
  <1> QED
    BY <1>2, <1>3, <1>4, <1>5, <1>6

\* What the node holds it keeps, unless it evicts it, or another of its nonce is
\* accepted or in a block.
LEMMA Stays ==
  ASSUME TypeOK, TypeOK', Settled, Recorded, [Next]_vars, evicted' = {}, NEW a \in Accounts,
         NEW u \in Held(a)
  PROVE  \/ u \in Held(a)'
         \/ \E t \in wire : t.from = a /\ t.nonce = u.nonce /\ t # u
         \/ \E c \in Calls : SendAccepted(c) /\ From[c] = a /\ nonce[c] = u.nonce /\ TxOf(c) # u
         \/ \E t \in known : t.from = a /\ t.nonce = u.nonce /\ t \in Held(a)'
  <1>1. ASSUME NEW c \in Calls, Step(c) \/ SendAgain(c), ~SendAccepted(c) PROVE u \in Held(a)'
    <2>1. UNCHANGED <<pool, base>>
      BY <1>1 DEF Step, ReadNonce, ReadHead, ReadPrice, Ask, Proceed, Fail, SendRefused,
          SendAbandoned, SendAgain, nodeVars, poolVars
    <2> QED
      BY <2>1 DEF Held
  <1>2. ASSUME NEW c \in Calls, SendAccepted(c), u \notin Held(a)'
        PROVE  From[c] = a /\ nonce[c] = u.nonce /\ TxOf(c) # u
    <2>1. pool' = (pool \ Rivals(TxOf(c))) \cup {TxOf(c)} /\ base' = base
      BY <1>2 DEF SendAccepted, PoolAdd
    <2>2. u \in Rivals(TxOf(c)) /\ u # TxOf(c) /\ u.from = a
      BY <2>1, <1>2 DEF Held
    <2> QED
      BY <2>2 DEF Rivals, TxOf
  <1>3. ASSUME NEW t \in wire, LateArrival(t), u \notin Held(a)'
        PROVE  t.from = a /\ t.nonce = u.nonce /\ t # u
    <2>1. pool' = (pool \ Rivals(t)) \cup {t} /\ base' = base
      BY <1>3 DEF LateArrival, PoolAdd, Held, poolVars
    <2>2. u \in Rivals(t) /\ u # t /\ u.from = a
      BY <2>1, <1>3 DEF Held
    <2> QED
      BY <2>2 DEF Rivals
  <1>4. ASSUME NEW t \in wire, RequestLost(t) PROVE u \in Held(a)'
    BY <1>4 DEF RequestLost, Held, poolVars
  <1>5. ASSUME (\E t \in known : Mine(t)) \/ \E b \in Accounts : Undo(b) PROVE u \in Held(a)'
    BY <1>5 DEF Mine, Undo, Held, poolVars
  <1>6. ASSUME NEW t \in pool, Evict(t) PROVE FALSE
    BY <1>6 DEF Evict
  <1>7. CASE UNCHANGED vars
    BY <1>7 DEF vars, nodeVars, poolVars, Held
  <1>8. CASE Reset
    BY <1>8, ResetKeepsOrMined DEF Recorded
  <1> QED
    BY <1>1, <1>2, <1>3, <1>4, <1>5, <1>6, <1>7, <1>8 DEF Next

\* Calls that run one after another go on doing so, each above those before it.
LEMMA AloneStep ==
  TypeOK /\ TypeOK' /\ Settled /\ Settled' /\ Recorded /\ NothingSkipped /\ OkReturned /\ SentLast
    /\ Signed /\ Alone /\ [Next]_vars => Alone'
  <1> SUFFICES ASSUME TypeOK, TypeOK', Settled, Settled', Recorded, NothingSkipped, OkReturned,
                      SentLast, Signed, Alone, [Next]_vars, ~overlap', evicted' = {}
               PROVE  /\ OneRuns' /\ WireOwn' /\ WireOne' /\ WireAbove' /\ RunAbove'
                      /\ AllTaken' /\ AllHeld'
    BY DEF Alone
  <1>1. evicted = {} /\ ~overlap
    <2>1. evicted = {}
      BY Origin
    <2>2. overlap \in BOOLEAN /\ overlap' \in BOOLEAN
      BY DEF TypeOK
    <2>3. overlap => overlap'
      BY <2>2, CallSteps DEF Reads, Fails, NoteStart, SendAccepted, SendRefused, SendAbandoned,
          SendAgain, nodeVars
    <2> QED
      BY <2>1, <2>3
  <1>2. OneRuns /\ WireOwn /\ WireOne /\ WireAbove /\ RunAbove /\ AllTaken /\ AllHeld
    BY <1>1 DEF Alone
  <1>3. \A c \in Calls : sends[c] > 0 => TxOf(c)' = TxOf(c) /\ sends'[c] > 0
    BY SentStep DEF TypeOK
  <1>4. \A c \in Calls : TxOf(c).from = From[c] /\ TxOf(c).nonce = nonce[c]
    BY DEF TxOf
  <1>5. ASSUME NEW c \in Calls, NEW t, SentBy(t), t.from = From[c],
               \A d \in Calls : d # c /\ From[d] = From[c] => at[d] = 1
        PROVE  t = TxOf(c) /\ sends[c] > 0
    <2>1. PICK e \in Calls : TxOf(e) = t /\ sends[e] > 0
      BY <1>5 DEF SentBy
    <2>2. /\ at[e] >= Len(Program[Kind[e]]) /\ Len(Program[Kind[e]]) \in 3..5 /\ From[e] = From[c]
          /\ at[e] \in Nat
      BY <2>1, <1>4, <1>5, Standing DEF SentLast
    <2>4. ASSUME NEW m \in Nat, NEW n \in 3..5, m >= n PROVE m # 1
      BY <2>4
    <2>3. at[e] # 1
      BY <2>2, <2>4, Zenon
    <2> QED
      BY <2>1, <2>2, <2>3, <1>5
  <1>6. OneRuns'
    <2> SUFFICES ASSUME NEW c \in Calls, NEW d \in Calls, From[c] = From[d], Running(c)', Running(d)'
                 PROVE  c = d
      BY DEF OneRuns
    <2>1. \A e \in Calls : at[e] = 1 => ~Running(e)
      BY DEF Running
    <2>2. ASSUME NEW e \in Calls, NEW f \in Calls, e # f, From[e] = From[f], Running(e)', Running(f)',
                 Reads(e) \/ SendAgain(e), \A g \in Calls : g # e /\ From[g] = From[e] => ~Running(g)
          PROVE  FALSE
      <3>1. at'[f] = at[f]
        BY <2>2 DEF Reads, SendAgain, TypeOK
      <3>2. Running(f)
        BY <2>2, <3>1 DEF Running, Returned
      <3> QED
        BY <2>2, <3>2
    <2>3. CASE Running(c) /\ Running(d)
      BY <2>3, <1>2 DEF OneRuns
    <2>4. CASE ~Running(c) \/ ~Running(d)
      BY <2>1, <2>2, <2>4, Starts
    <2> QED
      BY <2>3, <2>4
  <1>7. WireOwn'
    <2> SUFFICES ASSUME NEW d \in Calls, NEW t \in wire', Running(d)', t.from = From[d]
                 PROVE  t = TxOf(d)' /\ sends'[d] > 0
      BY DEF WireOwn
    <2>1. CASE t \in wire
      <3>1. t = TxOf(d) /\ sends[d] > 0
        BY <2>1, <1>2, <1>5, Starts DEF WireOwn, Signed
      <3> QED
        BY <3>1, <1>3
    <2>2. ASSUME NEW c \in Calls, SendAbandoned(c), t = TxOf(c) PROVE FALSE
      <3>1. From[c] = From[d] /\ c # d /\ Running(c) /\ Running(d)
        BY <2>2, <1>4, OthersStand
      <3> QED
        BY <3>1, <1>2 DEF OneRuns
    <2> QED
      BY <2>1, <2>2, Comes
  <1>8. WireOne'
    <2>1. ASSUME NEW c \in Calls, SendAbandoned(c) PROVE WireOne'
      <3>1. wire' = wire \cup {TxOf(c)} /\ Running(c)
        BY <2>1, OthersStand DEF SendAbandoned
      <3>2. \A t \in wire : t.from = From[c] => t = TxOf(c)
        BY <3>1, <1>2 DEF WireOwn
      <3> QED
        BY <3>1, <3>2, <1>2, <1>4 DEF WireOne
    <2>2. CASE \A c \in Calls : ~SendAbandoned(c)
      <3>1. \A t \in wire' : t \in wire
        BY <2>2, Comes
      <3> QED
        BY <3>1, <1>2 DEF WireOne
    <2> QED
      BY <2>1, <2>2
  <1>9. WireAbove'
    <2> SUFFICES ASSUME NEW t \in wire', NEW u \in Of(t.from)' PROVE u = t \/ u.nonce < t.nonce
      BY DEF WireAbove
    <2>0. t.from \in Accounts
      BY DEF TypeOK, Tx
    <2>1. ASSUME NEW c \in Calls, SendAbandoned(c), t = TxOf(c) PROVE u = t \/ u.nonce < t.nonce
      <3>1. Of(From[c])' = Of(From[c]) /\ Running(c) /\ NonceRead(c)
        BY <2>1, OthersStand DEF SendAbandoned, Of, poolVars
      <3> QED
        BY <2>1, <3>1, <1>2, <1>4 DEF RunAbove
    <2>2. CASE t \in wire
      <3>1. CASE u \in Of(t.from)
        BY <2>2, <3>1, <1>2 DEF WireAbove
      <3>2. CASE u.from = t.from /\ u \in wire
        BY <2>2, <3>2, <1>2 DEF WireOne
      <3>3. ASSUME NEW c \in Calls, SendAccepted(c), u = TxOf(c), From[c] = t.from PROVE u = t
        <4>1. Running(c)
          BY <3>3, OthersStand
        <4> QED
          BY <2>2, <3>3, <4>1, <1>2 DEF WireOwn
      <3> QED
        BY <2>0, <3>1, <3>2, <3>3, <1>4, Comes DEF Of
    <2> QED
      BY <2>1, <2>2, Comes
  <1>10. RunAbove'
    <2> SUFFICES ASSUME NEW d \in Calls, Running(d)', NonceRead(d)', NEW u \in Of(From[d])'
                 PROVE  u.nonce < nonce'[d] \/ (u = TxOf(d)' /\ sends'[d] > 0)
      BY DEF RunAbove
    <2>0. From[d] \in Accounts
      BY Standing
    <2>1. CASE SendAgain(d) /\ \A e \in Calls : e # d /\ From[e] = From[d] => at[e] = 1
      <3>1. u \in Of(From[d])
        BY <2>1 DEF SendAgain, nodeVars, poolVars, Of
      <3>2. SentBy(u) /\ u.from = From[d]
        BY <2>0, <3>1 DEF Signed, Of
      <3>3. u = TxOf(d) /\ sends[d] > 0
        BY <2>1, <3>2, <1>5
      <3> QED
        BY <3>3, <1>3
    <2>2. CASE Reads(d)
      <3>1. u \in Of(From[d]) /\ nonce'[d] \in Nat /\ u \in Held(From[d])
        BY <2>2, <1>2 DEF Reads, nodeVars, poolVars, Of, TypeOK, AllHeld
      <3>2. CASE Doing(d, "nonce")
        <4>1. IsPendingNonce(From[d], nonce'[d])
          BY <2>2, <3>2 DEF Reads
        <4> QED
          BY <2>0, <3>1, <4>1, <1>1, PendingAbove
      <3>3. CASE ~Doing(d, "nonce")
        <4>1. at'[d] = at[d] + 1 /\ nonce'[d] = nonce[d] /\ at[d] \in Nat \ {0} /\ sends'[d] = sends[d]
          BY <2>2, <3>3 DEF Reads, TypeOK
        <4>2. PICK i \in DOMAIN Program[Kind[d]] : i < at'[d] /\ Program[Kind[d]][i] = "nonce"
          BY DEF NonceRead
        <4>3. i \in Nat /\ i # at[d] /\ i # 0
          BY <4>2, <3>3, Standing, SendsLast DEF Doing
        <4>4. i < at[d] /\ at[d] > 1
          BY <4>1, <4>2, <4>3
        <4>5. NonceRead(d) /\ Running(d)
          BY <2>2, <4>2, <4>4, Standing DEF NonceRead, Reads
        <4> QED
          BY <3>1, <4>1, <4>5, <1>2, <1>3 DEF RunAbove
      <3> QED
        BY <3>2, <3>3
    <2>3. CASE Running(d) /\ ~SendAgain(d) /\ ~Reads(d)
      <3>1. at'[d] = at[d] /\ nonce'[d] = nonce[d]
        <4>1. ASSUME NEW e \in Calls, \/ Reads(e) \/ Fails(e) \/ SendAccepted(e) \/ SendRefused(e)
                                      \/ SendAbandoned(e) \/ SendAgain(e)
              PROVE  e # d
          <5>1. ASSUME at' = [at EXCEPT ![d] = Len(Program[Kind[d]]) + 1] PROVE FALSE
            <6>1. at'[d] = Len(Program[Kind[d]]) + 1 /\ Len(Program[Kind[d]]) \in 3..5
              BY <5>1, Standing DEF TypeOK
            <6>2. ~(at'[d] > Len(Program[Kind[d]]))
              BY DEF Running, Returned
            <6>3. ASSUME NEW n \in 3..5 PROVE n + 1 > n
              OBVIOUS
            <6> QED
              BY <6>1, <6>2, <6>3
          <5> QED
            BY <2>3, <4>1, <5>1 DEF Fails, SendAccepted, SendRefused, SendAbandoned, Return
        <4> QED
          BY <4>1, CallSteps DEF Reads, Fails, SendAccepted, SendRefused, SendAbandoned, SendAgain,
              Return, callVars, TypeOK
      <3>2. NonceRead(d)
        BY <3>1 DEF NonceRead
      <3>3. CASE u \in Of(From[d])
        BY <2>3, <3>1, <3>2, <3>3, <1>2, <1>3 DEF RunAbove
      <3>4. CASE u.from = From[d] /\ u \in wire
        BY <2>3, <3>4, <1>2, <1>3 DEF WireOwn
      <3>5. ASSUME NEW c \in Calls, SendAccepted(c), From[c] = From[d] PROVE FALSE
        BY <2>3, <3>5, <1>2, OthersStand DEF OneRuns
      <3>6. u \in known' /\ u.from = From[d]
        BY DEF Of
      <3>7. CASE u \in known
        BY <3>3, <3>6, <3>7 DEF Of
      <3>8. CASE \E c \in Calls : SendAccepted(c) /\ u = TxOf(c)
        BY <3>5, <3>6, <3>8, <1>4
      <3> QED
        BY <3>4, <3>6, <3>7, <3>8, Comes
    <2> QED
      BY <2>1, <2>2, <2>3, Starts
  <1>11. AllTaken'
    <2> SUFFICES ASSUME NEW c \in Calls, outcome'[c] = "ok" PROVE TxOf(c)' \in known'
      BY DEF AllTaken
    <2>1. CASE SendAccepted(c)
      BY <2>1 DEF SendAccepted, PoolAdd, Return, TxOf, SignerChain
    <2>2. CASE outcome[c] = "ok" /\ nonce'[c] = nonce[c] /\ price'[c] = price[c]
      <3>1. TxOf(c)' = TxOf(c) /\ TxOf(c) \in known
        BY <2>2, <1>2 DEF TxOf, SignerChain, AllTaken
      <3>2. known \subseteq known'
        BY NodeSteps DEF NodeStep, Added, PoolAdd, Reset, Evict, poolVars
      <3> QED
        BY <3>1, <3>2
    <2> QED
      BY <2>1, <2>2, OkStep
  <1>12. AllHeld'
    <2> SUFFICES ASSUME NEW u \in known' PROVE u \in Held(u.from)'
      BY DEF AllHeld
    <2>0. u.from \in Accounts /\ u.nonce \in Nat
      BY DEF TypeOK, Tx
    <2>1. CASE u \in pool'
      BY <2>1 DEF Held
    <2>2. ASSUME NEW c \in Calls, SendAccepted(c), u = TxOf(c) PROVE u \in pool'
      BY <2>2 DEF SendAccepted, PoolAdd
    <2>3. CASE u \in known
      <3>1. u \in Held(u.from) /\ u \in Of(u.from)
        BY <2>3, <1>2 DEF AllHeld, Of
      <3>2. ASSUME NEW t \in wire, t.from = u.from, t.nonce = u.nonce PROVE t = u
        BY <3>1, <3>2, <2>0, <1>2 DEF WireAbove
      <3>3. ASSUME NEW c \in Calls, SendAccepted(c), From[c] = u.from, nonce[c] = u.nonce
            PROVE  TxOf(c) = u
        BY <3>1, <3>3, <2>0, <1>2, OthersStand DEF RunAbove
      <3>4. ASSUME NEW t \in known, t.from = u.from, t.nonce = u.nonce PROVE t = u
        <4>1. t \in Held(u.from)
          BY <3>4, <1>2 DEF AllHeld
        <4> QED
          BY <2>0, <3>1, <3>4, <4>1, SettledImpliesOneHolder DEF OneHolderPerNonce
      <3> QED
        BY <2>0, <3>1, <3>2, <3>3, <3>4, Stays
    <2> QED
      BY <2>1, <2>2, <2>3, Comes
  <1> QED
    BY <1>6, <1>7, <1>8, <1>9, <1>10, <1>11, <1>12

\* Calls that run one after another, with no request left on its way, all pay while
\* the pool evicts nothing.
THEOREM AlonePays == Spec => []LoneCallsAllPay
  <1>1. Init => /\ Settled /\ Recorded /\ NothingSkipped /\ OkReturned /\ OfferHolds /\ SentLast
                /\ Signed /\ Alone
    <2> SUFFICES ASSUME Init
                 PROVE  /\ Settled /\ Recorded /\ NothingSkipped /\ OkReturned /\ OfferHolds
                        /\ SentLast /\ Signed /\ Alone
      OBVIOUS
    <2>1. Settled /\ Recorded /\ NothingSkipped /\ OkReturned /\ OfferHolds
      BY InitSettled, ConstantsOK DEF Init, NothingSkipped, BelowTaken, OkReturned, OfferHolds
    <2>2. SentLast /\ Signed
      BY DEF Init, SentLast, Signed
    <2>3. OneRuns /\ RunAbove
      BY DEF Init, OneRuns, RunAbove, Running
    <2>4. WireOwn /\ WireOne /\ WireAbove /\ AllTaken /\ AllHeld
      BY DEF Init, WireOwn, WireOne, WireAbove, AllTaken, AllHeld
    <2> QED
      BY <2>1, <2>2, <2>3, <2>4 DEF Alone
  <1>2. Alone => LoneCallsAllPay
    BY DEF Alone, AllTaken, AllHeld, LoneCallsAllPay, TxOf
  <1>3. TypeOK /\ SentLast /\ [Next]_vars => SentLast'
    BY SentStep
  <1> QED
    BY <1>1, <1>2, <1>3, TypeCorrect, SettledStep, RecordedStep, NothingSkippedStep, OfferStep,
       SignedStep, AloneStep, PTL DEF Spec

-------------------------------------------------------------------------------
(* The ledger.  What the node does to its transactions are the ledger's      *)
(* Take, Settle and Drop, or nothing to it; a call's answer tells of what   *)
(* is taken in the same step.                                               *)

\* What the node holds for all accounts, of which each holds its own.
LEMMA HeldByAll ==
  ASSUME TypeOK, Settled
  PROVE  \A t : t \in HeldOfAll <=> t \in pool \/ \E a \in Accounts : t \in InBlocks(base[a])
  <1>1. \A t \in pool : t.from \in Accounts
    BY PoolFacts
  <1> QED BY <1>1 DEF HeldOfAll, Held

\* A transaction that the pool takes has the place of those of its nonce, which
\* wait in the pool as well.
LEMMA TakeStep ==
  ASSUME TypeOK, TypeOK', Settled, Settled', NEW t \in Tx, Added(t)
  PROVE  Promise!Take(t) /\ t \in HeldOfAll'
  <1>1. /\ pool' = (pool \ Rivals(t)) \cup {t} /\ base' = base /\ evicted' = evicted
        /\ known' = known \cup {t}
        /\ t.nonce >= Len(base[t.from]) /\ \A old \in Rivals(t) : Outbids(t, old)
    BY DEF Added, PoolAdd, Acceptable
  <1>2. ASSUME NEW a \in Accounts, NEW u \in InBlocks(base[a]) PROVE ~SameNonce(u, t)
    <2>1. u.from = a /\ u.nonce \in Nat /\ u.nonce < Len(base[a]) /\ Len(base[a]) \in Nat
      BY BlockFacts
    <2>2. t.nonce \in Nat
      BY DEF Tx
    <2> QED BY <1>1, <2>1, <2>2 DEF SameNonce
  <1>3. \A u \in pool : u \in Rivals(t) <=> SameNonce(u, t)
    BY DEF Rivals, SameNonce
  <1>5. \A u \in HeldOfAll : SameNonce(u, t) => u \in Rivals(t)
    BY <1>2, <1>3, HeldByAll
  <1>6. \A u : u \in HeldOfAll' <=> u \in pool' \/ \E a \in Accounts : u \in InBlocks(base[a])
    <2>1. \A v \in pool' : v.from \in Accounts
      BY DEF TypeOK, Tx
    <2> QED BY <1>1, <2>1 DEF HeldOfAll, Held
  <1>7. ASSUME NEW u PROVE u \in HeldOfAll' <=> u \in Promise!Displaced({t})
    BY <1>1, <1>2, <1>3, <1>6, HeldByAll DEF Promise!Displaced
  <1>8. HeldOfAll' = Promise!Displaced({t}) /\ t \in HeldOfAll'
    BY <1>1, <1>6, <1>7
  <1> QED BY <1>1, <1>5, <1>8 DEF Promise!Take

\* The transactions of all blocks.
ChainTxs == UNION {InBlocks(chain[a]) : a \in Accounts}

\* What blocks have passed is what one of their transactions has the nonce of.
LEMMA PassedByBlocks ==
  ASSUME TypeOK, Settled, NEW u, u.from \in Accounts, u.nonce \in Nat
  PROVE  (\A t \in ChainTxs : ~SameNonce(u, t)) <=> u.nonce >= Len(chain[u.from])
  <1>1. Len(chain[u.from]) \in Nat
    BY BlockFacts
  <1>2. ASSUME NEW t \in ChainTxs, SameNonce(u, t) PROVE u.nonce < Len(chain[u.from])
    <2>1. PICK a \in Accounts : t \in InBlocks(chain[a])
      BY DEF ChainTxs
    <2> QED BY <1>2, <2>1, BlockFacts DEF SameNonce
  <1>3. ASSUME u.nonce < Len(chain[u.from]) PROVE \E t \in ChainTxs : SameNonce(u, t)
    <2>1. PICK t \in InBlocks(chain[u.from]) : t.nonce = u.nonce
      BY <1>3, BlockFacts
    <2>2. t \in ChainTxs /\ SameNonce(u, t)
      BY <2>1, BlockFacts DEF ChainTxs, SameNonce
    <2> QED BY <2>2
  <1> QED BY <1>1, <1>2, <1>3

\* When the pool learns of the blocks, these give their nonces to their transactions,
\* and what the pool does not take back is thrown out.
LEMMA SettleStep ==
  ASSUME TypeOK, TypeOK', Settled, Settled', Recorded, Reset
  PROVE  Promise!Next
  <1>1. PICK refused \in SUBSET Reinject :
          /\ pool' = {t \in pool : t.nonce >= Len(chain[t.from])} \cup (Reinject \ refused)
          /\ evicted' = evicted \cup refused
    BY DEF Reset
  <1>2. base' = chain /\ known' = known /\ Told' = Told
    BY DEF Reset, Told, TxOf, callVars, SignerChain
  <1>3. ChainTxs \in SUBSET known
    BY DEF ChainTxs, Recorded
  <1>4. \A t, u \in ChainTxs : SameNonce(t, u) => t = u
    BY BlockFacts DEF ChainTxs, SameNonce
  <1>5. ASSUME NEW t \in Reinject
        PROVE  t \in HeldOfAll /\ t \notin ChainTxs /\ t \notin pool
               /\ \A u \in ChainTxs : ~SameNonce(t, u)
    <2>1. /\ t.from \in Accounts /\ t.nonce \in Nat /\ t \in InBlocks(base[t.from])
          /\ t.nonce < Len(base[t.from]) /\ t.nonce >= Len(chain[t.from])
      BY ReinjectFacts
    <2>2. \A u \in ChainTxs : ~SameNonce(t, u)
      BY <2>1, PassedByBlocks
    <2>3. t \notin ChainTxs
      BY <2>2 DEF SameNonce
    <2>4. t \notin pool
      <3>1. Len(base[t.from]) \in Nat
        BY <2>1, BlockFacts
      <3> QED BY <2>1, <3>1, PoolFacts
    <2> QED BY <2>1, <2>2, <2>3, <2>4, HeldByAll
  <1>6. \A u : u \in HeldOfAll' <=> u \in pool' \/ u \in ChainTxs
    <2>1. \A v \in pool' : v.from \in Accounts
      BY DEF TypeOK, Tx
    <2> QED BY <1>2, <2>1 DEF HeldOfAll, Held, ChainTxs
  <1>7. ASSUME NEW u \in pool
        PROVE  (\A t \in ChainTxs : ~SameNonce(u, t)) <=> u.nonce >= Len(chain[u.from])
    BY PassedByBlocks, PoolFacts
  <1>8. ASSUME NEW a \in Accounts, NEW u \in InBlocks(base[a]), \A t \in ChainTxs : ~SameNonce(u, t)
        PROVE  u \in Reinject
    <2>1. u.from = a /\ u.nonce \in Nat
      BY BlockFacts
    <2>2. u.nonce >= Len(chain[u.from])
      BY <1>8, <2>1, PassedByBlocks
    <2>3. u \notin InBlocks(chain[a])
      BY <2>1, <2>2, BlockFacts
    <2> QED BY <2>2, <2>3 DEF Reinject
  <1>9. ASSUME NEW u PROVE u \in HeldOfAll' <=> u \in Promise!Displaced(ChainTxs) \ refused
    <2>1. CASE u \in ChainTxs
      BY <1>5, <1>6, <2>1 DEF Promise!Displaced
    <2>2. CASE u \notin ChainTxs /\ u \in pool
      <3>1. u \notin Reinject /\ u \in HeldOfAll
        BY <1>5, <2>2, HeldByAll
      <3> QED BY <1>1, <1>6, <1>7, <2>2, <3>1 DEF Promise!Displaced
    <2>3. CASE u \notin ChainTxs /\ u \notin pool
      <3>1. u \in HeldOfAll' <=> u \in Reinject \ refused
        BY <1>1, <1>6, <2>3
      <3>2. u \in Promise!Displaced(ChainTxs) <=> u \in Reinject
        BY <1>5, <1>8, <2>3, HeldByAll DEF Promise!Displaced
      <3> QED BY <3>1, <3>2
    <2> QED BY <2>1, <2>2, <2>3
  <1>10. HeldOfAll' = Promise!Displaced(ChainTxs) \ refused
    BY <1>9
  <1>11. refused \in SUBSET (HeldOfAll \ ChainTxs)
    BY <1>5
  <1>12. Promise!Settle(ChainTxs, refused)
    BY <1>1, <1>2, <1>4, <1>10 DEF Promise!Settle
  <1> QED BY <1>3, <1>11, <1>12 DEF Promise!Next

\* What is thrown out waited in the pool, and in no block that it stands on.
LEMMA DropStep ==
  ASSUME TypeOK, Settled, NEW t \in pool, Evict(t)
  PROVE  Promise!Drop(t) /\ t \in HeldOfAll
  <1>1. /\ pool' = pool \ {t} /\ evicted' = evicted \cup {t} /\ base' = base /\ known' = known
        /\ UNCHANGED callVars
    BY DEF Evict
  <1>2. t.nonce \in Nat /\ t.from \in Accounts /\ t.nonce >= Len(base[t.from])
    BY PoolFacts
  <1>3. ASSUME NEW a \in Accounts PROVE t \notin InBlocks(base[a])
    BY <1>2, BlockFacts
  <1>4. \A a \in Accounts : Held(a)' = Held(a) \ {t}
    BY <1>1, <1>3 DEF Held
  <1>5. HeldOfAll' = HeldOfAll \ {t}
    BY <1>4 DEF HeldOfAll
  <1>6. t \in HeldOfAll
    BY HeldByAll
  <1> QED BY <1>1, <1>5, <1>6 DEF Promise!Drop, Told, TxOf, callVars, SignerChain

\* The pool does not change: neither does what is held.
LEMMA HeldStands ==
  UNCHANGED poolVars => HeldOfAll' = HeldOfAll /\ evicted' = evicted /\ known' = known
  BY DEF HeldOfAll, Held, poolVars

\* Who was told, and of what: those that returned without an error, and they have
\* stopped reading.
LEMMA ToldByOk == \A t : t \in Told <=> \E c \in Calls : outcome[c] = "ok" /\ t = TxOf(c)
  BY DEF Told

LEMMA ToldStands ==
  ASSUME \A c \in Calls : /\ outcome'[c] = "ok" <=> outcome[c] = "ok"
                          /\ outcome[c] = "ok" => nonce'[c] = nonce[c] /\ price'[c] = price[c]
  PROVE  Told' = Told
  <1>1. \A c \in Calls : outcome[c] = "ok" => TxOf(c)' = TxOf(c)
    BY DEF TxOf, SignerChain
  <1>2. \A t : t \in Told' <=> \E c \in Calls : outcome'[c] = "ok" /\ t = TxOf(c)'
    BY DEF Told
  <1>3. \A t : t \in Told' <=> t \in Told
    BY <1>1, <1>2, ToldByOk
  <1> QED BY <1>3

\* A call that goes on, or ends without having been told, tells nobody.
LEMMA ToldNothing ==
  ASSUME TypeOK, OkReturned, NEW d \in Calls,
         Reads(d) \/ Fails(d) \/ SendRefused(d) \/ SendAbandoned(d)
  PROVE  Told' = Told /\ UNCHANGED poolVars
  <1>1. outcome[d] # "ok"
    <2>1. at[d] < Len(Program[Kind[d]]) \/ Doing(d, "send")
      BY DEF Reads, Fails, SendRefused, SendAbandoned, Send
    <2> QED BY <2>1, Standing DEF OkReturned, Returned
  <1>2. /\ outcome'[d] # "ok" /\ \A c \in Calls : c # d => outcome'[c] = outcome[c]
        /\ \A c \in Calls : c # d => nonce'[c] = nonce[c] /\ price'[c] = price[c]
    BY <1>1 DEF Reads, Fails, SendRefused, SendAbandoned, Return, TypeOK
  <1>3. Told' = Told
    BY <1>1, <1>2, ToldStands
  <1> QED BY <1>3 DEF Reads, Fails, SendRefused, SendAbandoned, nodeVars

\* The answer to a send tells of its transaction.
LEMMA ToldOne ==
  ASSUME TypeOK, OkReturned, NEW d \in Calls, SendAccepted(d)
  PROVE  Told' = Told \cup {TxOf(d)} /\ Added(TxOf(d))
  <1>1. outcome[d] # "ok"
    BY Standing DEF SendAccepted, Send, OkReturned, Returned
  <1>2. /\ outcome'[d] = "ok" /\ UNCHANGED <<nonce, price>>
        /\ \A c \in Calls : c # d => outcome'[c] = outcome[c]
    BY DEF SendAccepted, Return, TypeOK
  <1>3. \A c \in Calls : TxOf(c)' = TxOf(c)
    BY <1>2 DEF TxOf, SignerChain
  <1>4. \A t : t \in Told' <=> \E c \in Calls : outcome'[c] = "ok" /\ t = TxOf(c)'
    BY DEF Told
  <1>5. \A t : t \in Told' <=> t \in Told \/ t = TxOf(d)
    BY <1>1, <1>2, <1>3, <1>4, ToldByOk
  <1> QED BY <1>5 DEF SendAccepted, Added

\* Who sends again is not told any more, unless another call was told the same.
LEMMA ToldAgain ==
  ASSUME TypeOK, NEW d \in Calls, SendAgain(d)
  PROVE  /\ Told' = Told \/ (TxOf(d) \in Told /\ Told' = Told \ {TxOf(d)})
         /\ UNCHANGED poolVars
  <1>1. /\ outcome'[d] = "none" /\ UNCHANGED <<nonce, price>>
        /\ \A c \in Calls : c # d => outcome'[c] = outcome[c]
    BY DEF SendAgain, TypeOK
  <1>2. \A c \in Calls : TxOf(c)' = TxOf(c)
    BY <1>1 DEF TxOf, SignerChain
  <1>3. \A t : t \in Told' <=> \E c \in Calls : outcome'[c] = "ok" /\ t = TxOf(c)'
    BY DEF Told
  <1>4. \A t : t # TxOf(d) => (t \in Told' <=> t \in Told)
    BY <1>1, <1>2, <1>3, ToldByOk
  <1>5. \A t : t \in Told' => t \in Told
    BY <1>1, <1>2, <1>3, ToldByOk
  <1>6. Told' = Told \/ (TxOf(d) \in Told /\ Told' = Told \ {TxOf(d)})
    <2>1. CASE TxOf(d) \in Told'
      BY <1>4, <1>5, <2>1
    <2>2. CASE TxOf(d) \notin Told' /\ TxOf(d) \notin Told
      BY <1>4, <1>5, <2>2
    <2>3. CASE TxOf(d) \notin Told' /\ TxOf(d) \in Told
      <3>1. \A t : t \in Told' <=> t \in Told \ {TxOf(d)}
        BY <1>4, <2>3
      <3> QED BY <2>3, <3>1
    <2> QED BY <2>1, <2>2, <2>3
  <1> QED BY <1>6 DEF SendAgain, nodeVars

\* Every step of the senders, the network, the node and the miners is one of the
\* ledger, or cannot be seen there.
LEMMA LedgerStep ==
  TypeOK /\ TypeOK' /\ Settled /\ Settled' /\ Recorded /\ OkReturned /\ [Next]_vars
    => [Promise!Next]_(Promise!vars)
  <1> SUFFICES ASSUME TypeOK, TypeOK', Settled, Settled', Recorded, OkReturned, [Next]_vars
               PROVE  [Promise!Next]_(Promise!vars)
    OBVIOUS
  <1>0. ASSUME UNCHANGED poolVars, Told' = Told PROVE [Promise!Next]_(Promise!vars)
    BY <1>0, HeldStands DEF Promise!vars
  <1>1. ASSUME NEW d \in Calls, Reads(d) \/ Fails(d) \/ SendRefused(d) \/ SendAbandoned(d)
        PROVE  [Promise!Next]_(Promise!vars)
    BY <1>0, <1>1, ToldNothing
  <1>2. ASSUME NEW d \in Calls, SendAccepted(d) PROVE Promise!Next
    <2>1. Promise!Take(TxOf(d)) /\ TxOf(d) \in HeldOfAll' /\ Told' = Told \cup {TxOf(d)}
      BY <1>2, ToldOne, TakeStep, TxOfType
    <2> QED BY <2>1 DEF Promise!Next, Promise!Accept
  <1>3. ASSUME NEW d \in Calls, SendAgain(d) PROVE [Promise!Next]_(Promise!vars)
    <2>1. HeldOfAll' = HeldOfAll /\ evicted' = evicted /\ known' = known
      BY <1>3, ToldAgain, HeldStands
    <2>2. CASE Told' = Told
      BY <2>1, <2>2 DEF Promise!vars
    <2>3. CASE TxOf(d) \in Told /\ Told' = Told \ {TxOf(d)}
      BY <2>1, <2>3 DEF Promise!Next, Promise!AskAgain
    <2> QED BY <1>3, <2>2, <2>3, ToldAgain
  <1>4. CASE UNCHANGED <<callVars, overlap>>
    <2>0. Told' = Told
      BY <1>4, ToldStands DEF callVars
    <2>1. CASE UNCHANGED poolVars
      BY <1>0, <2>0, <2>1
    <2>2. ASSUME NEW t \in Tx, Added(t) PROVE Promise!Next
      <3>1. Promise!Take(t) /\ t \in HeldOfAll'
        BY <2>2, TakeStep
      <3> QED BY <2>0, <3>1 DEF Promise!Next, Promise!TakeLate
    <2>3. CASE Reset
      BY <2>3, SettleStep
    <2>4. ASSUME NEW t \in pool, Evict(t) PROVE Promise!Next
      BY <2>4, DropStep DEF Promise!Next
    <2> QED BY <2>1, <2>2, <2>3, <2>4, NodeSteps DEF NodeStep
  <1> QED BY <1>1, <1>2, <1>3, <1>4, CallSteps

\* The programs and the node implement the ledger: what a sender was told stands until
\* it is outbid or a block decides otherwise, whatever other calls fail, race or
\* arrive late, and whatever blocks are found and undone before the pool learns of them.
THEOREM LedgerImplemented == Spec => ImplementsLedger
  <1>1. Init => Promise!Init
    <2> SUFFICES ASSUME Init PROVE Promise!Init
      OBVIOUS
    <2>1. \A a \in Accounts : base[a] = <<>>
      BY DEF Init
    <2>2. \A a \in Accounts : InBlocks(base[a]) = {}
      BY <2>1 DEF InBlocks
    <2> QED BY <2>2 DEF Init, Promise!Init, HeldOfAll, Held, Told
  <1>2. Init => OkReturned /\ OfferHolds
    BY DEF Init, OkReturned, OfferHolds
  <1> QED
    BY <1>1, <1>2, InitSettled, LedgerStep, TypeCorrect, SettledStep, RecordedStep, OfferStep, PTL
       DEF Spec, ImplementsLedger, Promise!Spec
===============================================================================
