-------------------------- MODULE ContractCallsProofs --------------------------
(***************************************************************************)
(* Theorems about ContractCalls, for any number of programs, sessions,     *)
(* prices, undone blocks and any width of the array.  The node's part is   *)
(* the argument of TxSubmitProofs for one account: a nonce that is taken   *)
(* stays taken, through replacement, blocks and undone blocks, unless the  *)
(* pool throws its holder out (KeptStays).                                 *)
(***************************************************************************)
EXTENDS ContractCalls, FiniteSetTheorems, SequenceTheorems, TLAPS

Contracts == {NoCode} \cup [text : Seq(STRING), item : Progs \cup {Zero}]
AnyTx == [by : Progs, nonce : Nonces, price : Nat]
Blocks == [tx : AnyTx, world : [Nonces -> Contracts]]

\* The types the arguments below need.
NodeTypes ==
  /\ chain \in Seq(Blocks) /\ base \in Seq(Blocks) /\ kind \in [Progs -> DOMAIN Plan]
  /\ pool \cup known \cup wire \cup first \cup evicted \subseteq AnyTx /\ pending \in BOOLEAN
ProgTypes ==
  /\ ip \in [Progs -> Nat] /\ nonce \in [Progs -> Nonces] /\ price \in [Progs -> Nat]
  /\ empty \in [Progs -> BOOLEAN] /\ out = [p \in Progs |-> out[p]]
  /\ seen \in [Progs -> SUBSET Contracts]
Types == NodeTypes /\ ProgTypes

LEMMA NoncesNat == Nonces \subseteq Nat /\ Home \in Nonces /\ Home \in Nat
  <1>1. Cardinality(Progs) \in Nat
    BY ConstantsOK, FS_CardinalityType
  <1> QED BY <1>1, ConstantsOK DEF Nonces

\* What a transaction makes of the contracts are contracts.
LEMMA ApplyType ==
  ASSUME NEW w \in [Nonces -> Contracts], NEW t \in AnyTx
  PROVE  Apply(w, t) \in [Nonces -> Contracts]
  <1>1. Constructed(t) \in Contracts
    BY ConstantsOK DEF Constructed, Contracts, AnyTx
  <1>2. ASSUME NEW c \in Contracts PROVE SetItem(c, t) \in Contracts
    BY DEF SetItem, Contracts, AnyTx
  <1> QED BY <1>1, <1>2, NoncesNat DEF Apply

LEMMA WorldType ==
  ASSUME NEW bs \in Seq(Blocks) PROVE World(bs) \in [Nonces -> Contracts]
  <1>1. ASSUME bs # <<>> PROVE bs[Len(bs)] \in Blocks
    BY <1>1
  <1>2. NoCode \in Contracts
    BY DEF Contracts
  <1> QED BY <1>1, <1>2 DEF World, Blocks

\* Starting at nothing and letting the program go on keeps the types.
LEMMA GoesType ==
  ASSUME Types, NEW p \in Progs, NEW n \in Nat, Goes(p, n)
  PROVE  ip' \in [Progs -> Nat] /\ empty' \in [Progs -> BOOLEAN] /\ seen' \in [Progs -> SUBSET Contracts]
  <1>1. Contract \in Contracts
    BY WorldType, NoncesNat DEF Contract, Types, NodeTypes
  <1> QED BY <1>1 DEF Goes, Types, ProgTypes

\* One program's step: what it leaves alone, and the transaction it may send.
LEMMA ProgStep ==
  ASSUME Types, NEW p \in Progs, Step(p) \/ RequestFails(p)
  PROVE  /\ UNCHANGED <<chainVars, kind, pending>>
         /\ \/ UNCHANGED <<poolVars, wire>>
            \/ /\ Doing(p) = "send" /\ Acceptable(TxOf(p)) /\ PoolAdd(TxOf(p))
               /\ UNCHANGED <<nonce, price, wire>>
            \/ /\ Doing(p) = "send" /\ wire' = wire \cup {TxOf(p)}
               /\ UNCHANGED <<nonce, price, poolVars>>
         /\ ProgTypes'
         /\ \A q \in Progs \ {p} : /\ ip'[q] = ip[q] /\ nonce'[q] = nonce[q] /\ price'[q] = price[q]
                                   /\ empty'[q] = empty[q] /\ out'[q] = out[q] /\ seen'[q] = seen[q]
  <1> USE DEF Types
  <1>0. ip[p] + 1 \in Nat /\ 0 \in Nat
    BY DEF ProgTypes
  <1>a. ASSUME NEW n \in Nat, Goes(p, n)
        PROVE  /\ ip' \in [Progs -> Nat] /\ empty' \in [Progs -> BOOLEAN] /\ seen' \in [Progs -> SUBSET Contracts]
               /\ \A q \in Progs \ {p} : ip'[q] = ip[q] /\ empty'[q] = empty[q] /\ seen'[q] = seen[q]
    BY <1>a, GoesType DEF Goes, ProgTypes
  <1>c. ASSUME NEW r, Return(p, r), UNCHANGED <<nonce, price>>
        PROVE  /\ ProgTypes'
               /\ \A q \in Progs \ {p} : /\ ip'[q] = ip[q] /\ empty'[q] = empty[q]
                                         /\ out'[q] = out[q] /\ seen'[q] = seen[q]
    <2>1. PICK n \in Nat : Goes(p, n)
      BY <1>c, <1>0 DEF Return
    <2>2. out' = [q \in Progs |-> out'[q]] /\ \A q \in Progs \ {p} : out'[q] = out[q]
      BY <1>c DEF Return, ProgTypes
    <2> QED BY <1>c, <1>a, <2>1, <2>2 DEF ProgTypes
  <1>b. ASSUME NEW r, Finish(p, r)
        PROVE  /\ UNCHANGED <<nonce, price, kind, nodeVars>> /\ ProgTypes'
               /\ \A q \in Progs \ {p} : /\ ip'[q] = ip[q] /\ empty'[q] = empty[q]
                                         /\ out'[q] = out[q] /\ seen'[q] = seen[q]
    BY <1>b, <1>c DEF Finish
  <1>d. ASSUME NEW n \in Nat, Goes(p, n), UNCHANGED <<nonce, price, out>>
        PROVE  /\ ProgTypes'
               /\ \A q \in Progs \ {p} : ip'[q] = ip[q] /\ empty'[q] = empty[q] /\ seen'[q] = seen[q]
    BY <1>d, <1>a DEF ProgTypes
  <1>1. ASSUME ReadNonce(p)
        PROVE  /\ UNCHANGED <<kind, nodeVars>> /\ ProgTypes'
               /\ \A q \in Progs \ {p} : /\ ip'[q] = ip[q] /\ nonce'[q] = nonce[q] /\ price'[q] = price[q]
                                         /\ empty'[q] = empty[q] /\ out'[q] = out[q] /\ seen'[q] = seen[q]
    BY <1>1, <1>0, <1>a DEF ReadNonce, ProgTypes
  <1>2. ASSUME ReadPrice(p)
        PROVE  /\ UNCHANGED <<kind, nodeVars>> /\ ProgTypes'
               /\ \A q \in Progs \ {p} : /\ ip'[q] = ip[q] /\ nonce'[q] = nonce[q] /\ price'[q] = price[q]
                                         /\ empty'[q] = empty[q] /\ out'[q] = out[q] /\ seen'[q] = seen[q]
    BY <1>2, <1>0, <1>a, ConstantsOK DEF ReadPrice, ProgTypes
  <1>3. ASSUME LookAtPendingCode(p) \/ Ask(p)
        PROVE  /\ UNCHANGED <<kind, nonce, price, out, nodeVars>> /\ ProgTypes'
               /\ \A q \in Progs \ {p} : ip'[q] = ip[q] /\ empty'[q] = empty[q] /\ seen'[q] = seen[q]
    <2>1. PICK n \in Nat : Goes(p, n)
      BY <1>3, <1>0 DEF LookAtPendingCode, Ask
    <2>2. UNCHANGED <<kind, nonce, price, out, nodeVars>>
      BY <1>3 DEF LookAtPendingCode, Ask
    <2> QED BY <2>1, <2>2, <1>d
  <1>4. ASSUME Send(p)
        PROVE  /\ UNCHANGED <<kind, nonce, price, out, chainVars, pending, wire>> /\ ProgTypes'
               /\ \/ UNCHANGED poolVars
                  \/ Doing(p) = "send" /\ Acceptable(TxOf(p)) /\ PoolAdd(TxOf(p))
               /\ \A q \in Progs \ {p} : ip'[q] = ip[q] /\ empty'[q] = empty[q] /\ seen'[q] = seen[q]
    <2>1. PICK n \in Nat : Goes(p, n)
      BY <1>4, <1>0 DEF Send
    <2>2. UNCHANGED <<kind, nonce, price, out, chainVars, pending, wire>>
      BY <1>4 DEF Send
    <2>3. UNCHANGED poolVars \/ (Doing(p) = "send" /\ Acceptable(TxOf(p)) /\ PoolAdd(TxOf(p)))
      BY <1>4 DEF Send
    <2> QED BY <1>d, <2>1, <2>2, <2>3
  <1>5. ASSUME Call(p)
        PROVE  /\ UNCHANGED <<nonce, price, kind, nodeVars>> /\ ProgTypes'
               /\ \A q \in Progs \ {p} : /\ ip'[q] = ip[q] /\ empty'[q] = empty[q]
                                         /\ out'[q] = out[q] /\ seen'[q] = seen[q]
    <2>1. CASE Contract = NoCode
      BY <1>5, <2>1 DEF Call, ProgTypes
    <2> QED BY <1>5, <1>b, <2>1 DEF Call
  <1>6. ASSUME LookForCode(p) \/ AskNode(p)
        PROVE  /\ UNCHANGED <<kind, nonce, price, nodeVars>> /\ ProgTypes'
               /\ \A q \in Progs \ {p} : /\ ip'[q] = ip[q] /\ empty'[q] = empty[q]
                                         /\ out'[q] = out[q] /\ seen'[q] = seen[q]
    BY <1>6, <1>b DEF LookForCode, AskNode
  <1>7. ASSUME RequestFails(p)
        PROVE  /\ UNCHANGED <<kind, nonce, price, chainVars, poolVars, pending>> /\ ProgTypes'
               /\ wire' = wire \/ (Doing(p) = "send" /\ wire' = wire \cup {TxOf(p)})
               /\ \A q \in Progs \ {p} : /\ ip'[q] = ip[q] /\ empty'[q] = empty[q]
                                         /\ out'[q] = out[q] /\ seen'[q] = seen[q]
    <2>1. UNCHANGED <<kind, nonce, price, chainVars, poolVars, pending>>
          /\ (wire' = wire \/ (Doing(p) = "send" /\ wire' = wire \cup {TxOf(p)}))
      BY <1>7 DEF RequestFails
    <2>2. (\E r : Return(p, r)) \/ (Goes(p, 0) /\ out' = out)
      BY <1>7 DEF RequestFails
    <2> QED BY <2>1, <2>2, <1>0, <1>c, <1>d
  <1> QED BY <1>1, <1>2, <1>3, <1>4, <1>5, <1>6, <1>7 DEF Step, nodeVars, poolVars, chainVars

\* A block that is added or undone.
LEMMA MineWorld ==
  ASSUME Types, NEW t \in known, Mine(t)
  PROVE  /\ Types' /\ t \in AnyTx /\ t.nonce = Len(chain) /\ UNCHANGED <<progVars, poolVars>>
         /\ Len(chain') = Len(chain) + 1 /\ \A i \in DOMAIN chain : chain'[i] = chain[i]
         /\ chain'[Len(chain) + 1] = [tx |-> t, world |-> Apply(World(chain), t)]
         /\ DOMAIN chain' = DOMAIN chain \cup {Len(chain) + 1}
  <1> USE DEF Types
  <1>1. t \in AnyTx /\ World(chain) \in [Nonces -> Contracts]
    BY WorldType DEF NodeTypes
  <1> DEFINE b == [tx |-> t, world |-> Apply(World(chain), t)]
  <1>2. b \in Blocks
    BY <1>1, ApplyType DEF Blocks
  <1>3. chain' = Append(chain, b) /\ t.nonce = Len(chain) /\ Watch(chain')
        /\ UNCHANGED <<progVars, poolVars, pending, wire>>
    BY DEF Mine, Block
  <1> HIDE DEF b
  <1>4. chain' \in Seq(Blocks) /\ Len(chain') = Len(chain) + 1 /\ chain'[Len(chain) + 1] = b
        /\ (\A i \in DOMAIN chain : chain'[i] = chain[i]) /\ DOMAIN chain' = DOMAIN chain \cup {Len(chain) + 1}
    BY <1>2, <1>3 DEF NodeTypes
  <1>5. World(chain')[Home] \in Contracts
    BY <1>4, WorldType, NoncesNat
  <1>6. NodeTypes'
    BY <1>3, <1>4 DEF NodeTypes, progVars, poolVars
  <1>7. ProgTypes'
    BY <1>3, <1>5 DEF ProgTypes, progVars, Watch
  <1> QED BY <1>1, <1>3, <1>4, <1>6, <1>7 DEF b

LEMMA MineStep ==
  ASSUME Types, NEW t \in known, Mine(t)
  PROVE  /\ Types' /\ t.nonce = Len(chain) /\ UNCHANGED <<progVars, poolVars>> /\ Len(chain) \in Nat
         /\ Len(chain') = Len(chain) + 1 /\ DOMAIN chain' = 1 .. (Len(chain) + 1)
         /\ (\A i \in 1 .. Len(chain) : chain'[i] = chain[i]) /\ chain'[Len(chain) + 1].tx = t
  <1>1. Len(chain) \in Nat /\ DOMAIN chain = 1 .. Len(chain)
    BY DEF Types, NodeTypes
  <1>2. /\ Types' /\ t.nonce = Len(chain) /\ UNCHANGED <<progVars, poolVars>>
        /\ Len(chain') = Len(chain) + 1 /\ \A i \in DOMAIN chain : chain'[i] = chain[i]
    BY MineWorld
  <1>3. chain'[Len(chain) + 1] = [tx |-> t, world |-> Apply(World(chain), t)]
    BY MineWorld, Zenon
  <1>4. DOMAIN chain' = 1 .. Len(chain')
    BY <1>2 DEF Types, NodeTypes
  <1> QED BY <1>1, <1>2, <1>3, <1>4

LEMMA UndoStep ==
  ASSUME Types, Undo
  PROVE  /\ Types' /\ UNCHANGED <<progVars, poolVars>> /\ Len(chain) \in Nat \ {0} /\ Len(chain') = Len(chain) - 1
         /\ DOMAIN chain' = 1 .. (Len(chain) - 1) /\ DOMAIN chain = 1 .. Len(chain)
         /\ \A i \in DOMAIN chain' : chain'[i] = chain[i]
  <1> USE DEF Types
  <1>1. chain # <<>> /\ chain' = SubSeq(chain, 1, Len(chain) - 1) /\ Watch(chain')
        /\ UNCHANGED <<progVars, poolVars, pending, wire>>
    BY DEF Undo
  <1>2. chain \in Seq(Blocks) /\ Len(chain) \in Nat \ {0} /\ DOMAIN chain = 1 .. Len(chain)
    BY <1>1 DEF NodeTypes
  <1>3. chain' \in Seq(Blocks) /\ Len(chain') = Len(chain) - 1 /\ DOMAIN chain' = 1 .. (Len(chain) - 1)
        /\ \A i \in DOMAIN chain' : chain'[i] = chain[i]
    BY <1>1, <1>2, SubSeqProperties
  <1>4. World(chain')[Home] \in Contracts
    BY <1>3, WorldType, NoncesNat
  <1>5. NodeTypes'
    BY <1>1, <1>3 DEF NodeTypes, progVars, poolVars
  <1>6. ProgTypes'
    BY <1>1, <1>4 DEF ProgTypes, progVars, Watch
  <1> QED BY <1>1, <1>2, <1>3, <1>5, <1>6

-------------------------------------------------------------------------------
(* The node.  A nonce that was read is used several steps later, so that   *)
(* it must be known that no hole is below it.                              *)

LEMMA NodeFacts ==
  ASSUME Types PROVE /\ Len(chain) \in Nat /\ DOMAIN chain = 1 .. Len(chain)
                     /\ Len(base) \in Nat /\ DOMAIN base = 1 .. Len(base)
                     /\ \A i \in DOMAIN chain : chain[i].tx \in AnyTx /\ chain[i].world \in [Nonces -> Contracts]
                     /\ \A i \in DOMAIN base : base[i].tx \in AnyTx
                     /\ \A t \in AnyTx : t.nonce \in Nat /\ t.by \in Progs /\ t.price \in Nat
                     /\ pool \cup known \cup wire \cup first \cup evicted \subseteq AnyTx
                     /\ \A p \in Progs : TxOf(p) \in AnyTx /\ TxOf(p).nonce = nonce[p] /\ nonce[p] \in Nat
  <1>1. chain \in Seq(Blocks) /\ base \in Seq(Blocks) /\ pool \cup known \cup wire \cup first \cup evicted \subseteq AnyTx
    BY DEF Types, NodeTypes
  <1>2. /\ Len(chain) \in Nat /\ DOMAIN chain = 1 .. Len(chain) /\ \A i \in DOMAIN chain : chain[i] \in Blocks
        /\ Len(base) \in Nat /\ DOMAIN base = 1 .. Len(base) /\ \A i \in DOMAIN base : base[i] \in Blocks
    BY <1>1
  <1>3. \A t \in AnyTx : t.nonce \in Nat /\ t.by \in Progs /\ t.price \in Nat
    BY NoncesNat DEF AnyTx
  <1>4. \A p \in Progs : TxOf(p) \in AnyTx /\ TxOf(p).nonce = nonce[p] /\ nonce[p] \in Nat
    BY NoncesNat DEF Types, ProgTypes, AnyTx, TxOf
  <1> QED BY <1>1, <1>2, <1>3, <1>4 DEF Blocks

\* What the pool takes: a transaction of a program, or one that arrives late.
Offer(t) == t \in wire \/ \E p \in Progs : t = TxOf(p)
ReadsPending(p) == nonce'[p] = nonce[p] \/ IsPendingNonce(nonce'[p])

\* What a step may do to the blocks, to the pool, to what is on its way, to the
\* nonces that were read and to the pending block.
LEMMA Moves ==
  ASSUME Types, [Next]_vars
  PROVE  /\ kind' = kind
         /\ chain' = chain \/ (\E t \in known : Mine(t)) \/ Undo
         /\ \/ UNCHANGED poolVars
            \/ \E t \in AnyTx : Offer(t) /\ Acceptable(t) /\ PoolAdd(t)
            \/ Reset
            \/ \E t \in pool : Evict(t)
         /\ \A t \in wire' : Offer(t)
         /\ \A p \in Progs : ReadsPending(p)
         /\ pending' = pending \/ pending' = PendingCode
  <1> USE DEF ReadsPending
  <1>1. ASSUME NEW p \in Progs, Step(p) \/ RequestFails(p)
        PROVE  /\ UNCHANGED <<chain, kind, pending>>
               /\ UNCHANGED poolVars \/ \E t \in AnyTx : Offer(t) /\ Acceptable(t) /\ PoolAdd(t)
               /\ \A t \in wire' : Offer(t)
               /\ \A q \in Progs : ReadsPending(q)
    <2>1. TxOf(p) \in AnyTx /\ Offer(TxOf(p))
      BY NodeFacts DEF Offer
    <2>2. nonce'[p] = nonce[p] \/ IsPendingNonce(nonce'[p])
      <3>1. CASE ReadNonce(p)
        <4>1. PICK n \in Nonces : IsPendingNonce(n) /\ nonce' = [nonce EXCEPT ![p] = n]
          BY <3>1 DEF ReadNonce
        <4> QED BY <4>1 DEF Types, ProgTypes
      <3>2. CASE ~ReadNonce(p)
        BY <3>2, <1>1 DEF Step, ReadPrice, LookAtPendingCode, Ask, Send, Call, LookForCode, AskNode, RequestFails, Finish
      <3> QED BY <3>1, <3>2
    <2>3. \A t \in wire' : t \in wire \/ t = TxOf(p)
      BY <1>1, ProgStep
    <2> QED BY <1>1, <2>1, <2>2, <2>3, ProgStep DEF Offer, chainVars
  <1>2. ASSUME NEW t \in wire, Arrive(t)
        PROVE  /\ UNCHANGED <<progVars, chain, pending>> /\ wire' \subseteq wire
               /\ UNCHANGED poolVars \/ (t \in AnyTx /\ Offer(t) /\ Acceptable(t) /\ PoolAdd(t))
    BY <1>2, NodeFacts DEF Arrive, Offer, chainVars
  <1>3. ASSUME (\E t \in known : Mine(t)) \/ Undo \/ Pend
        PROVE  /\ UNCHANGED <<progVars, poolVars, wire>>
               /\ (chain' = chain \/ (\E t \in known : Mine(t)) \/ Undo)
               /\ (pending' = pending \/ pending' = PendingCode)
    BY <1>3 DEF Mine, Undo, Pend, chainVars
  <1>4. ASSUME Reset \/ (\E t \in pool : Evict(t)) \/ UNCHANGED vars
        PROVE  /\ UNCHANGED <<progVars, chain, wire, pending>>
               /\ Reset \/ (\E t \in pool : Evict(t)) \/ UNCHANGED poolVars
    BY <1>4 DEF Reset, Evict, vars, nodeVars, chainVars
  <1>5. ASSUME wire' \subseteq wire PROVE \A t \in wire' : Offer(t)
    BY <1>5 DEF Offer
  <1> QED BY <1>1, <1>2, <1>3, <1>4, <1>5 DEF Next, progVars

LEMMA TypesStep ==
  ASSUME Types, [Next]_vars PROVE Types'
  <1>1. pool' \cup known' \cup first' \cup evicted' \subseteq AnyTx /\ base' \in Seq(Blocks)
    <2>1. CASE UNCHANGED poolVars
      BY <2>1 DEF poolVars, Types, NodeTypes
    <2>2. ASSUME NEW t \in AnyTx, PoolAdd(t)
          PROVE  pool' \cup known' \cup first' \cup evicted' \subseteq AnyTx /\ base' \in Seq(Blocks)
      BY <2>2 DEF PoolAdd, Types, NodeTypes
    <2>3. CASE Reset
      <3>1. Reinject \subseteq AnyTx
        BY NodeFacts DEF Reinject, InBlocks
      <3> QED BY <2>3, <3>1 DEF Reset, Types, NodeTypes
    <2>4. CASE \E t \in pool : Evict(t)
      BY <2>4 DEF Evict, Types, NodeTypes
    <2> QED BY <2>1, <2>2, <2>3, <2>4, Moves
  <1>2. wire' \subseteq AnyTx /\ pending' \in BOOLEAN /\ kind' = kind
    <2>1. \A t : Offer(t) => t \in AnyTx
      BY NodeFacts DEF Offer
    <2>2. PendingCode \in BOOLEAN
      BY DEF PendingCode
    <2> QED BY <2>1, <2>2, Moves DEF Types, NodeTypes
  <1>3. chain' \in Seq(Blocks)
    BY Moves, MineStep, UndoStep DEF Types, NodeTypes
  <1>4. ProgTypes'
    <2>1. ASSUME UNCHANGED <<progVars, seen>> PROVE ProgTypes'
      BY <2>1 DEF progVars, Types, ProgTypes
    <2>2. ASSUME (\E t \in wire : Arrive(t)) \/ Reset \/ Pend \/ (\E t \in pool : Evict(t)) \/ UNCHANGED vars
          PROVE  UNCHANGED <<progVars, seen>>
      BY <2>2 DEF Arrive, Reset, Pend, Evict, vars
    <2> QED BY <2>1, <2>2, ProgStep, MineStep, UndoStep DEF Next, Types
  <1> QED BY <1>1, <1>2, <1>3, <1>4 DEF Types, NodeTypes

\* The transactions of blocks in order.
LEMMA InBlockOrder ==
  ASSUME Types
  PROVE  /\ InOrder(chain) => \A t \in InBlocks(chain) : t \in AnyTx /\ t.nonce < Len(chain)
         /\ \A m \in Nat : InOrder(base) /\ m < Len(base) =>
                             base[m + 1].tx \in InBlocks(base) /\ base[m + 1].tx.nonce = m
  BY NodeFacts DEF InOrder, InBlocks

\* A nonce that is taken stays taken, or its holder was thrown out.
LEMMA KeptStays ==
  ASSUME Types, InOrder(base), InOrder(chain), [Next]_vars, NEW m \in Nat, Kept(m)
  PROVE  Kept(m)'
  <1> USE NodeFacts
  <1>1. CASE UNCHANGED poolVars
    BY <1>1 DEF Kept, Taken, poolVars
  <1>2. ASSUME NEW t \in AnyTx, PoolAdd(t) PROVE Kept(m)'
    <2>1. ASSUME NEW u \in pool, u.nonce = m PROVE \E v \in pool' : v.nonce = m
      BY <1>2, <2>1 DEF PoolAdd
    <2> QED BY <1>2, <2>1 DEF PoolAdd, Kept, Taken
  <1>3. CASE Reset
    <2>1. PICK refused \in SUBSET Reinject :
            /\ pool' = {t \in pool : t.nonce >= Len(chain)} \cup (Reinject \ refused)
            /\ evicted' = evicted \cup refused /\ base' = chain
      BY <1>3 DEF Reset
    <2>2. CASE m < Len(chain)
      BY <2>1, <2>2 DEF Kept, Taken
    <2>3. CASE m >= Len(chain) /\ m < Len(base)
      <3> DEFINE t == base[m + 1].tx
      <3>1. t \in Reinject /\ t.nonce = m
        BY <2>3, InBlockOrder DEF Reinject
      <3>2. t \in pool' \/ t \in evicted'
        BY <2>1, <3>1
      <3> QED BY <3>1, <3>2 DEF Kept, Taken
    <2>4. CASE m >= Len(chain) /\ ~(m < Len(base))
      <3>1. ASSUME NEW t \in pool, t.nonce = m PROVE t \in pool'
        BY <2>1, <2>4, <3>1
      <3> QED BY <2>1, <2>4, <3>1 DEF Kept, Taken
    <2> QED BY <2>2, <2>3, <2>4
  <1>4. ASSUME NEW e \in pool, Evict(e) PROVE Kept(m)'
    <2>1. pool' = pool \ {e} /\ evicted' = evicted \cup {e} /\ base' = base
      BY <1>4 DEF Evict
    <2> QED BY <2>1 DEF Kept, Taken
  <1> QED BY <1>1, <1>2, <1>3, <1>4, Moves

\* The order of the blocks.
LEMMA OrderStep ==
  ASSUME Types, InOrder(base), InOrder(chain), [Next]_vars
  PROVE  InOrder(base)' /\ InOrder(chain)'
  <1>1. InOrder(chain)'
    <2>1. ASSUME NEW t \in known, Mine(t) PROVE InOrder(chain)'
      BY <2>1, MineStep DEF InOrder
    <2>2. CASE Undo
      BY <2>2, UndoStep DEF InOrder
    <2>3. CASE chain' = chain
      BY <2>3 DEF InOrder
    <2> QED BY <2>1, <2>2, <2>3, Moves
  <1>2. base' = base \/ base' = chain
    BY Moves DEF poolVars, PoolAdd, Reset, Evict
  <1> QED BY <1>1, <1>2 DEF InOrder

\* What waits or is in a block was taken by the pool.
LEMMA RecordedStep ==
  ASSUME Types, Recorded, [Next]_vars PROVE Recorded'
  <1> USE NodeFacts DEF Recorded
  <1>1. known \subseteq known' /\ first' \cup pool' \cup InBlocks(base)' \subseteq known'
    <2>1. CASE UNCHANGED poolVars
      BY <2>1 DEF poolVars, InBlocks
    <2>2. ASSUME NEW t \in AnyTx, PoolAdd(t)
          PROVE  known \subseteq known' /\ first' \cup pool' \cup InBlocks(base)' \subseteq known'
      BY <2>2 DEF PoolAdd, InBlocks
    <2>3. CASE Reset
      BY <2>3 DEF Reset, Reinject, InBlocks
    <2>4. CASE \E e \in pool : Evict(e)
      BY <2>4 DEF Evict, InBlocks
    <2> QED BY <2>1, <2>2, <2>3, <2>4, Moves
  <1>2. InBlocks(chain)' \subseteq known'
    <2>1. ASSUME NEW t \in known, Mine(t) PROVE InBlocks(chain)' \subseteq known'
      BY <2>1, <1>1, MineStep DEF InBlocks
    <2>2. CASE Undo
      BY <2>2, <1>1, UndoStep DEF InBlocks
    <2>3. CASE chain' = chain
      BY <2>3, <1>1 DEF InBlocks
    <2> QED BY <2>1, <2>2, <2>3, Moves
  <1> QED BY <1>1, <1>2

CodeAfterHome == \A k \in DOMAIN chain : chain[k].world[Home] # NoCode => k > Home

\* The contract is at hand, so that what made it was taken, and all below it.
LEMMA PendingTakesHome ==
  ASSUME Types, InOrder(chain), Recorded, NothingSkipped, CodeAfterHome, PendingCode
  PROVE  \A m \in 0 .. Home : Kept(m)
  <1>1. \E t \in known : t.nonce = Home
    <2>1. CASE Contract # NoCode
      <3>1. chain # <<>>
        BY <2>1, NoncesNat DEF Contract, World
      <3>2. Len(chain) \in DOMAIN chain /\ chain[Len(chain)].world[Home] # NoCode
        BY <2>1, <3>1 DEF Contract, World, Types, NodeTypes
      <3>3. Home + 1 \in DOMAIN chain
        BY <3>2, NodeFacts, NoncesNat DEF CodeAfterHome
      <3>4. chain[Home + 1].tx \in InBlocks(chain) /\ chain[Home + 1].tx.nonce = Home
        BY <3>3, NoncesNat DEF InOrder, InBlocks
      <3> QED BY <3>4 DEF Recorded
    <2>2. CASE Contract = NoCode
      BY <2>2 DEF PendingCode, Recorded
    <2> QED BY <2>1, <2>2
  <1> QED BY <1>1 DEF NothingSkipped

\* No hole below what was read, signed or taken.
LEMMA SkipStep ==
  ASSUME Types, InOrder(base), InOrder(chain), Recorded, NothingSkipped, CodeAfterHome, [Next]_vars
  PROVE  NothingSkipped'
  <1> USE NodeFacts, NoncesNat
  <1>0. Types' /\ \A m \in Nat : Kept(m) => Kept(m)'
    BY KeptStays, TypesStep
  <1>1. ASSUME NEW t, Offer(t) PROVE t.nonce \in Nat /\ \A m \in 0 .. (t.nonce - 1) : Kept(m)'
    <2>1. \A m \in 0 .. (t.nonce - 1) : Kept(m)
      BY <1>1 DEF Offer, NothingSkipped
    <2> QED BY <1>1, <2>1, <1>0 DEF Offer
  <1>2. \A p \in Progs : \A m \in 0 .. (nonce[p] - 1)' : Kept(m)'
    <2> SUFFICES ASSUME NEW p \in Progs, NEW m \in 0 .. (nonce'[p] - 1) PROVE Kept(m)'
      OBVIOUS
    <2>1. nonce'[p] \in Nat
      BY <1>0 DEF Types, ProgTypes
    <2>2. CASE nonce'[p] = nonce[p]
      BY <2>1, <2>2, <1>0 DEF NothingSkipped
    <2>3. CASE IsPendingNonce(nonce'[p])
      BY <2>1, <2>3, <1>0 DEF IsPendingNonce, Kept
    <2> QED BY <2>2, <2>3, Moves DEF ReadsPending
  <1>3. \A t \in wire' : \A m \in 0 .. (t.nonce - 1) : Kept(m)'
    BY <1>1, Moves
  <1>4. \A t \in known' : \A m \in 0 .. t.nonce : Kept(m)'
    <2>1. ASSUME NEW t \in known, NEW m \in 0 .. t.nonce PROVE Kept(m)'
      BY <2>1, <1>0 DEF NothingSkipped
    <2>2. ASSUME NEW t \in AnyTx, Offer(t), PoolAdd(t), NEW m \in 0 .. t.nonce PROVE Kept(m)'
      <3>1. CASE m = t.nonce
        BY <2>2, <3>1 DEF PoolAdd, Kept, Taken
      <3>2. CASE m # t.nonce
        BY <2>2, <3>2, <1>1
      <3> QED BY <3>1, <3>2
    <2>3. known' = known \/ \E t \in AnyTx : Offer(t) /\ PoolAdd(t) /\ known' = known \cup {t}
      BY Moves DEF poolVars, PoolAdd, Reset, Evict
    <2> QED BY <2>1, <2>2, <2>3
  <1>5. pending' => \A m \in 0 .. Home : Kept(m)'
    <2> SUFFICES ASSUME pending', NEW m \in 0 .. Home PROVE Kept(m)'
      OBVIOUS
    <2>1. Kept(m)
      BY Moves, PendingTakesHome DEF NothingSkipped
    <2> QED BY <2>1, <1>0
  <1> QED BY <1>2, <1>3, <1>4, <1>5 DEF NothingSkipped

\* Who was first is outbid by all that come later, as long as the place is held.
LEMMA FirstStep ==
  ASSUME Types, Recorded, NothingSkipped, FirstOutbid, [Next]_vars PROVE FirstOutbid'
  <1> USE NodeFacts
  <1>1. ASSUME evicted \subseteq evicted', known' = known, first' = first PROVE FirstOutbid'
    BY <1>1 DEF FirstOutbid
  <1>2. ASSUME NEW u \in AnyTx, Acceptable(u), PoolAdd(u) PROVE FirstOutbid'
    <2> SUFFICES ASSUME NEW f \in first', \A e \in evicted' : e.nonce # f.nonce,
                        NEW t \in known', t.nonce = f.nonce
                 PROVE  t = f \/ t.price > f.price
      BY DEF FirstOutbid
    <2>1. /\ pool' = {v \in pool : v.nonce # u.nonce} \cup {u} /\ known' = known \cup {u}
          /\ f \in first \/ (f = u /\ \A k \in known : k.nonce # u.nonce)
          /\ evicted' = evicted
      BY <1>2 DEF PoolAdd
    <2>2. CASE f \notin first
      BY <2>1, <2>2
    <2>3. CASE f \in first /\ t \in known
      BY <1>2, <2>3 DEF FirstOutbid, PoolAdd
    <2>4. CASE f \in first /\ t \notin known
      <3>1. t = u /\ f \in known /\ f.nonce \in Nat
        BY <2>1, <2>4 DEF Recorded
      <3>2. Taken(f.nonce)
        <4>1. Kept(f.nonce)
          BY <3>1 DEF NothingSkipped
        <4> QED BY <4>1, <1>2 DEF Kept, PoolAdd
      <3>3. PICK v \in pool : v.nonce = f.nonce
        BY <3>1, <3>2, <1>2 DEF Taken, Acceptable
      <3>4. v = f \/ v.price > f.price
        BY <3>3, <2>4, <1>2 DEF FirstOutbid, Recorded, PoolAdd
      <3>5. u.price > v.price
        BY <1>2, <3>1, <3>3 DEF Acceptable
      <3>6. u.price \in Nat /\ v.price \in Nat /\ f.price \in Nat
        <4>1. v \in AnyTx /\ f \in AnyTx
          BY <3>3, <2>4
        <4> QED BY ONLY <4>1, u \in AnyTx, NoncesNat DEF AnyTx
      <3> QED BY <3>1, <3>4, <3>5, <3>6
    <2> QED BY <2>2, <2>3, <2>4
  <1>3. (UNCHANGED poolVars \/ Reset \/ \E e \in pool : Evict(e))
          => evicted \subseteq evicted' /\ known' = known /\ first' = first
    BY DEF poolVars, Reset, Evict
  <1> QED BY <1>1, <1>2, <1>3, Moves

\* What a transaction makes of the contract at the programs' address.
LEMMA ApplyHome ==
  ASSUME NEW w \in [Nonces -> Contracts], NEW t \in AnyTx
  PROVE  Apply(w, t)[Home] = IF ~Deploys(t) THEN SetItem(w[Home], t)
                             ELSE IF t.nonce = Home THEN Constructed(t) ELSE w[Home]
  BY NoncesNat DEF Apply

\* The contract of the new block, and that of the block before.
LEMMA MineContract ==
  ASSUME Types, NEW t \in known, Mine(t)
  PROVE  /\ chain'[Len(chain) + 1].world[Home] = Apply(World(chain), t)[Home]
         /\ kind' = kind /\ World(chain) \in [Nonces -> Contracts] /\ t \in AnyTx
         /\ Len(chain) > 0 => World(chain) = chain[Len(chain)].world
         /\ Len(chain) = 0 => World(chain)[Home] = NoCode
  <1>1. chain'[Len(chain) + 1] = [tx |-> t, world |-> Apply(World(chain), t)] /\ t \in AnyTx
    BY MineWorld, Zenon
  <1>2. UNCHANGED progVars
    BY MineWorld
  <1>3. Len(chain) = 0 <=> chain = <<>>
    BY DEF Types, NodeTypes
  <1> QED BY <1>1, <1>2, <1>3, NodeFacts, NoncesNat, WorldType DEF World, progVars, Types, NodeTypes

LEMMA CodeStep ==
  ASSUME Types, CodeAfterHome, [Next]_vars PROVE CodeAfterHome'
  <1> USE NodeFacts, NoncesNat DEF CodeAfterHome
  <1>1. CASE chain' = chain
    BY <1>1
  <1>2. ASSUME NEW t \in known, Mine(t) PROVE CodeAfterHome'
    <2> DEFINE w == World(chain)
    <2>1. w[Home] # NoCode => Len(chain) > Home
      BY <1>2, MineContract
    <2>2. Apply(w, t)[Home] # NoCode => w[Home] # NoCode \/ t.nonce = Home
      BY <1>2, MineContract, ApplyHome DEF SetItem
    <2>3. Apply(w, t)[Home] # NoCode => Len(chain) + 1 > Home
      BY <1>2, <2>1, <2>2, MineStep
    <2> HIDE DEF w
    <2>4. chain'[Len(chain) + 1].world[Home] # NoCode => Len(chain) + 1 > Home
      BY <1>2, <2>3, MineContract DEF w
    <2> QED BY <1>2, <2>4, MineStep
  <1>3. ASSUME Undo PROVE CodeAfterHome'
    BY <1>3, UndoStep
  <1> QED BY <1>1, <1>2, <1>3, Moves

\* Once the deployment is in a block, the contract is its own, and holds the item
\* of the last write.
Written(i, k) ==
  /\ chain[k].world[Home] \in [text : {Text[chain[i].tx.by]}, item : Progs \cup {Zero}]
  /\ (k > i /\ ~Deploys(chain[k].tx)) => chain[k].world[Home].item = chain[k].tx.by
Sticks == \A i, k \in DOMAIN chain :
  (chain[i].tx.nonce = Home /\ Deploys(chain[i].tx) /\ k >= i) => Written(i, k)

\* What a write leaves of a contract that is there.
LEMMA SetItemKeeps ==
  ASSUME NEW T, T \in Seq(STRING), NEW c \in [text : {T}, item : Progs \cup {Zero}], NEW t \in AnyTx
  PROVE  SetItem(c, t) \in [text : {T}, item : Progs \cup {Zero}] /\ SetItem(c, t).item = t.by
  <1>1. c \in [text : Seq(STRING), item : Progs \cup {Zero}]
    OBVIOUS
  <1>2. c # NoCode
    BY <1>1, ConstantsOK
  <1> QED BY <1>2 DEF SetItem, AnyTx

LEMMA SticksStep ==
  ASSUME Types, InOrder(chain), Sticks, [Next]_vars PROVE Sticks'
  <1> USE NodeFacts, NoncesNat
  <1>1. ASSUME chain' = chain PROVE Sticks'
    <2>1. kind' = kind
      BY Moves
    <2> QED BY <1>1, <2>1 DEF Sticks, Written, Deploys
  <1>2. ASSUME NEW t \in known, Mine(t) PROVE Sticks'
    <2> DEFINE n == Len(chain) + 1
    <2>0. /\ kind' = kind /\ t \in AnyTx /\ t.nonce = Len(chain) /\ DOMAIN chain' = 1 .. n
          /\ (\A i \in 1 .. Len(chain) : chain'[i] = chain[i]) /\ chain'[n].tx = t
          /\ chain'[n].world[Home] = Apply(World(chain), t)[Home]
      BY <1>2, MineStep, MineContract
    <2> SUFFICES ASSUME NEW i \in 1 .. n, NEW k \in 1 .. n, k >= i,
                        chain'[i].tx.nonce = Home, Deploys(chain[i].tx)'
                 PROVE  Written(i, k)'
      BY <2>0 DEF Sticks
    <2>1. CASE k <= Len(chain)
      <3>1. chain'[i] = chain[i] /\ chain'[k] = chain[k] /\ i \in DOMAIN chain /\ k \in DOMAIN chain
        BY <2>0, <2>1
      <3>2. Written(i, k)
        BY <2>0, <3>1 DEF Sticks, Deploys
      <3> QED BY <2>0, <3>1, <3>2 DEF Written, Deploys
    <2>2. CASE k = n /\ i = n
      <3>1. Deploys(t) /\ t.nonce = Home
        BY <2>0, <2>2 DEF Deploys
      <3>2. Apply(World(chain), t)[Home] = Constructed(t)
        BY <3>1, <1>2, MineContract, ApplyHome
      <3> QED BY <2>0, <2>2, <3>2 DEF Written, Constructed
    <2>3. CASE k = n /\ i < n
      <3> DEFINE w == World(chain)  T == Text[chain[i].tx.by]
      <3>1. chain'[i] = chain[i] /\ i \in DOMAIN chain /\ Len(chain) \in DOMAIN chain /\ Len(chain) >= i
        BY <2>0, <2>3
      <3>2. Written(i, Len(chain))
        BY <2>0, <3>1 DEF Sticks, Deploys
      <3>3. w = chain[Len(chain)].world /\ w \in [Nonces -> Contracts]
        BY <1>2, <3>1, MineContract
      <3>4. w[Home] \in [text : {T}, item : Progs \cup {Zero}]
        BY <3>2, <3>3 DEF Written
      <3>5. t.nonce # Home
        <4>1. chain[i].tx.nonce = i - 1 /\ chain[i].tx.nonce = Home
          BY <3>1 DEF InOrder
        <4>2. t.nonce = Len(chain) /\ Len(chain) \in Nat /\ Len(chain) >= i /\ i \in Nat
          BY <2>0, <3>1
        <4> QED BY ONLY <4>1, <4>2
      <3>6. T \in Seq(STRING)
        BY <3>1, ConstantsOK
      <3>7. /\ Deploys(t) => Apply(w, t)[Home] = w[Home]
            /\ ~Deploys(t) => Apply(w, t)[Home] = SetItem(w[Home], t)
        BY <2>0, <3>3, <3>5, ApplyHome
      <3>8. /\ Apply(w, t)[Home] \in [text : {T}, item : Progs \cup {Zero}]
            /\ ~Deploys(t) => Apply(w, t)[Home].item = t.by
        BY <2>0, <3>4, <3>6, <3>7, SetItemKeeps
      <3>9. chain'[k].tx = t /\ chain'[k].world[Home] = Apply(w, t)[Home]
        BY <2>0, <2>3
      <3>10. kind'[chain'[k].tx.by] = "contract_deploy" <=> Deploys(t)
        BY <2>0, <3>9 DEF Deploys
      <3>11. Text[chain'[i].tx.by] = T
        BY <3>1
      <3> HIDE DEF w, T
      <3>12. chain'[k].world[Home] \in [text : {Text[chain'[i].tx.by]}, item : Progs \cup {Zero}]
        BY <3>8, <3>9, <3>11
      <3>13. kind'[chain'[k].tx.by] # "contract_deploy" => chain'[k].world[Home].item = chain'[k].tx.by
        BY <3>8, <3>9, <3>10
      <3> QED BY <3>12, <3>13 DEF Written, Deploys
    <2>4. Len(chain) \in Nat
      BY NodeFacts
    <2>5. k <= Len(chain) \/ (k = n /\ i = n) \/ (k = n /\ i < n)
      BY ONLY <2>4, i \in 1 .. n, k \in 1 .. n, k >= i
    <2> QED BY ONLY <2>1, <2>2, <2>3, <2>5
  <1>3. ASSUME Undo PROVE Sticks'
    <2>1. /\ kind' = kind /\ \A i \in DOMAIN chain' : chain'[i] = chain[i] /\ i \in DOMAIN chain
      BY <1>3, UndoStep DEF progVars
    <2> QED BY <2>1 DEF Sticks, Written, Deploys
  <1> QED BY <1>1, <1>2, <1>3, Moves

NodeInv == NodeKept /\ CodeAfterHome /\ Sticks

LEMMA TypesInit ==
  ASSUME Init PROVE Types
  <1>1. kind \in [Progs -> DOMAIN Plan]
    BY ConstantsOK DEF Init
  <1>2. 0 \in Nonces
    BY ConstantsOK, FS_CardinalityType DEF Nonces
  <1>3. NodeTypes
    <2>1. pool = {} /\ known = {} /\ wire = {} /\ first = {} /\ evicted = {}
      BY DEF Init
    <2>2. pool \cup known \cup wire \cup first \cup evicted \subseteq AnyTx
      BY ONLY <2>1
    <2>3. chain = <<>> /\ base = <<>> /\ pending = FALSE
      BY DEF Init
    <2>4. <<>> \in Seq(Blocks)
      OBVIOUS
    <2> QED BY ONLY <1>1, <2>2, <2>3, <2>4 DEF NodeTypes
  <1>4. ProgTypes
    BY <1>2 DEF Init, ProgTypes, Contracts
  <1> QED BY <1>3, <1>4 DEF Types

LEMMA NodeInvInit ==
  ASSUME Init PROVE NodeInv
  <1>1. /\ chain = <<>> /\ base = <<>> /\ pool = {} /\ known = {} /\ wire = {} /\ first = {} /\ pending = FALSE
        /\ nonce = [p \in Progs |-> 0]
    BY DEF Init
  <1>2. DOMAIN chain = {} /\ DOMAIN base = {}
    BY <1>1
  <1>3. NodeKept
    BY <1>1, <1>2 DEF NodeKept, InOrder, Recorded, InBlocks, NothingSkipped, FirstOutbid
  <1> QED BY <1>2, <1>3 DEF NodeInv, CodeAfterHome, Sticks

THEOREM NodeInvariant == Spec => [](Types /\ NodeInv)
  <1>1. Init => Types /\ NodeInv
    BY TypesInit, NodeInvInit
  <1>2. Types /\ NodeInv /\ [Next]_vars => Types' /\ NodeInv'
    BY TypesStep, OrderStep, RecordedStep, SkipStep, FirstStep, CodeStep, SticksStep DEF NodeInv, NodeKept
  <1> QED BY <1>1, <1>2, PTL DEF Spec

\* A write that was given a later nonce than the deployment of its contract has
\* its effect, whatever is undone and mined again (contract_write.go:60).
THEOREM WriteSticks == Spec => []WriteAfterDeploySticks
  <1>1. ASSUME Types, NodeInv PROVE WriteAfterDeploySticks
    <2> SUFFICES ASSUME NEW i \in DOMAIN chain, NEW j \in DOMAIN chain,
                        chain[i].tx.nonce = Home, chain[j].tx.nonce > Home,
                        Deploys(chain[i].tx), ~Deploys(chain[j].tx)
                 PROVE  chain[j].world[Home] = [text |-> Text[chain[i].tx.by], item |-> chain[j].tx.by]
      BY DEF WriteAfterDeploySticks
    <2>1. j > i
      BY <1>1, NodeFacts, NoncesNat DEF NodeInv, NodeKept, InOrder
    <2>2. Written(i, j)
      BY <1>1, <2>1, NodeFacts DEF NodeInv, Sticks
    <2> DEFINE c == chain[j].world[Home]  T == Text[chain[i].tx.by]
    <2>3. c \in [text : {T}, item : Progs \cup {Zero}] /\ c.item = chain[j].tx.by
      BY <2>1, <2>2 DEF Written
    <2> HIDE DEF c, T
    <2>4. c = [text |-> T, item |-> chain[j].tx.by]
      BY <2>3
    <2> QED BY <2>4 DEF c, T
  <1> QED BY <1>1, NodeInvariant, PTL

-------------------------------------------------------------------------------
(* The programs.                                                           *)

\* What a program's own step does to it: an empty answer is kept for the look at
\* the code, and anything else takes the program on or ends it.
LEMMA OwnStep ==
  ASSUME Types, NEW p \in Progs, Step(p) \/ RequestFails(p)
  PROVE  \/ /\ Doing(p) \in Getters /\ Contract = NoCode /\ ip' = ip /\ seen' = seen /\ out' = out
            /\ empty' = [empty EXCEPT ![p] = TRUE]
         \/ /\ Goes(p, ip'[p]) /\ ip'[p] \in {0, ip[p] + 1}
  <1>1. ASSUME NEW n, Goes(p, n) PROVE ip'[p] = n
    BY <1>1 DEF Goes, Types, ProgTypes
  <1>2. CASE ReadNonce(p) \/ ReadPrice(p)
    BY <1>1, <1>2 DEF ReadNonce, ReadPrice
  <1>3. CASE LookAtPendingCode(p) \/ Ask(p) \/ Send(p)
    BY <1>1, <1>3 DEF LookAtPendingCode, Ask, Send
  <1>4. ASSUME NEW r, Return(p, r) PROVE Goes(p, ip'[p]) /\ ip'[p] \in {0, ip[p] + 1}
    BY <1>1, <1>4 DEF Return
  <1>5. CASE Call(p)
    BY <1>4, <1>5 DEF Call, Finish
  <1>6. CASE LookForCode(p) \/ AskNode(p)
    BY <1>4, <1>6 DEF LookForCode, AskNode, Finish
  <1>7. CASE RequestFails(p)
    BY <1>1, <1>4, <1>7 DEF RequestFails
  <1> QED BY <1>2, <1>3, <1>5, <1>6, <1>7 DEF Step

\* The heads a read may have seen; an empty answer is one of a head without code.
Watching == \A p \in Progs : Contract \in seen[p] /\ (empty[p] => NoCode \in seen[p] /\ Doing(p) \in Getters)

LEMMA WatchingStep ==
  ASSUME Types, Watching, [Next]_vars PROVE Watching'
  <1>1. ASSUME NEW p \in Progs, Step(p) \/ RequestFails(p) PROVE Watching'
    <2>1. Contract' = Contract /\ kind' = kind
      BY <1>1, ProgStep DEF Contract, World, chainVars
    <2>2. ASSUME NEW q \in Progs \ {p}
          PROVE (Contract \in seen[q] /\ (empty[q] => NoCode \in seen[q] /\ Doing(q) \in Getters))'
      BY <1>1, <2>1, <2>2, ProgStep DEF Watching, Doing
    <2>3. CASE /\ Doing(p) \in Getters /\ Contract = NoCode /\ ip' = ip /\ seen' = seen
               /\ empty' = [empty EXCEPT ![p] = TRUE]
      BY <2>1, <2>2, <2>3 DEF Watching, Doing
    <2>4. CASE Goes(p, ip'[p])
      <3>1. seen'[p] = {Contract} /\ empty'[p] = FALSE
        BY <2>4 DEF Goes, Types, ProgTypes
      <3> QED BY <2>1, <2>2, <3>1 DEF Watching
    <2> QED BY <1>1, <2>3, <2>4, OwnStep
  <1>2. ASSUME Watch(chain'), UNCHANGED progVars PROVE Watching'
    BY <1>2 DEF Watch, progVars, Watching, Contract, Doing
  <1>3. ASSUME (\E t \in known : Mine(t)) \/ Undo PROVE Watching'
    BY <1>2, <1>3 DEF Mine, Undo
  <1>4. ASSUME UNCHANGED <<progVars, seen, chain>> PROVE Watching'
    BY <1>4 DEF progVars, Watching, Contract, World, Doing
  <1>5. ASSUME (\E t \in wire : Arrive(t)) \/ Reset \/ Pend \/ (\E t \in pool : Evict(t)) \/ UNCHANGED vars
        PROVE  UNCHANGED <<progVars, seen, chain>>
    BY <1>5 DEF Arrive, Reset, Pend, Evict, vars, nodeVars, chainVars
  <1> QED BY <1>1, <1>3, <1>4, <1>5 DEF Next

THEOREM WatchingInvariant == Spec => [](Types /\ Watching)
  <1>1. ASSUME Init PROVE Watching
    <2>1. Contract = NoCode
      BY <1>1, NoncesNat DEF Init, Contract, World
    <2> QED BY <1>1, <2>1 DEF Init, Watching
  <1> QED BY <1>1, TypesInit, TypesStep, WatchingStep, PTL DEF Spec

\* Who ends a read, and how.
LEMMA OutStep ==
  ASSUME Types, [Next]_vars, NEW p \in Progs, out'[p] # out[p]
  PROVE  \/ Doing(p) \in Getters /\ Contract # NoCode /\ out'[p] = Answer(Doing(p), Contract)
         \/ empty[p] /\ out'[p].err \in {"no contract code", "unpack empty"}
         \/ Doing(p) \notin Getters /\ out'[p].err = "none"
         \/ out'[p].err = "request"
  <1>1. out = [q \in Progs |-> out[q]]
    BY DEF Types, ProgTypes
  <1>2. Step(p) \/ RequestFails(p)
    BY ProgStep DEF Next, Mine, Undo, Arrive, Reset, Pend, Evict, vars, progVars
  <1>3. ASSUME NEW r, Return(p, r) PROVE out'[p] = r
    BY <1>1, <1>3 DEF Return
  <1>4. CASE Call(p)
    BY <1>3, <1>4 DEF Call, Finish
  <1>e. \A op, err : Failed(op, err).err = err
    BY DEF Failed
  <1>5. CASE LookForCode(p)
    <2>1. PICK e \in {"no contract code", "unpack empty"} : Finish(p, Failed(Doing(p), e))
      BY <1>5 DEF LookForCode
    <2>2. out'[p].err = e
      BY <1>3, <1>e, <2>1 DEF Finish
    <2> QED BY <1>5, <2>1, <2>2 DEF LookForCode
  <1>6. CASE AskNode(p)
    <2>1. PICK v : Finish(p, [val |-> v, err |-> "none"])
      BY <1>6 DEF AskNode
    <2>2. out'[p].err = "none"
      BY <1>3, <2>1 DEF Finish
    <2> QED BY <1>6, <2>2 DEF AskNode, Getters
  <1>7. CASE RequestFails(p)
    <2>1. CASE Doing(p) \in Getters
      <3>1. Return(p, Failed(Doing(p), "request"))
        BY <1>7, <2>1 DEF RequestFails
      <3>2. out'[p].err = "request"
        BY <1>3, <1>e, <3>1
      <3> QED BY <3>2
    <2>2. CASE Doing(p) \notin Getters
      BY <1>7, <2>2 DEF RequestFails
    <2> QED BY <2>1, <2>2
  <1> QED BY <1>2, <1>4, <1>5, <1>6, <1>7 DEF Step, ReadNonce, ReadPrice, LookAtPendingCode, Ask, Send

\* A read without an error hands out what the contract held at a head of the time
\* it took (bind.BoundContract.Call, base.go:130).
THEOREM Genuine == Spec => ReadsAreGenuine
  <1>1. ASSUME Types, Watching, [Next]_vars, NEW p \in Progs,
               out'[p] # out[p], out'[p].err = "none", Doing(p) \in Getters
        PROVE  \E c \in seen[p] \ {NoCode} : out'[p].val = Answer(Doing(p), c).val
    BY <1>1, OutStep DEF Watching
  <1>2. Types /\ Watching /\ [Next]_vars =>
          \A p \in Progs : (out'[p] # out[p] /\ out'[p].err = "none" /\ Doing(p) \in Getters) =>
            \E c \in seen[p] \ {NoCode} : out'[p].val = Answer(Doing(p), c).val
    BY <1>1
  <1> QED BY <1>2, WatchingInvariant, PTL DEF Spec, ReadsAreGenuine

\* The value of a contract unpacks, or it never does.
LEMMA UnpackErr ==
  ASSUME NEW op \in Getters, NEW c PROVE Answer(op, c).err \in {"none", "unpack"}
  BY DEF Getters, Answer, Unpack, Items, Version, Name, Symbol, BalanceOf, Decimals, Allowance, TotalSupply, RawCall

\* A read whose requests are answered fails only if some head had no code.
THEOREM Refused == Spec => RefusedOnlyWithoutCode
  <1>1. ASSUME Types, Watching, [Next]_vars, NEW p \in Progs,
               out'[p] # out[p], out'[p].err \notin {"none", "request", "unpack"}
        PROVE  NoCode \in seen[p]
    BY <1>1, OutStep, UnpackErr DEF Watching
  <1>2. Types /\ Watching /\ [Next]_vars =>
          \A p \in Progs : (out'[p] # out[p] /\ out'[p].err \notin {"none", "request", "unpack"})
            => NoCode \in seen[p]
    BY <1>1
  <1> QED BY <1>2, WatchingInvariant, PTL DEF Spec, RefusedOnlyWithoutCode

-------------------------------------------------------------------------------
(* The nonces and the addresses.                                           *)

\* The requests of a token write, by their place.
LEMMA PlaceOf ==
  ASSUME Types, NEW p \in Progs, kind[p] = "TokenWrite"
  PROVE  /\ Doing(p) = IF ip[p] = 1 THEN "head" ELSE IF ip[p] = 2 THEN "price"
                       ELSE IF ip[p] = 3 THEN "code" ELSE IF ip[p] = 4 THEN "estimate"
                       ELSE IF ip[p] = 5 THEN "nonce" ELSE IF ip[p] = 6 THEN "send" ELSE "none"
         /\ Done(p) <=> ip[p] > 6
  <1>1. ip[p] \in Nat
    BY DEF Types, ProgTypes
  <1>2. TokenWrite = <<"head", "price", "code", "estimate", "nonce", "send">>
    BY DEF TokenWrite, NewToken
  <1>3. Plan[kind[p]] = <<"head", "price", "code", "estimate", "nonce", "send">>
    BY <1>2 DEF Plan
  <1>4. Len(Plan[kind[p]]) = 6 /\ DOMAIN Plan[kind[p]] = 1 .. 6
    BY <1>3
  <1> QED BY <1>1, <1>3, <1>4 DEF Doing, Done

HomeKept == \A m \in 0 .. Home : Kept(m)
AfterHome(n) == n > Home \/ \E e \in evicted : e.nonce <= Home

\* Where all nonces up to Home are taken, the next one is after it, unless the
\* transaction that held it was thrown out.
LEMMA NextAfterHome ==
  ASSUME HomeKept, NEW n \in Nonces, IsPendingNonce(n) PROVE AfterHome(n)
  <1>1. n \in Nat /\ Home \in Nat /\ ~Taken(n)
    BY NoncesNat DEF IsPendingNonce
  <1>2. CASE n <= Home
    <2>1. Kept(n)
      BY <1>1, <1>2 DEF HomeKept
    <2>2. PICK e \in evicted : e.nonce = n
      BY <1>1, <2>1 DEF Kept
    <2> QED BY <1>2, <2>2 DEF AfterHome
  <1> QED BY <1>1, <1>2 DEF AfterHome

\* What a token write knows when it has come so far.
Follows(p) == kind[p] = "TokenWrite" => /\ ip[p] >= 4 => HomeKept
                                        /\ ip[p] >= 6 => AfterHome(nonce[p])

LEMMA FollowsStep ==
  ASSUME Types, NodeInv, Watching, [Next]_vars, \A q \in Progs : Follows(q)
  PROVE  \A q \in Progs : Follows(q)'
  <1>0. HomeKept => HomeKept'
    BY KeptStays, NoncesNat DEF NodeInv, NodeKept, HomeKept
  <1>e. \A n : AfterHome(n) => AfterHome(n)'
    <2>1. evicted \subseteq evicted'
      BY Moves DEF poolVars, PoolAdd, Reset, Evict
    <2> QED BY <2>1 DEF AfterHome
  <1>1. ASSUME NEW p \in Progs, Step(p) \/ RequestFails(p) PROVE \A q \in Progs : Follows(q)'
    <2>0. kind' = kind /\ ip[p] \in Nat
      BY <1>1, ProgStep DEF Types, ProgTypes
    <2>1. ASSUME NEW q \in Progs \ {p} PROVE Follows(q)'
      BY <1>0, <1>e, <1>1, <2>0, <2>1, ProgStep DEF Follows
    <2>2. ASSUME kind[p] = "TokenWrite", Doing(p) # "none" PROVE Follows(p)'
      <3> USE <2>2, PlaceOf, <2>0
      <3>1. empty[p] = FALSE /\ Doing(p) \notin Getters /\ Goes(p, ip'[p]) /\ ip'[p] \in {0, ip[p] + 1}
        <4>1. Doing(p) \notin Getters
          BY DEF Getters
        <4> QED BY <4>1, <1>1, OwnStep DEF Watching, Types, ProgTypes
      <3>a. ASSUME Goes(p, 0) PROVE ip'[p] = 0
        BY <3>a DEF Goes, Types, ProgTypes
      <3>2. CASE ip[p] \in {1, 2}
        BY <3>1, <3>2 DEF Follows
      <3>3. CASE ip[p] = 3
        <4>0. Doing(p) = "code"
          BY <3>3
        <4>1. LookAtPendingCode(p) \/ RequestFails(p)
          BY ONLY <1>1, <3>1, <4>0 DEF Step, ReadNonce, ReadPrice, Ask, Send, Call, LookForCode, AskNode
        <4>2. pending \/ ip'[p] = 0
          BY <4>1, <3>a, <3>1 DEF LookAtPendingCode, RequestFails
        <4>3. pending => HomeKept
          BY DEF NodeInv, NodeKept, NothingSkipped, HomeKept
        <4> QED BY <4>2, <4>3, <3>1, <3>3, <1>0 DEF Follows
      <3>4. CASE ip[p] = 4
        BY <3>1, <3>4, <1>0 DEF Follows
      <3>5. CASE ip[p] = 5
        <4>0. Doing(p) = "nonce"
          BY <3>5
        <4>1. ReadNonce(p) \/ RequestFails(p)
          BY ONLY <1>1, <3>1, <4>0 DEF Step, LookAtPendingCode, ReadPrice, Ask, Send, Call, LookForCode, AskNode
        <4>2. HomeKept
          BY <3>5 DEF Follows
        <4>3. AfterHome(nonce'[p]) \/ ip'[p] = 0
          <5>1. CASE ReadNonce(p)
            <6>1. PICK n \in Nonces : IsPendingNonce(n) /\ nonce' = [nonce EXCEPT ![p] = n]
              BY <5>1 DEF ReadNonce
            <6>2. nonce'[p] = n
              BY <6>1 DEF Types, ProgTypes
            <6> QED BY <4>2, <6>1, <6>2, NextAfterHome
          <5> QED BY <4>1, <3>a, <5>1, <3>1 DEF RequestFails
        <4> QED BY <4>2, <4>3, <3>1, <3>5, <1>0, <1>e DEF Follows
      <3>6. CASE ip[p] = 6
        <4>0. Doing(p) = "send"
          BY <3>6
        <4>1. nonce' = nonce
          BY ONLY <1>1, <3>1, <4>0 DEF Step, ReadNonce, ReadPrice, LookAtPendingCode, Ask, Send, Call, LookForCode, AskNode, RequestFails
        <4> QED BY <4>1, <3>1, <3>6, <1>0, <1>e DEF Follows
      <3> QED BY <3>2, <3>3, <3>4, <3>5, <3>6
    <2>3. ASSUME kind[p] = "TokenWrite" PROVE Doing(p) # "none"
      <3>1. Doing(p) # "none" \/ empty[p]
        BY <1>1 DEF Step, ReadNonce, ReadPrice, LookAtPendingCode, Ask, Send, Call, LookForCode, AskNode, RequestFails, Getters
      <3> QED BY <3>1 DEF Watching, Getters
    <2>4. kind[p] # "TokenWrite" => Follows(p)'
      BY <2>0 DEF Follows
    <2> QED BY <2>1, <2>2, <2>3, <2>4
  <1>2. ASSUME UNCHANGED progVars PROVE \A q \in Progs : Follows(q)'
    BY <1>0, <1>e, <1>2 DEF Follows, progVars
  <1>3. ASSUME ~\E p \in Progs : Step(p) \/ RequestFails(p) PROVE UNCHANGED progVars
    BY <1>3 DEF Next, Arrive, Mine, Undo, Reset, Pend, Evict, vars
  <1> QED BY <1>1, <1>2, <1>3

\* A token write takes the nonce of the deployment it saw, or one before, only if
\* the pool threw a transaction out (bind.BoundContract.transact looks at the code
\* between price and nonce).
THEOREM TokenWriteFollows == Spec => []TokenWriteFollowsDeployment
  <1>1. Init => \A q \in Progs : Follows(q)
    BY DEF Init, Follows
  <1>2. Types /\ NodeInv /\ Watching /\ [Next]_vars /\ (\A q \in Progs : Follows(q)) => (\A q \in Progs : Follows(q))'
    BY FollowsStep
  <1>3. Spec => [](\A q \in Progs : Follows(q))
    BY <1>1, <1>2, NodeInvariant, WatchingInvariant, PTL DEF Spec
  <1>4. ASSUME Types, \A q \in Progs : Follows(q) PROVE TokenWriteFollowsDeployment
    BY <1>4, PlaceOf DEF Follows, AfterHome, TokenWriteFollowsDeployment, Types, ProgTypes
  <1> QED BY <1>3, <1>4, NodeInvariant, PTL

\* The first deployer's address is lost only to a transaction that pays more, as
\* long as the pool throws out no holder of its nonce (contract_deploy.go:63,
\* through the pool's replacement rule and whichever rival is mined).
THEOREM AddressKept == Spec => []AddressLostOnlyToAHigherPrice
  <1>1. ASSUME Types, NodeInv PROVE AddressLostOnlyToAHigherPrice
    <2> SUFFICES ASSUME NEW p \in Progs, TxOf(p) \in first, nonce[p] < Len(chain),
                        \A e \in evicted : e.nonce # nonce[p]
                 PROVE  chain[nonce[p] + 1].tx = TxOf(p) \/ chain[nonce[p] + 1].tx.price > price[p]
      BY DEF AddressLostOnlyToAHigherPrice
    <2> DEFINE t == chain[nonce[p] + 1].tx
    <2>1. nonce[p] + 1 \in DOMAIN chain /\ TxOf(p).nonce = nonce[p] /\ TxOf(p).price = price[p]
      BY <1>1, NodeFacts DEF TxOf
    <2>2. t.nonce = nonce[p] /\ t \in known
      BY <1>1, <2>1, NodeFacts DEF NodeInv, NodeKept, InOrder, Recorded, InBlocks
    <2> QED BY <1>1, <2>1, <2>2 DEF NodeInv, NodeKept, FirstOutbid
  <1> QED BY <1>1, NodeInvariant, PTL

-------------------------------------------------------------------------------
(* The types of what the programs read, send and hand out.  That what is   *)
(* sent has a suggested price rests on the order of the requests: every    *)
(* program that sends has asked for the price before.                      *)

Values == Progs \cup {Zero, Nil, Key, Code} \cup [1..Width -> STRING]

\* What a call hands out is of a getter's result or what it is without one.
LEMMA AnswerTypes ==
  ASSUME NEW op \in Getters, NEW c \in [text : Seq(STRING), item : Progs \cup {Zero}]
  PROVE  Unpack(op, c).val \in Values /\ Unpack(op, c).failed \in Values
  <1>1. ASSUME NEW s \in Seq(STRING) PROVE AsArray(s) \in [1..Width -> STRING]
    <2>1. \A i \in 1..Width : (IF i <= Len(s) THEN s[i] ELSE NUL) \in STRING
      <3> SUFFICES ASSUME NEW i \in 1..Width, i <= Len(s) PROVE s[i] \in STRING
        BY ConstantsOK
      <3>1. i \in 1..Len(s)
        BY ConstantsOK
      <3> QED BY <3>1, ElementOfSeq
    <2> QED BY <2>1 DEF AsArray
  <1>2. c.text \in Seq(STRING) /\ c.item \in Progs \cup {Zero} /\ <<>> \in Seq(STRING)
    OBVIOUS
  <1>3. AsArray(c.text) \in Values /\ AsArray(<<>>) \in Values
    BY <1>1, <1>2 DEF Values
  <1> QED BY <1>2, <1>3 DEF Getters, Unpack, Items, Version, Name, Symbol, BalanceOf, Decimals,
                            Allowance, TotalSupply, RawCall, Values

\* A program that sends has asked for the price.
LEMMA SendAfterPrice ==
  ASSUME NEW k \in DOMAIN Plan, NEW j \in DOMAIN Plan[k], Plan[k][j] = "send"
  PROVE  \E i \in DOMAIN Plan[k] : i < j /\ Plan[k][i] = "price"
  <1>0. ASSUME NEW i \in DOMAIN contract_write, contract_write[i] = "send"
        PROVE  2 \in DOMAIN contract_write /\ 2 < i /\ contract_write[2] = "price"
    <2> DEFINE s == <<"nonce", "price">>  t == <<"send", "Items">>
               S == {"nonce", "price", "send", "Items"}
    <2>1. s \in Seq(S) /\ t \in Seq(S)
      <3>1. \A T : \A a, b \in T : <<a, b>> \in Seq(T)
        OBVIOUS
      <3> QED BY <3>1
    <2>0. Len(s) = 2 /\ Len(t) = 2
      OBVIOUS
    <2>a. s \o <<>> = s
      <3> HIDE DEF s, S
      <3> QED BY <2>1, ConcatEmptySeq
    <2>2. s[1] = "nonce" /\ s[2] = "price"
      OBVIOUS
    <2>3. contract_write = s \o t
      BY <2>a DEF contract_write, NewStore
    <2> HIDE DEF s, t, S
    <2>4. /\ s \o t \in Seq(S) /\ Len(s \o t) = 4
          /\ (s \o t)[1] = s[1] /\ (s \o t)[2] = s[2]
      <3>1. /\ s \o t \in Seq(S) /\ Len(s \o t) = Len(s) + Len(t)
            /\ \A n \in 1 .. Len(s) + Len(t) : (s \o t)[n] = IF n <= Len(s) THEN s[n] ELSE t[n - Len(s)]
        BY ONLY <2>1, ConcatProperties
      <3> QED BY ONLY <3>1, <2>0
    <2>5. DOMAIN contract_write = 1 .. 4 /\ contract_write[1] = "nonce" /\ contract_write[2] = "price"
      BY ONLY <2>2, <2>3, <2>4
    <2> QED BY <1>0, <2>5
  <1>1. /\ contract_read = <<"Version">>
        /\ contract_read_erc20 = <<"BalanceOf", "Name", "Symbol", "Decimals">>
        /\ GetTokenBalance = <<"BalanceOf">> /\ GetTokenDecimals = <<"Decimals">>
        /\ Bindings = <<"Allowance", "TotalSupply", "Call">>
        /\ TokenWrite = <<"head", "price", "code", "estimate", "nonce", "send">>
    <2>4. contract_read = <<"Version">>
      BY DEF contract_read, NewStore
    <2>5. contract_read_erc20 = <<"BalanceOf", "Name", "Symbol", "Decimals">>
      BY DEF contract_read_erc20, NewToken
    <2>6. GetTokenBalance = <<"BalanceOf">> /\ GetTokenDecimals = <<"Decimals">>
      BY DEF GetTokenBalance, GetTokenDecimals, NewToken
    <2>7. Bindings = <<"Allowance", "TotalSupply", "Call">>
      BY DEF Bindings, NewToken
    <2>8. TokenWrite = <<"head", "price", "code", "estimate", "nonce", "send">>
      BY DEF TokenWrite, NewToken
    <2> QED BY <2>4, <2>5, <2>6, <2>7, <2>8
  <1>2. Plan[k] \in {contract_write, contract_deploy, TokenWrite} \/ "send" \notin Range(Plan[k])
    BY <1>1 DEF Plan, Range, contract_deploy, contract_load, NewStore, contract_bytecode,
                contract_write_estimate_gas
  <1>3. Plan[k] \in {contract_write, contract_deploy, TokenWrite}
    BY <1>2 DEF Range
  <1>4. CASE Plan[k] = contract_write
    BY <1>0, <1>4
  <1> QED BY <1>1, <1>3, <1>4 DEF contract_deploy

\* The requests of a program have their places.
LEMMA PlaceNat ==
  ASSUME NEW k \in DOMAIN Plan, NEW i \in DOMAIN Plan[k] PROVE i \in Nat \ {0}
  <1>1. DOMAIN Plan[k] \subseteq Nat \ {0}
    BY DEF Plan, contract_deploy, contract_load, NewStore, NewToken, contract_write,
           contract_read, contract_read_erc20, contract_bytecode,
           contract_write_estimate_gas, GetTokenBalance, GetTokenDecimals, Bindings, TokenWrite
  <1> QED BY <1>1

Asked(p) == \E i \in DOMAIN Plan[kind[p]] : i < ip[p] /\ Plan[kind[p]][i] = "price"
Priced == \A p \in Progs : /\ price[p] \in Prices \cup {0} /\ (Asked(p) => price[p] \in Prices)

\* The types of what the programs have read and handed out, and that a price was
\* read before it is used.
Sent == wire \cup known \cup evicted \subseteq Tx
HandedOut == \A p \in Progs : out[p].val \in Values
PricedInv == Priced /\ Sent /\ HandedOut /\ undone \in 0..MaxUndone /\ kind \in Sessions

LEMMA SendPriced ==
  ASSUME Types, Priced, NEW p \in Progs, Doing(p) = "send" PROVE TxOf(p) \in Tx
  <1>1. kind[p] \in DOMAIN Plan /\ nonce[p] \in Nonces
    BY DEF Types, NodeTypes, ProgTypes
  <1>2. ip[p] \in DOMAIN Plan[kind[p]] /\ Plan[kind[p]][ip[p]] = "send"
    BY DEF Doing
  <1>3. Asked(p)
    BY <1>1, <1>2, SendAfterPrice DEF Asked
  <1>4. price[p] \in Prices
    BY <1>3 DEF Priced
  <1> QED BY <1>1, <1>4 DEF TxOf, Tx

\* A contract that has code has a text and an item.
LEMMA ContractType ==
  ASSUME Types, Contract # NoCode
  PROVE  Contract \in [text : Seq(STRING), item : Progs \cup {Zero}]
  BY WorldType, NoncesNat DEF Contract, Contracts, Types, NodeTypes

\* What a step of a program hands out, reads and sends.
LEMMA ProgPriced ==
  ASSUME Types, Watching, PricedInv, NEW p \in Progs, Step(p) \/ RequestFails(p)
  PROVE  PricedInv'
  <1>0. /\ chain' = chain /\ kind' = kind /\ ip \in [Progs -> Nat] /\ ip' \in [Progs -> Nat]
        /\ price \in [Progs -> Nat] /\ price' \in [Progs -> Nat]
        /\ \A q \in Progs \ {p} : ip'[q] = ip[q] /\ price'[q] = price[q] /\ out'[q] = out[q]
    BY ProgStep DEF Types, ProgTypes, chainVars
  <1>1. undone' = undone
    BY ProgStep DEF chainVars
  <1>2. ip'[p] \in {0, ip[p], ip[p] + 1}
    BY <1>0 DEF Step, ReadNonce, ReadPrice, LookAtPendingCode, Ask, Send, Call, LookForCode, AskNode,
                RequestFails, Finish, Return, Goes
  <1>3. /\ price'[p] = price[p] \/ price'[p] \in Prices
        /\ ip'[p] # ip[p] + 1 \/ Doing(p) # "price" \/ price'[p] \in Prices
    <2>1. CASE ReadPrice(p)
      BY <2>1, <1>0 DEF ReadPrice
    <2>2. CASE ~ReadPrice(p)
      <3>1. price' = price
        BY <2>2 DEF Step, ReadNonce, LookAtPendingCode, Ask, Send, Call, LookForCode, AskNode,
                    RequestFails, Finish, Return
      <3>2. CASE Doing(p) = "price"
        <4>1. RequestFails(p)
          <5>1. ~empty[p] /\ Doing(p) \notin Getters
            BY <3>2 DEF Watching, Getters
          <5> QED BY <2>2, <3>2, <5>1
                  DEF Step, ReadNonce, LookAtPendingCode, Ask, Send, Call, LookForCode, AskNode
        <4>2. ip'[p] = 0
          BY <4>1, <3>2, <1>0 DEF RequestFails, Getters, Goes
        <4> QED BY <3>1, <4>2, <1>0
      <3> QED BY <3>1, <3>2
    <2> QED BY <2>1, <2>2
  <1>4. Priced'
    <2> SUFFICES ASSUME NEW q \in Progs
                 PROVE  price'[q] \in Prices \cup {0} /\ (Asked(q)' => price'[q] \in Prices)
      BY DEF Priced
    <2>1. CASE q # p
      BY <2>1, <1>0 DEF PricedInv, Priced, Asked
    <2>2. CASE q = p
      <3>1. price'[p] \in Prices \cup {0}
        BY <1>3 DEF PricedInv, Priced
      <3>2. ASSUME Asked(p)' PROVE price'[p] \in Prices
        <4>1. PICK i \in DOMAIN Plan[kind[p]] : i < ip'[p] /\ Plan[kind[p]][i] = "price"
          BY <3>2, <1>0 DEF Asked
        <4>2. i \in Nat
          BY <4>1, PlaceNat DEF Types, NodeTypes
        <4>3. ip[p] \in Nat
          BY <1>0
        <4>4. CASE i < ip[p]
          BY <4>1, <4>4, <1>3 DEF Asked, PricedInv, Priced
        <4>5. CASE ~(i < ip[p])
          <5>1. i = ip[p] /\ ip'[p] = ip[p] + 1
            BY <4>1, <4>2, <4>3, <4>5, <1>2
          <5>2. Doing(p) = "price"
            BY <5>1, <4>1 DEF Doing
          <5> QED BY <5>1, <5>2, <1>3
        <4> QED BY <4>4, <4>5
      <3> QED BY <2>2, <3>1, <3>2
    <2> QED BY <2>1, <2>2
  <1>5. Sent'
    <2>1. /\ wire' \cup known' \subseteq wire \cup known \cup {u \in {TxOf(p)} : Doing(p) = "send"}
          /\ evicted' = evicted
      BY ProgStep DEF poolVars, PoolAdd
    <2>2. Doing(p) = "send" => TxOf(p) \in Tx
      BY SendPriced DEF PricedInv
    <2> QED BY <2>1, <2>2 DEF PricedInv, Sent
  <1>6. HandedOut'
    <2>0. Progs \cup {Zero, Nil, Key, Code} \subseteq Values
      BY DEF Values
    <2>1. ASSUME NEW r, Return(p, r), r.val \in Values PROVE out'[p].val \in Values
      BY <2>1 DEF Return, Types, ProgTypes
    <2>2. out'[p] = out[p] \/ out'[p].val \in Values
      <3>1. CASE Call(p)
        <4>1. CASE Contract = NoCode
          BY <3>1, <4>1 DEF Call
        <4>2. CASE Contract # NoCode
          <5>1. Answer(Doing(p), Contract).val \in Values
            BY <3>1, <4>2, ContractType, AnswerTypes DEF Answer, Call
          <5> QED BY <3>1, <4>2, <5>1, <2>1 DEF Call, Finish
        <4> QED BY <4>1, <4>2
      <3>2. ASSUME NEW e, Return(p, Failed(Doing(p), e)), Doing(p) \in Getters
            PROVE  out'[p].val \in Values
        <4>1. [text |-> <<>>, item |-> Zero] \in [text : Seq(STRING), item : Progs \cup {Zero}]
          OBVIOUS
        <4>2. Failed(Doing(p), e).val \in Values
          BY <4>1, <3>2, AnswerTypes DEF Failed
        <4> QED BY <4>2, <3>2, <2>1
      <3>3. CASE LookForCode(p)
        BY <3>3, <3>2 DEF LookForCode, Finish, Watching
      <3>4. CASE AskNode(p)
        BY <3>4, <2>0, <2>1 DEF AskNode, Finish
      <3>5. CASE RequestFails(p)
        BY <3>5, <3>2 DEF RequestFails
      <3>6. CASE ReadNonce(p) \/ ReadPrice(p) \/ LookAtPendingCode(p) \/ Ask(p) \/ Send(p)
        BY <3>6 DEF ReadNonce, ReadPrice, LookAtPendingCode, Ask, Send
      <3> QED BY <3>1, <3>3, <3>4, <3>5, <3>6 DEF Step
    <2> QED BY <2>2, <1>0 DEF PricedInv, HandedOut
  <1> QED BY <1>0, <1>1, <1>4, <1>5, <1>6 DEF PricedInv

\* The types are an invariant: who sends has the price the node suggested.
LEMMA PricedStep ==
  ASSUME Types, NodeInv, Watching, PricedInv, [Next]_vars PROVE PricedInv'
  <1>1. ASSUME NEW p \in Progs, Step(p) \/ RequestFails(p) PROVE PricedInv'
    BY <1>1, ProgPriced
  <1>2. ASSUME UNCHANGED progVars, Sent', undone' \in 0 .. MaxUndone PROVE PricedInv'
    BY <1>2 DEF PricedInv, Priced, HandedOut, Asked, progVars
  <1>3. CASE \E t \in wire : Arrive(t)
    <2>1. wire' \subseteq wire /\ known' \subseteq known \cup wire /\ evicted' = evicted /\ undone' = undone
          /\ UNCHANGED progVars
      BY <1>3 DEF Arrive, PoolAdd, poolVars, chainVars
    <2> QED BY <1>2, <2>1 DEF PricedInv, Sent
  <1>4. CASE (\E t \in known : Mine(t)) \/ Undo \/ Pend \/ UNCHANGED vars
    <2>1. wire' = wire /\ known' = known /\ evicted' = evicted /\ UNCHANGED progVars
      BY <1>4 DEF Mine, Undo, Pend, poolVars, vars, nodeVars
    <2>2. undone' \in 0 .. MaxUndone
      BY <1>4, ConstantsOK DEF Mine, Undo, Pend, vars, nodeVars, chainVars, PricedInv
    <2> QED BY <1>2, <2>1, <2>2 DEF PricedInv, Sent
  <1>5. CASE Reset \/ \E t \in pool : Evict(t)
    <2>1. wire' = wire /\ known' = known /\ undone' = undone /\ UNCHANGED progVars
      BY <1>5 DEF Reset, Evict, chainVars
    <2>2. evicted' \subseteq evicted \cup known
      <3>1. Reinject \subseteq known
        BY DEF Reinject, NodeInv, NodeKept, Recorded
      <3> QED BY <1>5, <3>1 DEF Reset, Evict, NodeInv, NodeKept, Recorded
    <2> QED BY <1>2, <2>1, <2>2 DEF PricedInv, Sent
  <1> QED BY <1>1, <1>3, <1>4, <1>5 DEF Next

\* The values have their types: what is handed out is what the getter of the
\* request makes of a contract, what is sent bears a nonce and a price that were read.
THEOREM CallTypes == Spec => []TypeOK
  <1>1. Init => PricedInv
    <2> SUFFICES ASSUME Init PROVE PricedInv
      OBVIOUS
    <2>1. Priced
      <3>1. ASSUME NEW p \in Progs, Asked(p) PROVE FALSE
        <4>1. PICK i \in DOMAIN Plan[kind[p]] : i < 1 /\ Plan[kind[p]][i] = "price"
          BY <3>1 DEF Asked, Init
        <4>2. kind[p] \in DOMAIN Plan
          BY ConstantsOK DEF Init
        <4> QED BY <4>1, <4>2, PlaceNat
      <3> QED BY <3>1 DEF Priced, Init
    <2>2. Sent /\ HandedOut /\ undone \in 0 .. MaxUndone /\ kind \in Sessions
      BY ConstantsOK DEF Init, Sent, HandedOut, Values
    <2> QED BY <2>1, <2>2 DEF PricedInv
  <1>2. Types /\ NodeInv /\ Watching /\ PricedInv /\ [Next]_vars => PricedInv'
    BY PricedStep
  <1>3. Spec => []PricedInv
    BY <1>1, <1>2, NodeInvariant, WatchingInvariant, PTL DEF Spec
  <1>4. Types /\ NodeInv /\ PricedInv => TypeOK
    BY DEF Types, ProgTypes, NodeTypes, NodeInv, NodeKept, Recorded, PricedInv, Priced, Sent, HandedOut, Values, TypeOK
  <1> QED BY <1>3, <1>4, NodeInvariant, PTL
===============================================================================
