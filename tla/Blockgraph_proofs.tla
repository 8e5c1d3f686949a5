-------------------------- MODULE Blockgraph_proofs --------------------------
(***************************************************************************)
(* What the treatment of blocks keeps true of the lists of a node, for     *)
(* every lists and every block: the lemmas that the proofs about one node  *)
(* and about a network of nodes share.                                     *)
(***************************************************************************)
EXTENDS Blockgraph, FiniteSetTheorems, TLAPS

\* A record of Blockgraph, with any values.
IsState(s) ==
  s = [blocks |-> s.blocks, waiting |-> s.waiting, missing |-> s.missing,
       childless |-> s.childless, recover |-> s.recover, mempool |-> s.mempool,
       lastLeader |-> s.lastLeader, createBlock |-> s.createBlock]

\* The four properties, of any state s.
Known(s) == s.blocks \cup s.waiting \subseteq DOMAIN dag

Complete(s) == \A b \in s.blocks : ~ dag[b].merge => dag[b].parents \subseteq s.blocks

Requested(s) ==
  \A b \in s.waiting : dag[b].parents \subseteq s.blocks \cup s.waiting \cup MissingHashes(s)

Pursued(s) == s.childless \subseteq MissingHashes(s) \cup s.waiting

Fresh(s) == \A t \in s.mempool : ~ IsTxInBG(s.blocks, t)

Good(s) ==
  IsState(s) /\ Known(s) /\ Complete(s) /\ Requested(s) /\ Pursued(s) /\ Fresh(s)

-----------------------------------------------------------------------------
(* Adding blocks.                                                          *)

\* What AddBlocks does to each field.
LEMMA AddBlocksFields ==
  ASSUME NEW s, IsState(s), NEW added
  PROVE  LET r == AddBlocks(s, added)
         IN  /\ IsState(r)
             /\ r.blocks = s.blocks \cup added
             /\ r.waiting = s.waiting
             /\ r.missing = s.missing
             /\ r.childless = s.childless \ added
             /\ r.mempool = s.mempool \ UNION {dag[b].txns : b \in added}
<1> DEFINE txns == UNION {dag[b].txns : b \in added}
           create == s.createBlock \/ (s.childless # {} /\ s.childless \subseteq added)
           recover == {e \in s.recover : e.hash \notin added}
           r == AddBlocks(s, added)
<1>1. r = [s EXCEPT !.blocks = s.blocks \cup added, !.childless = s.childless \ added,
                    !.createBlock = create, !.recover = recover,
                    !.mempool = s.mempool \ txns]
  BY DEF AddBlocks
<1> HIDE DEF txns, create, recover, r
<1>2. /\ IsState(r) /\ r.blocks = s.blocks \cup added /\ r.waiting = s.waiting
      /\ r.missing = s.missing /\ r.childless = s.childless \ added
      /\ r.mempool = s.mempool \ txns
  BY <1>1 DEF IsState
<1> QED BY <1>2 DEF r, txns

\* Transactions of the added blocks leave the mempool.
LEMMA AddBlocksFresh ==
  ASSUME NEW s, IsState(s), Fresh(s), NEW added
  PROVE  Fresh(AddBlocks(s, added))
BY AddBlocksFields DEF Fresh, IsTxInBG

\* The waiting blocks that are ready are the least set closed under "all its
\* parents are there": each of them has its parents in the blockgraph or in it.
LEMMA ReadySupported ==
  ASSUME NEW s
  PROVE  /\ Ready(s) \subseteq s.waiting
         /\ \A b \in Ready(s) : dag[b].parents \subseteq s.blocks \cup Ready(s)
<1> DEFINE Closed(set) ==
      \A c \in s.waiting : dag[c].parents \subseteq s.blocks \cup set => c \in set
<1> DEFINE supported == {c \in Ready(s) : dag[c].parents \subseteq s.blocks \cup Ready(s)}
<1>1. Ready(s) = {b \in s.waiting : \A set \in SUBSET s.waiting : Closed(set) => b \in set}
  BY DEF Ready
<1>2. supported \in SUBSET s.waiting
  BY <1>1
<1>3. Closed(supported)
  <2> SUFFICES ASSUME NEW c \in s.waiting, dag[c].parents \subseteq s.blocks \cup supported
               PROVE  c \in supported
    OBVIOUS
  <2>1. ASSUME NEW set \in SUBSET s.waiting, Closed(set) PROVE c \in set
    <3>1. supported \subseteq set
      BY <1>1, <2>1
    <3> QED BY <2>1, <3>1
  <2>2. c \in Ready(s)
    BY <1>1, <2>1
  <2> QED BY <2>2
<1>4. Ready(s) \subseteq supported
  BY <1>1, <1>2, <1>3
<1> QED BY <1>1, <1>4

\* A cascade of waiting blocks keeps the four properties.
LEMMA UpdateWaitingListKeeps ==
  ASSUME NEW s, Good(s)
  PROVE  Good(UpdateWaitingList(s))
<1> DEFINE ready == Ready(s)
           a == AddBlocks(s, ready)
           r == UpdateWaitingList(s)
<1>1. IsState(s)
  BY DEF Good
<1>2. /\ ready \subseteq s.waiting
      /\ \A b \in ready : dag[b].parents \subseteq s.blocks \cup ready
  BY ReadySupported
<1>3. /\ IsState(a) /\ a.blocks = s.blocks \cup ready /\ a.waiting = s.waiting
      /\ a.missing = s.missing /\ a.childless = s.childless \ ready /\ Fresh(a)
  BY <1>1, AddBlocksFields, AddBlocksFresh DEF Good
<1>4. /\ IsState(r) /\ r.blocks = s.blocks \cup ready /\ r.waiting = s.waiting \ ready
      /\ r.missing = s.missing /\ r.childless = s.childless \ ready
      /\ r.mempool = a.mempool
  <2> HIDE DEF ready
  <2>1. r = [a EXCEPT !.waiting = @ \ ready]
    BY DEF UpdateWaitingList, ready
  <2> HIDE DEF a, r
  <2> QED BY <1>3, <2>1 DEF IsState
<1> HIDE DEF ready, a, r
<1>5. Fresh(r)
  BY <1>3, <1>4 DEF Fresh
<1>6. Complete(r) /\ Known(r)
  BY <1>2, <1>4 DEF Good, Complete, Known
<1>7. Requested(r) /\ Pursued(r)
  BY <1>2, <1>4 DEF Good, Requested, Pursued, MissingHashes
<1> QED BY <1>4, <1>5, <1>6, <1>7 DEF Good, r

-----------------------------------------------------------------------------
(* The outcomes of BlockTreatment.                                         *)

\* A block that is received is no longer missing; everything else is kept.
Received(s, b) == EraseMissingBlock(Treated(s, b), b)

\* What receiving a block does to each field.
LEMMA ReceivedFields ==
  ASSUME NEW s, IsState(s), NEW b
  PROVE  /\ IsState(Received(s, b))
         /\ Received(s, b).blocks = s.blocks
         /\ Received(s, b).waiting = s.waiting
         /\ Received(s, b).childless = s.childless
         /\ Received(s, b).mempool = s.mempool
         /\ MissingHashes(Received(s, b)) = MissingHashes(s) \ {b}
<1> DEFINE t == Treated(s, b)
           r == Received(s, b)
<1>1. /\ IsState(t) /\ t.blocks = s.blocks /\ t.waiting = s.waiting
      /\ t.childless = s.childless /\ t.mempool = s.mempool
      /\ t.missing = s.missing
  BY DEF Treated, IsState
<1>2. r = [t EXCEPT !.missing = {e \in t.missing : e.hash # b}]
  BY DEF Received, EraseMissingBlock
<1> HIDE DEF t, r
<1>3. /\ IsState(r) /\ r.blocks = s.blocks /\ r.waiting = s.waiting
      /\ r.childless = s.childless /\ r.mempool = s.mempool
      /\ r.missing = {e \in s.missing : e.hash # b}
  <2> DEFINE left == {e \in t.missing : e.hash # b}
  <2>1. r = [t EXCEPT !.missing = left] /\ left = {e \in s.missing : e.hash # b}
    BY <1>1, <1>2
  <2> HIDE DEF left
  <2>2. /\ IsState(r) /\ r.blocks = t.blocks /\ r.waiting = t.waiting
        /\ r.childless = t.childless /\ r.mempool = t.mempool /\ r.missing = left
    BY <1>1, <2>1 DEF IsState
  <2> QED BY <1>1, <2>1, <2>2
<1>4. MissingHashes(r) = MissingHashes(s) \ {b}
  BY <1>3 DEF MissingHashes
<1> QED BY <1>3, <1>4 DEF r

\* A block of the blockgraph changes nothing that matters.
LEMMA DumpKeeps ==
  ASSUME NEW s, Good(s), NEW b
  PROVE  Good(Dump(s, b))
<1> DEFINE r == Dump(s, b)
<1>1. /\ IsState(r) /\ r.blocks = s.blocks /\ r.waiting = s.waiting
      /\ r.missing = s.missing /\ r.childless = s.childless /\ r.mempool = s.mempool
  BY DEF Good, IsState, Dump, Treated
<1> HIDE DEF r
<1>2. Good(r)
  BY <1>1 DEF Good, Known, Complete, Requested, Pursued, Fresh, MissingHashes
<1> QED BY <1>2 DEF r

\* A block that waits already is no longer missing: it counts as waiting.
LEMMA DumpWaitingKeeps ==
  ASSUME NEW s, Good(s), NEW b \in s.waiting
  PROVE  Good(DumpWaiting(s, b))
<1> DEFINE r == Received(s, b)
<1>1. IsState(s)
  BY DEF Good
<1>2. /\ IsState(r) /\ r.blocks = s.blocks /\ r.waiting = s.waiting
      /\ r.childless = s.childless /\ r.mempool = s.mempool
      /\ MissingHashes(r) = MissingHashes(s) \ {b}
  BY <1>1, ReceivedFields
<1> HIDE DEF r
<1>3. Good(r)
  BY <1>2 DEF Good, Known, Complete, Requested, Pursued, Fresh
<1> QED BY <1>3 DEF r, DumpWaiting, Received

\* New tips are missing from the moment they are to be recovered.
LEMMA ChildlessFields ==
  ASSUME NEW s, IsState(s), NEW answers
  PROVE  LET r == ChildlessHashTreatment(s, answers)
         IN  /\ IsState(r)
             /\ r.blocks = s.blocks /\ r.waiting = s.waiting /\ r.mempool = s.mempool
             /\ \E new : /\ MissingHashes(r) = MissingHashes(s) \cup new
                         /\ r.childless = s.childless \cup new
<1> DEFINE r == ChildlessHashTreatment(s, answers)
           unknown == {e \in FirstAnswers(answers) :
                         e.hash \notin s.blocks \cup s.waiting \cup MissingHashes(s)}
           new == {e.hash : e \in unknown}
           registered == {answers[i] : i \in
                            {j \in DOMAIN answers :
                               \/ answers[j].hash \notin s.blocks \cup s.waiting
                               \/ answers[j].hash \in GetChildlessBlockList(s.blocks)}}
<1>0. r = [s EXCEPT !.missing = s.missing \cup unknown,
                    !.childless = s.childless \cup new,
                    !.recover = s.recover \cup registered]
  BY DEF ChildlessHashTreatment
<1> HIDE DEF r, unknown, registered
<1>1. /\ IsState(r) /\ r.blocks = s.blocks /\ r.waiting = s.waiting
      /\ r.mempool = s.mempool
      /\ r.missing = s.missing \cup unknown /\ r.childless = s.childless \cup new
  <2> HIDE DEF new
  <2> QED BY <1>0 DEF IsState
<1>2. MissingHashes(r) = MissingHashes(s) \cup new
  BY <1>1 DEF MissingHashes
<1> QED BY <1>1, <1>2 DEF r

\* Answers about tips keep the four properties.
LEMMA ChildlessKeeps ==
  ASSUME NEW s, Good(s), NEW answers
  PROVE  Good(ChildlessHashTreatment(s, answers))
<1> DEFINE r == ChildlessHashTreatment(s, answers)
<1>1. IsState(s)
  BY DEF Good
<1>2. /\ IsState(r)
      /\ r.blocks = s.blocks /\ r.waiting = s.waiting /\ r.mempool = s.mempool
      /\ \E new : /\ MissingHashes(r) = MissingHashes(s) \cup new
                  /\ r.childless = s.childless \cup new
  BY <1>1, ChildlessFields
<1> HIDE DEF r
<1>3. Good(r)
  BY <1>2 DEF Good, Known, Complete, Requested, Pursued, Fresh
<1> QED BY <1>3 DEF r

\* A merge block is added, with the tips it names missing if need be.
LEMMA TreatMergeBlockKeeps ==
  ASSUME NEW s, Good(s), NEW b \in DOMAIN dag, dag[b].merge
  PROVE  Good(TreatMergeBlock(s, b))
<1> DEFINE r == Received(s, b)
           c == ChildlessHashTreatment(r, dag[b].answers)
           a == AddBlocks(c, {b})
<1>1. IsState(s)
  BY DEF Good
<1>2. /\ IsState(r) /\ r.blocks = s.blocks /\ r.waiting = s.waiting
      /\ r.childless = s.childless /\ r.mempool = s.mempool
      /\ MissingHashes(r) = MissingHashes(s) \ {b}
  BY <1>1, ReceivedFields
<1> HIDE DEF r
<1>3. /\ IsState(c)
      /\ c.blocks = s.blocks /\ c.waiting = s.waiting /\ c.mempool = s.mempool
      /\ \E new : /\ MissingHashes(c) = (MissingHashes(s) \ {b}) \cup new
                  /\ c.childless = s.childless \cup new
  BY <1>2, ChildlessFields
<1> HIDE DEF c
<1>4. Fresh(a)
  <2>1. Fresh(c)
    BY <1>3 DEF Good, Fresh
  <2> QED BY <1>3, <2>1, AddBlocksFresh
<1>5. /\ IsState(a) /\ a.blocks = s.blocks \cup {b} /\ a.waiting = s.waiting
      /\ a.missing = c.missing /\ a.childless = c.childless \ {b}
  BY <1>3, AddBlocksFields
<1> HIDE DEF a
<1>6. MissingHashes(a) = MissingHashes(c)
  BY <1>5 DEF MissingHashes
<1>7. Known(a) /\ Complete(a)
  BY <1>5 DEF Good, Known, Complete
<1>8. Requested(a) /\ Pursued(a)
  BY <1>3, <1>5, <1>6 DEF Good, Requested, Pursued
<1>9. Good(a)
  BY <1>4, <1>5, <1>7, <1>8 DEF Good
<1> QED BY <1>9 DEF a, c, r, TreatMergeBlock, Received

\* A block that has to wait has its unknown parents noted as missing.
LEMMA KeepWaitingKeeps ==
  ASSUME NEW s, Good(s), NEW b \in DOMAIN dag
  PROVE  Good(KeepWaiting(s, b))
<1> DEFINE r == Received(s, b)
           lacking == FilterNodesNotInBG(s, b)
           k == KeepWaiting(s, b)
<1>1. IsState(s)
  BY DEF Good
<1>2. /\ IsState(r) /\ r.blocks = s.blocks /\ r.waiting = s.waiting
      /\ r.childless = s.childless /\ r.mempool = s.mempool
      /\ MissingHashes(r) = MissingHashes(s) \ {b}
  BY <1>1, ReceivedFields
<1>3. k = [UpdateMissingList(r, lacking, dag[b].leader) EXCEPT !.waiting = @ \cup {b}]
  BY DEF KeepWaiting, Received
<1>4. lacking = dag[b].parents \ s.blocks
  BY DEF FilterNodesNotInBG
<1> HIDE DEF r, lacking, k
<1>5. /\ IsState(k) /\ k.blocks = s.blocks /\ k.waiting = s.waiting \cup {b}
      /\ k.childless = s.childless /\ k.mempool = s.mempool
      /\ k.missing = r.missing \cup
           {[hash |-> p, node |-> dag[b].leader] : p \in lacking \ MissingHashes(r)}
  BY <1>2, <1>3 DEF IsState, UpdateMissingList
<1>6. MissingHashes(k) = MissingHashes(r) \cup lacking
  <2>1. \A e \in k.missing :
          \/ e \in r.missing
          \/ \E p \in lacking \ MissingHashes(r) : e = [hash |-> p, node |-> dag[b].leader]
    BY <1>5
  <2>2. \A p \in lacking \ MissingHashes(r) :
          [hash |-> p, node |-> dag[b].leader] \in k.missing
    BY <1>5
  <2>3. r.missing \subseteq k.missing
    BY <1>5
  <2>4. MissingHashes(k) \subseteq MissingHashes(r) \cup lacking
    BY <2>1 DEF MissingHashes
  <2>5. \A p \in lacking \ MissingHashes(r) : p \in MissingHashes(k)
    <3> TAKE p \in lacking \ MissingHashes(r)
    <3>1. [hash |-> p, node |-> dag[b].leader].hash = p
      OBVIOUS
    <3> QED BY <2>2, <3>1 DEF MissingHashes
  <2>6. MissingHashes(r) \subseteq MissingHashes(k)
    BY <2>3 DEF MissingHashes
  <2> QED BY <2>4, <2>5, <2>6
<1>7. Known(k) /\ Complete(k) /\ Fresh(k)
  BY <1>5 DEF Good, Known, Complete, Fresh
<1>8. Requested(k) /\ Pursued(k)
  BY <1>2, <1>4, <1>5, <1>6 DEF Good, Requested, Pursued
<1> QED BY <1>5, <1>7, <1>8 DEF Good, k

\* A block is added when its parents are there, and releases others.
LEMMA AddRegularBlockKeeps ==
  ASSUME NEW s, Good(s), NEW b \in DOMAIN dag, FilterNodesNotInBG(s, b) = {}
  PROVE  Good(AddRegularBlock(s, b))
<1> DEFINE r == Received(s, b)
           a == AddBlocks(r, {b})
<1>1. IsState(s)
  BY DEF Good
<1>2. /\ IsState(r) /\ r.blocks = s.blocks /\ r.waiting = s.waiting
      /\ r.childless = s.childless /\ r.mempool = s.mempool
      /\ MissingHashes(r) = MissingHashes(s) \ {b}
  BY <1>1, ReceivedFields
<1> HIDE DEF r
<1>3. Fresh(a)
  <2>1. Fresh(r)
    BY <1>2 DEF Good, Fresh
  <2> QED BY <1>2, <2>1, AddBlocksFresh
<1>4. /\ IsState(a) /\ a.blocks = s.blocks \cup {b} /\ a.waiting = s.waiting
      /\ a.missing = r.missing /\ a.childless = s.childless \ {b}
  BY <1>2, AddBlocksFields
<1> HIDE DEF a
<1>5. MissingHashes(a) = MissingHashes(s) \ {b}
  BY <1>2, <1>4 DEF MissingHashes
<1>6. dag[b].parents \subseteq s.blocks
  BY DEF FilterNodesNotInBG
<1>7. Known(a) /\ Complete(a)
  BY <1>4, <1>6 DEF Good, Known, Complete
<1>8. Requested(a) /\ Pursued(a)
  BY <1>4, <1>5 DEF Good, Requested, Pursued
<1>9. Good(a)
  BY <1>3, <1>4, <1>7, <1>8 DEF Good
<1> QED BY <1>9, UpdateWaitingListKeeps DEF AddRegularBlock, a, r, Received

\* Whatever the outcome, treating a block keeps the four properties.
LEMMA BlockTreatmentKeeps ==
  ASSUME NEW s, Good(s), NEW b \in DOMAIN dag
  PROVE  Good(BlockTreatment(s, b))
<1>1. CASE b \in s.blocks
  BY <1>1, DumpKeeps DEF BlockTreatment
<1>2. CASE b \notin s.blocks /\ b \in s.waiting
  BY <1>2, DumpWaitingKeeps DEF BlockTreatment
<1>3. CASE b \notin s.blocks /\ b \notin s.waiting /\ dag[b].merge
  BY <1>3, TreatMergeBlockKeeps DEF BlockTreatment
<1>4. CASE /\ b \notin s.blocks /\ b \notin s.waiting /\ ~ dag[b].merge
           /\ FilterNodesNotInBG(s, b) # {}
  BY <1>4, KeepWaitingKeeps DEF BlockTreatment
<1>5. CASE /\ b \notin s.blocks /\ b \notin s.waiting /\ ~ dag[b].merge
           /\ FilterNodesNotInBG(s, b) = {}
  BY <1>5, AddRegularBlockKeeps DEF BlockTreatment
<1> QED BY <1>1, <1>2, <1>3, <1>4, <1>5

\* createBlock is a field of its own.
LEMMA CreateBlockFields ==
  ASSUME NEW l, IsState(l), NEW c
  PROVE  LET s == [l EXCEPT !.createBlock = c]
         IN  /\ IsState(s) /\ s.blocks = l.blocks /\ s.waiting = l.waiting
             /\ s.missing = l.missing /\ s.childless = l.childless
             /\ s.recover = l.recover /\ s.mempool = l.mempool
BY DEF IsState

\* createBlock matters to none of the properties.
LEMMA CreateBlockFree ==
  ASSUME NEW s, Good(s), NEW c
  PROVE  Good([s EXCEPT !.createBlock = c])
<1> DEFINE r == [s EXCEPT !.createBlock = c]
<1>1. /\ IsState(r) /\ r.blocks = s.blocks /\ r.waiting = s.waiting
      /\ r.missing = s.missing /\ r.childless = s.childless /\ r.mempool = s.mempool
  BY DEF Good, IsState
<1> HIDE DEF r
<1>2. Good(r)
  BY <1>1 DEF Good, Known, Complete, Requested, Pursued, Fresh, MissingHashes
<1> QED BY <1>2 DEF r

-----------------------------------------------------------------------------
(* Blockgraphs that grow, and blocks that are made.                         *)

\* Receiving a block takes nothing out of the blockgraph.
LEMMA BlockTreatmentGrows ==
  ASSUME NEW s, IsState(s), NEW b
  PROVE  s.blocks \subseteq BlockTreatment(s, b).blocks
<1>1. IsState(Received(s, b)) /\ Received(s, b).blocks = s.blocks
  BY ReceivedFields
<1>2. Dump(s, b).blocks = s.blocks
  BY DEF IsState, Dump, Treated
<1>3. DumpWaiting(s, b).blocks = s.blocks
  BY <1>1 DEF DumpWaiting, Received
<1>4. s.blocks \subseteq TreatMergeBlock(s, b).blocks
  BY <1>1, ChildlessFields, AddBlocksFields DEF TreatMergeBlock, Received
<1>5. KeepWaiting(s, b).blocks = s.blocks
  <2> DEFINE r == Received(s, b)
             lacking == FilterNodesNotInBG(s, b)
  <2>1. KeepWaiting(s, b)
          = [UpdateMissingList(r, lacking, dag[b].leader) EXCEPT !.waiting = @ \cup {b}]
    BY DEF KeepWaiting, Received
  <2>2. IsState(r) /\ r.blocks = s.blocks
    BY <1>1
  <2> HIDE DEF r, lacking
  <2> QED BY <2>1, <2>2 DEF IsState, UpdateMissingList
<1>6. s.blocks \subseteq AddRegularBlock(s, b).blocks
  <2> DEFINE a == AddBlocks(Received(s, b), {b})
  <2>1. IsState(a) /\ a.blocks = s.blocks \cup {b}
    BY <1>1, AddBlocksFields
  <2> HIDE DEF a
  <2>2. IsState(AddBlocks(a, Ready(a)))
        /\ AddBlocks(a, Ready(a)).blocks = a.blocks \cup Ready(a)
    BY <2>1, AddBlocksFields
  <2>3. UpdateWaitingList(a).blocks = a.blocks \cup Ready(a)
    BY <2>2 DEF UpdateWaitingList, IsState
  <2> QED BY <2>1, <2>3 DEF AddRegularBlock, a, Received
<1> QED BY <1>2, <1>3, <1>4, <1>5, <1>6 DEF BlockTreatment

\* The hash of a new block is not that of another.
LEMMA NewBlockFields ==
  ASSUME NEW b, NewBlock(b)
  PROVE  \E h : /\ h \notin DOMAIN dag
                /\ DOMAIN dag' = DOMAIN dag \cup {h}
                /\ \A x \in DOMAIN dag : dag'[x] = dag[x]
                /\ dag'[h] = b
<1> DEFINE h == CHOOSE x \in Hash : x \notin DOMAIN dag
<1>1. h \in Hash /\ h \notin DOMAIN dag
  BY DEF NewBlock
<1>2. dag' = [x \in DOMAIN dag \cup {h} |-> IF x = h THEN b ELSE dag[x]]
  BY DEF NewBlock
<1> HIDE DEF h
<1> QED BY <1>1, <1>2

-----------------------------------------------------------------------------
(* What a node looks for is what others named to it.                       *)

\* Everything that is looked for is one of the hashes H, to be asked of a node in N.
Seeks(s, H, N) ==
  /\ s.missing \subseteq [hash : H, node : N]
  /\ s.recover \subseteq [hash : H, node : N]
  /\ s.childless \subseteq H

\* A list of answers that names hashes of H and nodes of N only.
Names(answers, H, N) == \A i \in DOMAIN answers : answers[i] \in [hash : H, node : N]

\* Names of some blocks are names of more.
LEMMA SeeksMore ==
  ASSUME NEW s, NEW H, NEW G, H \subseteq G, NEW N, Seeks(s, H, N)
  PROVE  Seeks(s, G, N)
<1>1. [hash : H, node : N] \subseteq [hash : G, node : N]
  OBVIOUS
<1> QED BY <1>1 DEF Seeks

LEMMA NamesMore ==
  ASSUME NEW answers, NEW H, NEW G, H \subseteq G, NEW N, Names(answers, H, N)
  PROVE  Names(answers, G, N)
BY DEF Names

\* Adding blocks ends searches and starts none.
LEMMA AddBlocksSeeks ==
  ASSUME NEW s, IsState(s), NEW H, NEW N, Seeks(s, H, N), NEW added
  PROVE  Seeks(AddBlocks(s, added), H, N)
<1> DEFINE txns == UNION {dag[b].txns : b \in added}
           create == s.createBlock \/ (s.childless # {} /\ s.childless \subseteq added)
           recover == {e \in s.recover : e.hash \notin added}
           r == AddBlocks(s, added)
<1>1. r = [s EXCEPT !.blocks = s.blocks \cup added, !.childless = s.childless \ added,
                    !.createBlock = create, !.recover = recover,
                    !.mempool = s.mempool \ txns]
  BY DEF AddBlocks
<1>2. recover \subseteq s.recover
  OBVIOUS
<1> HIDE DEF txns, create, recover, r
<1>3. r.missing = s.missing /\ r.childless = s.childless \ added /\ r.recover = recover
  BY <1>1 DEF IsState
<1>4. Seeks(r, H, N)
  BY <1>2, <1>3 DEF Seeks
<1> QED BY <1>4 DEF r

\* So does a cascade of waiting blocks.
LEMMA UpdateWaitingListSeeks ==
  ASSUME NEW s, IsState(s), NEW H, NEW N, Seeks(s, H, N)
  PROVE  Seeks(UpdateWaitingList(s), H, N)
<1> DEFINE ready == Ready(s)
           a == AddBlocks(s, ready)
           r == UpdateWaitingList(s)
<1>1. IsState(a) /\ Seeks(a, H, N)
  BY AddBlocksFields, AddBlocksSeeks
<1>2. r = [a EXCEPT !.waiting = @ \ ready]
  BY DEF UpdateWaitingList
<1> HIDE DEF ready, a, r
<1>3. r.missing = a.missing /\ r.recover = a.recover /\ r.childless = a.childless
  BY <1>1, <1>2 DEF IsState
<1>4. Seeks(r, H, N)
  BY <1>1, <1>3 DEF Seeks
<1> QED BY <1>4 DEF r

\* And receiving a block.
LEMMA ReceivedSeeks ==
  ASSUME NEW s, IsState(s), NEW H, NEW N, Seeks(s, H, N), NEW b
  PROVE  Seeks(Received(s, b), H, N)
<1> DEFINE t == Treated(s, b)
           left == {e \in t.missing : e.hash # b}
           r == Received(s, b)
<1>1. /\ IsState(t) /\ t.missing = s.missing /\ t.recover = s.recover
      /\ t.childless = s.childless
  BY DEF Treated, IsState
<1>2. r = [t EXCEPT !.missing = left] /\ left \subseteq s.missing
  BY <1>1 DEF Received, EraseMissingBlock
<1> HIDE DEF t, left, r
<1>3. r.missing = left /\ r.recover = s.recover /\ r.childless = s.childless
  BY <1>1, <1>2 DEF IsState
<1>4. Seeks(r, H, N)
  BY <1>2, <1>3 DEF Seeks
<1> QED BY <1>4 DEF r

\* Answers start searches for what they name.
LEMMA ChildlessSeeks ==
  ASSUME NEW s, IsState(s), NEW H, NEW N, Seeks(s, H, N),
         NEW answers, Names(answers, H, N)
  PROVE  Seeks(ChildlessHashTreatment(s, answers), H, N)
<1> DEFINE r == ChildlessHashTreatment(s, answers)
           unknown == {e \in FirstAnswers(answers) :
                         e.hash \notin s.blocks \cup s.waiting \cup MissingHashes(s)}
           new == {e.hash : e \in unknown}
           registered == {answers[i] : i \in
                            {j \in DOMAIN answers :
                               \/ answers[j].hash \notin s.blocks \cup s.waiting
                               \/ answers[j].hash \in GetChildlessBlockList(s.blocks)}}
<1>1. r = [s EXCEPT !.missing = s.missing \cup unknown,
                    !.childless = s.childless \cup new,
                    !.recover = s.recover \cup registered]
  BY DEF ChildlessHashTreatment
<1>2. FirstAnswers(answers) \subseteq [hash : H, node : N]
  BY DEF FirstAnswers, Names
<1>3. unknown \subseteq [hash : H, node : N]
  BY <1>2
<1>4. registered \subseteq [hash : H, node : N]
  BY DEF Names
<1>5. new \subseteq H
  BY <1>3
<1> HIDE DEF r, unknown, registered, new
<1>6. /\ r.missing = s.missing \cup unknown /\ r.childless = s.childless \cup new
      /\ r.recover = s.recover \cup registered
  BY <1>1 DEF IsState
<1>7. Seeks(r, H, N)
  BY <1>3, <1>4, <1>5, <1>6 DEF Seeks
<1> QED BY <1>7 DEF r

\* A block that has to wait starts a search for its parents.
LEMMA KeepWaitingSeeks ==
  ASSUME NEW s, IsState(s), NEW H, NEW N, Seeks(s, H, N), NEW b,
         dag[b].leader \in N, dag[b].parents \subseteq H
  PROVE  Seeks(KeepWaiting(s, b), H, N)
<1> DEFINE r == Received(s, b)
           lacking == FilterNodesNotInBG(s, b)
           new == {[hash |-> p, node |-> dag[b].leader] : p \in lacking \ MissingHashes(r)}
           k == KeepWaiting(s, b)
<1>1. IsState(r) /\ Seeks(r, H, N)
  BY ReceivedFields, ReceivedSeeks
<1>2. k = [UpdateMissingList(r, lacking, dag[b].leader) EXCEPT !.waiting = @ \cup {b}]
  BY DEF KeepWaiting, Received
<1>3. lacking \subseteq H
  BY DEF FilterNodesNotInBG
<1> HIDE DEF r, lacking
<1>4. new \subseteq [hash : H, node : N]
  BY <1>3
<1>5. UpdateMissingList(r, lacking, dag[b].leader) = [r EXCEPT !.missing = @ \cup new]
  BY DEF UpdateMissingList
<1> HIDE DEF new, k
<1>6. /\ k.missing = r.missing \cup new /\ k.recover = r.recover
      /\ k.childless = r.childless
  BY <1>1, <1>2, <1>5 DEF IsState
<1>7. Seeks(k, H, N)
  BY <1>1, <1>4, <1>6 DEF Seeks
<1> QED BY <1>7 DEF k

\* Whatever the outcome, treating a block starts searches for its parents and for
\* the tips it names only.
LEMMA BlockTreatmentSeeks ==
  ASSUME NEW s, IsState(s), NEW H, NEW N, Seeks(s, H, N), NEW b,
         dag[b].leader \in N, dag[b].parents \subseteq H, Names(dag[b].answers, H, N)
  PROVE  Seeks(BlockTreatment(s, b), H, N)
<1>1. IsState(Received(s, b)) /\ Seeks(Received(s, b), H, N)
  BY ReceivedFields, ReceivedSeeks
<1>2. Seeks(Dump(s, b), H, N)
  BY DEF IsState, Dump, Treated, Seeks
<1>3. Seeks(DumpWaiting(s, b), H, N)
  BY <1>1 DEF DumpWaiting, Received
<1>4. Seeks(TreatMergeBlock(s, b), H, N)
  BY <1>1, ChildlessFields, ChildlessSeeks, AddBlocksSeeks DEF TreatMergeBlock, Received
<1>5. Seeks(KeepWaiting(s, b), H, N)
  BY KeepWaitingSeeks
<1>6. Seeks(AddRegularBlock(s, b), H, N)
  BY <1>1, AddBlocksFields, AddBlocksSeeks, UpdateWaitingListSeeks
  DEF AddRegularBlock, Received
<1> QED BY <1>2, <1>3, <1>4, <1>5, <1>6 DEF BlockTreatment

-----------------------------------------------------------------------------
(* Types of the fields that the properties above do not look at.           *)

\* Transactions of T only, and a leader of N or none.
Typed(s, N, T) ==
  s.mempool \subseteq T /\ s.lastLeader \in N \cup {-1} /\ s.createBlock \in BOOLEAN

LEMMA AddBlocksTyped ==
  ASSUME NEW s, IsState(s), NEW N, NEW T, Typed(s, N, T), NEW added
  PROVE  Typed(AddBlocks(s, added), N, T)
<1> DEFINE txns == UNION {dag[b].txns : b \in added}
           create == s.createBlock \/ (s.childless # {} /\ s.childless \subseteq added)
           recover == {e \in s.recover : e.hash \notin added}
           r == AddBlocks(s, added)
<1>1. r = [s EXCEPT !.blocks = s.blocks \cup added, !.childless = s.childless \ added,
                    !.createBlock = create, !.recover = recover,
                    !.mempool = s.mempool \ txns]
  BY DEF AddBlocks
<1>2. create \in BOOLEAN
  OBVIOUS
<1> HIDE DEF txns, create, recover, r
<1>3. /\ r.mempool = s.mempool \ txns /\ r.createBlock = create
      /\ r.lastLeader = s.lastLeader
  BY <1>1 DEF IsState
<1>4. Typed(r, N, T)
  BY <1>2, <1>3 DEF Typed
<1> QED BY <1>4 DEF r

\* A record with the same values in these fields.
LEMMA SameTyped ==
  ASSUME NEW s, NEW N, NEW T, Typed(s, N, T), NEW r,
         r.mempool = s.mempool, r.lastLeader = s.lastLeader, r.createBlock = s.createBlock
  PROVE  Typed(r, N, T)
BY DEF Typed

LEMMA UpdateWaitingListTyped ==
  ASSUME NEW s, IsState(s), NEW N, NEW T, Typed(s, N, T)
  PROVE  Typed(UpdateWaitingList(s), N, T)
<1> DEFINE ready == Ready(s)
           a == AddBlocks(s, ready)
<1>1. IsState(a) /\ Typed(a, N, T)
  BY AddBlocksFields, AddBlocksTyped
<1>2. UpdateWaitingList(s) = [a EXCEPT !.waiting = a.waiting \ ready]
  BY DEF UpdateWaitingList
<1> DEFINE r == UpdateWaitingList(s)
<1> HIDE DEF a, ready, r
<1>3. /\ r.mempool = a.mempool /\ r.lastLeader = a.lastLeader
      /\ r.createBlock = a.createBlock
  BY <1>1, <1>2 DEF r, IsState
<1> QED BY <1>1, <1>3, SameTyped DEF r

\* The leader of the block is noted.
LEMMA TreatedTyped ==
  ASSUME NEW s, IsState(s), NEW N, NEW T, Typed(s, N, T), NEW b, dag[b].leader \in N
  PROVE  /\ IsState(Treated(s, b)) /\ Typed(Treated(s, b), N, T)
         /\ IsState(Received(s, b)) /\ Typed(Received(s, b), N, T)
<1> DEFINE t == Treated(s, b)
           left == {e \in t.missing : e.hash # b}
<1>1. /\ IsState(t) /\ t.mempool = s.mempool /\ t.lastLeader = dag[b].leader
      /\ t.createBlock = s.createBlock
  BY DEF Treated, IsState
<1> DEFINE r == Received(s, b)
<1>2. r = [t EXCEPT !.missing = left]
  BY DEF Received, EraseMissingBlock
<1> HIDE DEF t, left, r
<1>3. Typed(t, N, T)
  BY <1>1 DEF Typed
<1>4. /\ r.mempool = t.mempool /\ r.lastLeader = t.lastLeader
      /\ r.createBlock = t.createBlock
  BY <1>1, <1>2 DEF IsState
<1>5. Typed(r, N, T)
  BY <1>3, <1>4, SameTyped, SMTT(30)
<1> QED BY <1>1, <1>3, <1>5, ReceivedFields DEF t, r

LEMMA ChildlessTyped ==
  ASSUME NEW s, IsState(s), NEW N, NEW T, Typed(s, N, T), NEW answers
  PROVE  Typed(ChildlessHashTreatment(s, answers), N, T)
<1> DEFINE r == ChildlessHashTreatment(s, answers)
<1>1. \E missing, childless, recover :
        r = [s EXCEPT !.missing = missing, !.childless = childless, !.recover = recover]
  BY DEF ChildlessHashTreatment
<1> HIDE DEF r
<1>2. /\ r.mempool = s.mempool /\ r.lastLeader = s.lastLeader
      /\ r.createBlock = s.createBlock
  BY <1>1 DEF IsState
<1>3. Typed(r, N, T)
  BY <1>2 DEF Typed
<1> QED BY <1>3 DEF r

LEMMA KeepWaitingTyped ==
  ASSUME NEW s, IsState(s), NEW N, NEW T, Typed(s, N, T), NEW b, dag[b].leader \in N
  PROVE  Typed(KeepWaiting(s, b), N, T)
<1> DEFINE r == Received(s, b)
           m == UpdateMissingList(r, FilterNodesNotInBG(s, b), dag[b].leader)
           set == r.missing \cup {[hash |-> p, node |-> dag[b].leader] :
                                    p \in FilterNodesNotInBG(s, b) \ MissingHashes(r)}
<1>1. IsState(r) /\ Typed(r, N, T)
  BY TreatedTyped
<1>2. m = [r EXCEPT !.missing = set]
  BY DEF UpdateMissingList
<1>3. KeepWaiting(s, b) = [m EXCEPT !.waiting = m.waiting \cup {b}]
  BY DEF KeepWaiting, Received
<1> DEFINE k == KeepWaiting(s, b)
<1> HIDE DEF r, m, set, k
<1>4. /\ IsState(m) /\ m.mempool = r.mempool /\ m.lastLeader = r.lastLeader
      /\ m.createBlock = r.createBlock
  BY <1>1, <1>2 DEF IsState
<1>5. /\ k.mempool = m.mempool /\ k.lastLeader = m.lastLeader
      /\ k.createBlock = m.createBlock
  BY <1>3, <1>4 DEF k, IsState
<1> QED BY <1>1, <1>4, <1>5, SameTyped DEF k

LEMMA BlockTreatmentTyped ==
  ASSUME NEW s, IsState(s), NEW N, NEW T, Typed(s, N, T), NEW b, dag[b].leader \in N
  PROVE  Typed(BlockTreatment(s, b), N, T)
<1> USE TreatedTyped
<1>1. Typed(Dump(s, b), N, T) /\ Typed(DumpWaiting(s, b), N, T)
  BY DEF Dump, DumpWaiting, Received
<1>2. Typed(TreatMergeBlock(s, b), N, T)
  BY ChildlessFields, ChildlessTyped, AddBlocksTyped DEF TreatMergeBlock, Received
<1>3. Typed(KeepWaiting(s, b), N, T)
  BY KeepWaitingTyped
<1>4. Typed(AddRegularBlock(s, b), N, T)
  BY AddBlocksFields, AddBlocksTyped, UpdateWaitingListTyped DEF AddRegularBlock, Received
<1> QED BY <1>1, <1>2, <1>3, <1>4 DEF BlockTreatment

-----------------------------------------------------------------------------
(* The answers in a merge block.                                           *)

\* The list of a finite set has the elements of the set only.
LEMMA SetToSeqRange ==
  ASSUME NEW S, IsFiniteSet(S)
  PROVE  SetToSeq(S) \in [1 .. Cardinality(S) -> S] /\ Cardinality(S) \in Nat
<1>1. Cardinality(S) \in Nat /\ ExistsBijection(1 .. Cardinality(S), S)
  BY FS_CardinalityType
<1>2. PICK f \in [1 .. Cardinality(S) -> S] : IsInjective(f)
  BY <1>1 DEF ExistsBijection, Bijection, Injection
<1> QED BY <1>1, <1>2 DEF SetToSeq

\* A set of answers that names finitely many hashes and nodes is finite.
LEMMA AnswersFinite ==
  ASSUME NEW H, IsFiniteSet(H), NEW N, IsFiniteSet(N),
         NEW S, S \subseteq [hash : H, node : N]
  PROVE  IsFiniteSet(S)
<1> DEFINE f == [e \in S |-> <<e.hash, e.node>>]
<1>1. \A e \in S : e.hash \in H /\ e.node \in N /\ e = [hash |-> e.hash, node |-> e.node]
  OBVIOUS
<1>2. f \in [S -> H \X N]
  BY <1>1
<1>3. \A d, e \in S : f[d] = f[e] => d = e
  BY <1>1
<1>4. f \in Injection(S, H \X N)
  BY <1>2, <1>3 DEF Injection, IsInjective
<1>5. IsFiniteSet(H \X N)
  BY FS_Product
<1> QED BY <1>4, <1>5, FS_Injection

\* A merge block names tips of the node that makes it, or what that node looks for.
LEMMA MergeAnswersNames ==
  ASSUME NEW s, NEW H, IsFiniteSet(H), NEW N, IsFiniteSet(N), Seeks(s, H, N),
         s.blocks \subseteq H, NEW oldNodes, oldNodes \subseteq N
  PROVE  /\ MergeAnswers(s, oldNodes) \in Seq([hash : H, node : N])
         /\ Names(MergeAnswers(s, oldNodes), H, N)
<1> DEFINE P == [hash : H, node : N]
           own == {[hash |-> h, node |-> n] : h \in GetChildlessBlockList(s.blocks),
                                              n \in oldNodes}
<1>1. own \subseteq P
  BY DEF GetChildlessBlockList
<1> HIDE DEF own
<1>2. IsFiniteSet(own) /\ IsFiniteSet(s.recover)
  BY <1>1, AnswersFinite DEF Seeks
<1> DEFINE f == SetToSeq(own)
           g == SetToSeq(s.recover)
<1>3. MergeAnswers(s, oldNodes) = f \o g
  BY DEF MergeAnswers, own
<1>4. f \in [1 .. Cardinality(own) -> own] /\ Cardinality(own) \in Nat
  BY <1>2, SetToSeqRange
<1>5. g \in [1 .. Cardinality(s.recover) -> s.recover] /\ Cardinality(s.recover) \in Nat
  BY <1>2, SetToSeqRange
<1>6. s.recover \subseteq P
  BY DEF Seeks
<1> HIDE DEF f, g, P
<1>7. f \in Seq(P)
  BY <1>1, <1>4
<1>8. g \in Seq(P)
  BY <1>5, <1>6
<1>9. f \o g \in Seq(P)
  BY <1>7, <1>8
<1>10. \A i \in DOMAIN (f \o g) : (f \o g)[i] \in P
  BY <1>9
<1> QED BY <1>3, <1>9, <1>10 DEF Names, P
=============================================================================
