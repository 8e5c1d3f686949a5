------------------------ MODULE B4MeshNetwork_proofs ------------------------
(***************************************************************************)
(* For every number of nodes, every initial network and any number of lost *)
(* packets and dropped blocks: no node looks for a block that nobody has,  *)
(* and each missing branch that a node is known to have is asked for.      *)
(* With fewer faults than nodes that are told of a transaction, it is      *)
(* kept.                                                                   *)
(*                                                                         *)
(* The first needs more than itself.  A hash comes to the missing list     *)
(* from the parents of a block, the answers in a merge block or a packet,  *)
(* so all three have to name blocks that are held; and the leader that     *)
(* makes a merge block writes into it what it still looks for.  The last   *)
(* counts the nodes that have a transaction or will: one fault takes it    *)
(* from one of them, and nothing else takes it from any.                   *)
(***************************************************************************)
EXTENDS B4MeshNetwork, Blockgraph_proofs

-----------------------------------------------------------------------------
(* The invariant.                                                          *)

\* A block whose parents, and the tips it names, are held by some node.
Founded(b) ==
  /\ b.leader \in Node
  /\ b.parents \subseteq Held
  /\ Names(b.answers, Held, Node)

\* An answer about tips comes from a node and names blocks that are held.
Truthful(p) ==
  p.type = "CHILDLESSBLOCK_REP" => p.from \in Node /\ p.hashes \subseteq Held

NodesGood ==
  /\ DOMAIN st = Node
  /\ \A n \in Node : Good(st[n]) /\ Seeks(st[n], Held, Node)

DagFounded == DOMAIN dag \subseteq Hash /\ \A h \in DOMAIN dag : Founded(dag[h])

PacketsTruthful == \A p \in packets : Truthful(p)

GroupsOK ==
  /\ group \in [Node -> SUBSET Node] /\ previous_group \in [Node -> SUBSET Node]
  /\ notified \in [Node -> SUBSET Node]

Inv == NodesGood /\ DagFounded /\ PacketsTruthful /\ GroupsOK

\* An initial network has complete histories and searches for nothing.
LEMMA InitHolds == Init => Inv
<1> SUFFICES ASSUME Init PROVE Inv
  OBVIOUS
<1>1. PICK i \in InitialNetworks :
        /\ dag = i.dag
        /\ st = [n \in Node |-> Lists(i.blocks[n])]
        /\ group = i.group
        /\ previous_group = [n \in Node |-> NoGroup]
        /\ notified = i.notified
        /\ packets = {}
  BY DEF Init
<1>2. /\ i \in NetworkType(i.dag)
      /\ DOMAIN i.dag \subseteq Hash
      /\ \A h \in DOMAIN i.dag :
           /\ i.dag[h] \in BlockType
           /\ i.dag[h].answers = <<>>
           /\ \A p \in i.dag[h].parents : \E n \in Node : p \in i.blocks[n]
      /\ \A n \in Node :
           \A b \in i.blocks[n] : i.dag[b].parents \subseteq i.blocks[n]
  BY NetworkConstants
<1>3. /\ i.blocks \in [Node -> SUBSET DOMAIN dag]
      /\ i.group \in [Node -> SUBSET Node] /\ i.notified \in [Node -> SUBSET Node]
  BY <1>1, <1>2 DEF NetworkType
<1>4. GroupsOK /\ PacketsTruthful
  BY <1>1, <1>3 DEF GroupsOK, PacketsTruthful, NoGroup
<1>5. \A n \in Node : /\ IsState(st[n]) /\ st[n].blocks = i.blocks[n]
                      /\ st[n].waiting = {} /\ st[n].missing = {}
                      /\ st[n].childless = {} /\ st[n].recover = {}
                      /\ st[n].mempool = {}
  BY <1>1 DEF Lists, IsState
<1>6. \A n \in Node : Good(st[n])
  BY <1>1, <1>2, <1>3, <1>5, ZenonT(60)
  DEF Good, Known, Complete, Requested, Pursued, Fresh
<1>7. \A n \in Node : Seeks(st[n], Held, Node)
  BY <1>5 DEF Seeks
<1>8. \A h \in DOMAIN dag : Founded(dag[h])
  <2> TAKE h \in DOMAIN dag
  <2>1. dag[h].leader \in Node /\ dag[h].answers = <<>>
    BY <1>1, <1>2 DEF BlockType
  <2>2. dag[h].parents \subseteq Held
    BY <1>1, <1>2, <1>5 DEF Held
  <2> QED BY <2>1, <2>2 DEF Founded, Names
<1> QED BY <1>1, <1>2, <1>4, <1>6, <1>7, <1>8 DEF Inv, NodesGood, DagFounded

-----------------------------------------------------------------------------
(* The kinds of steps that keep the invariant.                             *)

\* The lists of at most one node change: what it has stays, and what it looks for
\* was held before the step.
NodeStep ==
  \/ st' = st
  \/ \E n \in Node : \E s :
       /\ st' = [st EXCEPT ![n] = s]
       /\ Good(s) /\ Seeks(s, Held, Node)
       /\ st[n].blocks \subseteq s.blocks

\* At most one block is made.
DagStep == dag' = dag \/ \E b : NewBlock(b) /\ Founded(b)

PacketStep == \A p \in packets' : p \in packets \/ Truthful(p)

Step == NodeStep /\ DagStep /\ PacketStep /\ GroupsOK'

\* The contents of the blocks that are there do not change.
DagGrows ==
  /\ DOMAIN dag \subseteq DOMAIN dag'
  /\ \A x \in DOMAIN dag : dag'[x] = dag[x]

\* Lists that are good stay so when blocks are made.
LEMMA GoodLasts ==
  ASSUME NEW n, NEW s, Good(s), DagGrows, st'[n] = s
  PROVE  Good(st[n])'
<1>1. \A x \in s.blocks \cup s.waiting : x \in DOMAIN dag' /\ dag'[x] = dag[x]
  BY DEF Good, Known, DagGrows
<1>2. IsState(st[n])' /\ Known(st[n])' /\ Complete(st[n])'
  BY <1>1 DEF Good, IsState, Known, Complete
<1>3. Requested(st[n])' /\ Pursued(st[n])'
  BY <1>1 DEF Good, Requested, Pursued, MissingHashes
<1>4. Fresh(st[n])'
  BY <1>1 DEF Good, Fresh, IsTxInBG
<1> QED BY <1>2, <1>3, <1>4 DEF Good

\* The steps of these kinds keep the invariant.
LEMMA StepKeeps == Inv /\ Step => Inv'
<1> SUFFICES ASSUME Inv, Step PROVE Inv'
  OBVIOUS
<1>1. DagGrows
  BY NewBlockFields DEF Step, DagStep, DagGrows
<1>2. Held \subseteq Held'
  <2>1. \A m \in Node : st[m].blocks \subseteq st'[m].blocks
    BY DEF Inv, NodesGood, Step, NodeStep
  <2> QED BY <2>1 DEF Held
<1>3. NodesGood'
  <2>1. DOMAIN st' = Node
    BY DEF Inv, NodesGood, Step, NodeStep
  <2>2. ASSUME NEW m \in Node PROVE Good(st[m])' /\ Seeks(st[m], Held, Node)'
    <3>1. PICK s : st'[m] = s /\ Good(s) /\ Seeks(s, Held, Node)
      BY DEF Inv, NodesGood, Step, NodeStep
    <3>2. Good(st[m])'
      BY <1>1, <3>1, GoodLasts
    <3>3. Seeks(s, Held', Node)
      BY <1>2, <3>1, SeeksMore
    <3> QED BY <3>1, <3>2, <3>3 DEF Seeks
  <2> QED BY <2>1, <2>2 DEF NodesGood
<1>4. DagFounded'
  <2>1. \A b : Founded(b) => /\ b.leader \in Node /\ b.parents \subseteq Held'
                             /\ Names(b.answers, Held', Node)
    BY <1>2, NamesMore DEF Founded
  <2>2. DOMAIN dag' \subseteq Hash
    BY DEF Inv, DagFounded, Step, DagStep, NewBlock
  <2>3. \A h \in DOMAIN dag' : Founded(dag'[h])
    <3>1. CASE dag' = dag
      BY <3>1 DEF Inv, DagFounded
    <3>2. CASE \E b : NewBlock(b) /\ Founded(b)
      BY <3>2, NewBlockFields DEF Inv, DagFounded
    <3> QED BY <3>1, <3>2 DEF Step, DagStep
  <2> QED BY <2>1, <2>2, <2>3 DEF DagFounded, Founded, Names
<1>5. PacketsTruthful'
  BY <1>2 DEF Inv, PacketsTruthful, Step, PacketStep, Truthful
<1> QED BY <1>3, <1>4, <1>5 DEF Inv, Step

-----------------------------------------------------------------------------
(* The actions are steps of these kinds.                                   *)

\* What a node has is held, and what is held are finitely many blocks.
LEMMA HeldFacts ==
  ASSUME Inv
  PROVE  /\ \A n \in Node : st[n].blocks \subseteq Held
         /\ Held \subseteq DOMAIN dag
         /\ IsFiniteSet(Held)
<1>1. \A n \in Node : st[n].blocks \subseteq Held
  BY DEF Held
<1>2. Held \subseteq DOMAIN dag
  BY DEF Inv, NodesGood, Good, Known, Held
<1>3. Held \subseteq Hash
  BY <1>2 DEF Inv, DagFounded
<1> QED BY <1>1, <1>2, <1>3, NetworkConstants, FS_Subset

\* Packets without answers about tips are truthful, lost or not.
LEMMA TransmitStep ==
  ASSUME NEW rest, rest \subseteq packets, NEW sent,
         \A p \in sent : Truthful(p), Transmit(rest, sent)
  PROVE  PacketStep
BY DEF Transmit, PacketStep

\* A change of fields that no search and no history depends on.
LEMMA SameLists ==
  ASSUME Inv, NEW n \in Node, NEW s, IsState(s), st' = [st EXCEPT ![n] = s],
         s.blocks = st[n].blocks, s.waiting = st[n].waiting,
         s.missing = st[n].missing, s.childless = st[n].childless,
         s.recover \subseteq st[n].recover, s.mempool \subseteq st[n].mempool
  PROVE  NodeStep
<1>1. Good(st[n]) /\ Seeks(st[n], Held, Node)
  BY DEF Inv, NodesGood
<1>2. Good(s)
  BY <1>1 DEF Good, Known, Complete, Requested, Pursued, Fresh, MissingHashes
<1>3. Seeks(s, Held, Node)
  BY <1>1 DEF Seeks
<1> QED BY <1>2, <1>3 DEF NodeStep

\* A transaction that is new to a node goes to its mempool.
LEMMA TransactionStep ==
  ASSUME Inv, NEW n \in Node, NEW t,
         st' = [st EXCEPT ![n] = TransactionsTreatment(@, t)]
  PROVE  NodeStep
<1>1. Good(st[n]) /\ Seeks(st[n], Held, Node) /\ DOMAIN st = Node
  BY DEF Inv, NodesGood
<1> DEFINE s == TransactionsTreatment(st[n], t)
<1>2. st' = [st EXCEPT ![n] = s]
  OBVIOUS
<1>3. CASE s = st[n]
  BY <1>1, <1>2, <1>3 DEF NodeStep
<1>4. CASE /\ ~ IsTxInBG(st[n].blocks, t)
           /\ s = [st[n] EXCEPT !.mempool = st[n].mempool \cup {t}]
  <2> HIDE DEF s
  <2>1. /\ IsState(s) /\ s.blocks = st[n].blocks /\ s.waiting = st[n].waiting
        /\ s.missing = st[n].missing /\ s.childless = st[n].childless
        /\ s.recover = st[n].recover /\ s.mempool = st[n].mempool \cup {t}
    BY <1>1, <1>4 DEF Good, IsState
  <2>2. Good(s)
    BY <1>1, <1>4, <2>1
    DEF Good, Known, Complete, Requested, Pursued, Fresh, MissingHashes
  <2>3. Seeks(s, Held, Node)
    BY <1>1, <2>1 DEF Seeks
  <2> QED BY <1>2, <2>1, <2>2, <2>3 DEF NodeStep
<1> QED BY <1>3, <1>4 DEF TransactionsTreatment

\* A block that is received starts searches for what is held only.
LEMMA ReceiveStep ==
  ASSUME Inv, NEW n \in Node, NEW b \in DOMAIN dag,
         st' = [st EXCEPT ![n] = BlockTreatment(@, b)]
  PROVE  NodeStep
<1>1. Good(st[n]) /\ Seeks(st[n], Held, Node) /\ Founded(dag[b])
  BY DEF Inv, NodesGood, DagFounded
<1> DEFINE s == BlockTreatment(st[n], b)
<1>2. Good(s)
  BY <1>1, BlockTreatmentKeeps
<1>3. Seeks(s, Held, Node)
  BY <1>1, BlockTreatmentSeeks DEF Good, Founded
<1>4. st[n].blocks \subseteq s.blocks
  BY <1>1, BlockTreatmentGrows DEF Good
<1>5. st' = [st EXCEPT ![n] = s]
  OBVIOUS
<1> HIDE DEF s
<1> QED BY <1>2, <1>3, <1>4, <1>5 DEF NodeStep

\* A block that a node makes is founded on what it has and what it looks for.
LEMMA GenerateStep ==
  ASSUME Inv, NEW n \in Node, NEW s, NEW mergeBlock \in BOOLEAN,
         Good(s), Seeks(s, Held, Node), s.blocks = st[n].blocks,
         GenerateBlocks(n, s, mergeBlock)
  PROVE  NodeStep /\ DagStep
<1> DEFINE before == GetNodesFromOldGroup(n)
           mb == GenerateMergeBlock(s, n, group[n], before)
<1>1. before \subseteq Node
  BY DEF GetNodesFromOldGroup, Inv, GroupsOK
<1>2. IsFiniteSet(Held) /\ IsFiniteSet(Node) /\ s.blocks \subseteq Held
  BY HeldFacts, NetworkConstants
<1> HIDE DEF before
<1>3. CASE NewBlock(mb) /\ st' = [st EXCEPT ![n] = s]
  <2>1. Names(MergeAnswers(s, before), Held, Node)
    BY <1>1, <1>2, MergeAnswersNames
  <2>2. GetChildlessBlockList(s.blocks) \cup s.childless \subseteq Held
    BY <1>2 DEF GetChildlessBlockList, Seeks
  <2>3. Founded(mb)
    BY <2>1, <2>2 DEF Founded, GenerateMergeBlock
  <2> HIDE DEF mb
  <2>4. DagStep
    BY <1>3, <2>3 DEF DagStep
  <2>5. NodeStep
    BY <1>3 DEF NodeStep
  <2> QED BY <2>4, <2>5
<1>4. CASE \E txns \in SelectTransactions(s) :
             /\ NewBlock(GenerateRegularBlock(s, n, group[n], groupId_register[n], txns))
             /\ st' = [st EXCEPT ![n] = [s EXCEPT !.mempool = @ \ txns]]
  <2>1. PICK txns :
          /\ NewBlock(GenerateRegularBlock(s, n, group[n], groupId_register[n], txns))
          /\ st' = [st EXCEPT ![n] = [s EXCEPT !.mempool = s.mempool \ txns]]
    BY <1>4
  <2> DEFINE rb == GenerateRegularBlock(s, n, group[n], groupId_register[n], txns)
             r == [s EXCEPT !.mempool = s.mempool \ txns]
  <2>2. /\ rb.leader = n /\ rb.answers = <<>>
        /\ rb.parents \subseteq GetChildlessBlockList(s.blocks)
    BY DEF GenerateRegularBlock
  <2>3. Founded(rb)
    BY <1>2, <2>2 DEF Founded, GetChildlessBlockList, Names
  <2>4. /\ IsState(r) /\ r.blocks = s.blocks /\ r.waiting = s.waiting
        /\ r.missing = s.missing /\ r.childless = s.childless
        /\ r.recover = s.recover /\ r.mempool = s.mempool \ txns
    BY DEF Good, IsState
  <2> HIDE DEF rb, r
  <2>5. Good(r)
    BY <2>4 DEF Good, Known, Complete, Requested, Pursued, Fresh, MissingHashes
  <2>6. Seeks(r, Held, Node)
    BY <2>4 DEF Seeks
  <2>7. st' = [st EXCEPT ![n] = r] /\ NewBlock(rb)
    BY <2>1 DEF r, rb
  <2>8. NodeStep
    BY <2>4, <2>5, <2>6, <2>7 DEF NodeStep
  <2>9. DagStep
    BY <2>3, <2>7 DEF DagStep
  <2> QED BY <2>8, <2>9
<1> QED BY <1>3, <1>4 DEF GenerateBlocks, before

\* Starting a merge only touches createBlock, and asks.
LEMMA StartMergeStep ==
  ASSUME Inv, NEW n \in Node, NEW left, StartMerge(n, left)
  PROVE  NodeStep /\ PacketStep
<1>1. CASE UNCHANGED <<st, netVars>>
  BY <1>1 DEF NodeStep, PacketStep, netVars
<1>2. CASE /\ st' = [st EXCEPT ![n] = [@ EXCEPT !.createBlock = FALSE]]
           /\ Ask4ChildlessHashes(n)
  <2> DEFINE s == [st[n] EXCEPT !.createBlock = FALSE]
  <2>1. st' = [st EXCEPT ![n] = s]
    BY <1>2
  <2>2. IsState(st[n])
    BY DEF Inv, NodesGood, Good
  <2>3. /\ IsState(s) /\ s.blocks = st[n].blocks /\ s.waiting = st[n].waiting
        /\ s.missing = st[n].missing /\ s.childless = st[n].childless
        /\ s.recover = st[n].recover /\ s.mempool = st[n].mempool
    BY <2>2, CreateBlockFields
  <2> HIDE DEF s
  <2>4. NodeStep
    BY <2>1, <2>3, SameLists
  <2>5. PacketStep
    BY <1>2, TransmitStep DEF Ask4ChildlessHashes, Truthful
  <2> QED BY <2>4, <2>5
<1> QED BY <1>1, <1>2 DEF StartMerge

\* An answer names tips of the node that sends it, and what it has is held.
LEMMA SendChildlessStep ==
  ASSUME Inv, NEW n \in Node, SendChildlessHashes(n)
  PROVE  PacketStep
<1>1. PICK p \in packets :
        Transmit(packets \ {p},
                 {[type |-> "CHILDLESSBLOCK_REP", from |-> n, to |-> p.from,
                   hashes |-> GetChildlessBlockList(st[n].blocks)]})
  BY DEF SendChildlessHashes
<1>2. GetChildlessBlockList(st[n].blocks) \subseteq Held
  BY DEF GetChildlessBlockList, Held
<1> QED BY <1>1, <1>2, TransmitStep DEF Truthful

\* A node that gets an answer notes what is held, and may make a merge block.
LEMMA ResponseStep ==
  ASSUME Inv, NEW n \in Node, ProcessChildlessResponse(n)
  PROVE  NodeStep /\ DagStep /\ PacketStep
<1>1. PICK p \in packets :
        LET answers == SetToSeq({[hash |-> h, node |-> p.from] : h \in p.hashes})
            s == ChildlessHashTreatment(st[n], answers)
        IN  /\ p.type = "CHILDLESSBLOCK_REP"
            /\ packets' = packets \ {p}
            /\ \/ st' = [st EXCEPT ![n] = s] /\ UNCHANGED <<dag, pool>>
               \/ GenerateBlocks(n, [s EXCEPT !.createBlock = TRUE], TRUE)
  BY DEF ProcessChildlessResponse
<1> DEFINE set == {[hash |-> h, node |-> p.from] : h \in p.hashes}
           answers == SetToSeq(set)
           s == ChildlessHashTreatment(st[n], answers)
           c == [s EXCEPT !.createBlock = TRUE]
<1>2. PacketStep
  BY <1>1 DEF PacketStep
<1>3. set \subseteq [hash : Held, node : Node]
  BY <1>1 DEF Inv, PacketsTruthful, Truthful
<1> HIDE DEF set
<1>4. IsFiniteSet(set)
  BY <1>3, AnswersFinite, HeldFacts, NetworkConstants
<1>5. Names(answers, Held, Node)
  <2>1. answers \in [1 .. Cardinality(set) -> set]
    BY <1>4, SetToSeqRange
  <2> QED BY <1>3, <2>1 DEF Names
<1> HIDE DEF answers
<1>6. Good(st[n]) /\ IsState(st[n]) /\ Seeks(st[n], Held, Node)
  BY DEF Inv, NodesGood, Good
<1>7. Good(s) /\ Seeks(s, Held, Node) /\ s.blocks = st[n].blocks
  BY <1>5, <1>6, ChildlessKeeps, ChildlessSeeks, ChildlessFields
<1>8. \/ st' = [st EXCEPT ![n] = s] /\ UNCHANGED dag
      \/ GenerateBlocks(n, c, TRUE)
  BY <1>1 DEF answers, set
<1> HIDE DEF s
<1>9. CASE st' = [st EXCEPT ![n] = s] /\ UNCHANGED dag
  BY <1>2, <1>7, <1>9 DEF NodeStep, DagStep
<1>10. CASE GenerateBlocks(n, c, TRUE)
  <2>1. Good(c)
    BY <1>7, CreateBlockFree
  <2>2. /\ c.blocks = s.blocks /\ c.missing = s.missing /\ c.recover = s.recover
        /\ c.childless = s.childless
    BY <1>7 DEF Good, IsState
  <2> HIDE DEF c
  <2>3. Seeks(c, Held, Node) /\ c.blocks = st[n].blocks
    BY <1>7, <2>2 DEF Seeks
  <2> QED BY <1>2, <1>10, <2>1, <2>3, GenerateStep
<1> QED BY <1>8, <1>9, <1>10

\* The timer of a merge may make a merge block.
LEMMA TimerStep ==
  ASSUME Inv, NEW n \in Node, timer_childless_fct(n)
  PROVE  NodeStep /\ DagStep /\ PacketStep
<1> DEFINE s == st[n]
           c == [s EXCEPT !.createBlock = TRUE]
<1>1. PacketStep
  BY DEF timer_childless_fct, netVars, PacketStep
<1>2. CASE UNCHANGED <<dag, st>>
  BY <1>1, <1>2 DEF NodeStep, DagStep
<1>3. CASE GenerateBlocks(n, c, TRUE)
  <2>1. Good(s) /\ Seeks(s, Held, Node)
    BY DEF Inv, NodesGood
  <2> HIDE DEF s
  <2>2. Good(c)
    BY <2>1, CreateBlockFree
  <2>3. /\ c.blocks = s.blocks /\ c.missing = s.missing /\ c.recover = s.recover
        /\ c.childless = s.childless
    BY <2>1 DEF Good, IsState
  <2> HIDE DEF c
  <2>4. Seeks(c, Held, Node)
    BY <2>1, <2>3 DEF Seeks
  <2> QED BY <1>1, <1>3, <2>2, <2>3, <2>4, GenerateStep DEF s
<1> QED BY <1>2, <1>3 DEF timer_childless_fct

\* A merge that is confirmed forgets whom to ask.
LEMMA UpdateTopologyStep ==
  ASSUME Inv, NEW n \in Node, UpdateTopologyInfo(n)
  PROVE  Step
<1> DEFINE s == [st[n] EXCEPT !.recover = {}]
<1>1. st' = [st EXCEPT ![n] = s] /\ dag' = dag /\ packets' = packets
  BY DEF UpdateTopologyInfo, netVars
<1>2. /\ IsState(s) /\ s.blocks = st[n].blocks /\ s.waiting = st[n].waiting
      /\ s.missing = st[n].missing /\ s.childless = st[n].childless
      /\ s.recover = {} /\ s.mempool = st[n].mempool
  BY DEF Inv, NodesGood, Good, IsState
<1> HIDE DEF s
<1>3. NodeStep
  BY <1>1, <1>2, SameLists
<1>4. GroupsOK'
  BY DEF UpdateTopologyInfo, Inv, GroupsOK
<1> QED BY <1>1, <1>3, <1>4 DEF Step, DagStep, PacketStep

\* Every step of the network is of these kinds.
LEMMA NextIsStep == Inv /\ [Next]_vars => Step
<1> SUFFICES ASSUME Inv, [Next]_vars PROVE Step
  OBVIOUS
<1> USE DEF Step
<1>0. UNCHANGED <<groupVars>> => GroupsOK'
  BY DEF Inv, GroupsOK, groupVars
<1>1. ASSUME NEW n \in Node, NEW t \in Txn,
             GenerateTransaction(n, t) \/ ReceiveTransaction(n, t)
      PROVE  Step
  <2>1. NodeStep
    BY <1>1, TransactionStep DEF GenerateTransaction, ReceiveTransaction
  <2>2. PacketStep
    <3>1. CASE GenerateTransaction(n, t)
      BY <3>1, TransmitStep DEF GenerateTransaction, Broadcast, Truthful
    <3>2. CASE ReceiveTransaction(n, t)
      BY <3>2 DEF ReceiveTransaction, PacketStep
    <3> QED BY <1>1, <3>1, <3>2
  <2> QED BY <1>0, <1>1, <2>1, <2>2 DEF GenerateTransaction, ReceiveTransaction, DagStep
<1>2. ASSUME NEW n \in Node, NEW b \in DOMAIN dag, ReceiveBlock(n, b)
      PROVE  Step
  <2>1. NodeStep
    BY <1>2, ReceiveStep DEF ReceiveBlock
  <2> QED BY <1>0, <1>2, <2>1 DEF ReceiveBlock, PacketStep, DagStep
<1>3. ASSUME NEW n \in Node, NEW b \in DOMAIN dag,
             SendBlockTo(n, b) \/ SendBranch4Sync(n, b)
      PROVE  Step
  <2>1. \A to, h : Truthful(Block(to, h))
    BY DEF Block, Truthful
  <2>2. \E p \in packets : \E set :
          Transmit(packets \ {p}, {Block(p.from, h) : h \in set})
    <3>1. CASE SendBlockTo(n, b)
      <4>1. PICK p \in packets :
              Transmit(packets \ {p}, {Block(p.from, b) : h \in {b} \cap st[n].blocks})
        BY <3>1 DEF SendBlockTo
      <4>2. {Block(p.from, b) : h \in {b} \cap st[n].blocks}
              = {Block(p.from, h) : h \in {b} \cap st[n].blocks}
        OBVIOUS
      <4> QED BY <4>1, <4>2
    <3>2. CASE SendBranch4Sync(n, b)
      BY <3>2 DEF SendBranch4Sync
    <3> QED BY <1>3, <3>1, <3>2
  <2>3. PacketStep
    BY <2>1, <2>2, TransmitStep
  <2> QED BY <1>0, <1>3, <2>3 DEF SendBlockTo, SendBranch4Sync, NodeStep, DagStep
<1>4. ASSUME NEW n \in Node, RecurrentTasks(n) PROVE Step
  <2>1. \A leader : \A p \in Ask4MissingBlocks(n, leader) \cup RetransmitTransactions(n) :
          Truthful(p)
    BY DEF Ask4MissingBlocks, RetransmitTransactions, Broadcast, Truthful
  <2>2. PacketStep
    BY <1>4, <2>1, TransmitStep DEF RecurrentTasks
  <2> QED BY <1>0, <1>4, <2>2 DEF RecurrentTasks, NodeStep, DagStep
<1>5. ASSUME NEW n \in Node, TestBlockCreation(n) PROVE Step
  <2>1. Good(st[n]) /\ Seeks(st[n], Held, Node)
    BY DEF Inv, NodesGood
  <2>2. GenerateBlocks(n, st[n], FALSE)
    BY <1>5 DEF TestBlockCreation
  <2>3. NodeStep /\ DagStep
    BY <2>1, <2>2, GenerateStep
  <2> QED BY <1>0, <1>5, <2>3 DEF TestBlockCreation, PacketStep, netVars
<1>6. ASSUME NEW n \in Node, UpdateTopologyInfo(n) PROVE Step
  BY <1>6, UpdateTopologyStep
<1>7. ASSUME NEW n \in Node, ScheduledStartMerge(n) \/ BecomeLeader(n) PROVE Step
  <2>1. NodeStep /\ PacketStep
    <3>1. CASE \E left : StartMerge(n, left)
      BY <3>1, StartMergeStep
    <3>2. CASE UNCHANGED <<st, netVars>>
      BY <3>2 DEF NodeStep, PacketStep, netVars
    <3> QED BY <1>7, <3>1, <3>2 DEF ScheduledStartMerge, BecomeLeader
  <2> QED BY <1>0, <1>7, <2>1 DEF ScheduledStartMerge, BecomeLeader, DagStep
<1>8. ASSUME NEW n \in Node, SendChildlessHashes(n) PROVE Step
  BY <1>0, <1>8, SendChildlessStep DEF SendChildlessHashes, NodeStep, DagStep
<1>9. ASSUME NEW n \in Node, ProcessChildlessResponse(n) PROVE Step
  BY <1>0, <1>9, ResponseStep DEF ProcessChildlessResponse
<1>10. ASSUME NEW n \in Node, timer_childless_fct(n) PROVE Step
  BY <1>0, <1>10, TimerStep DEF timer_childless_fct
<1>11. ASSUME NEW n \in Node, SendBranchRequest(n) PROVE Step
  <2>1. PacketStep
    BY <1>11, TransmitStep DEF SendBranchRequest, Truthful
  <2> QED BY <1>0, <1>11, <2>1 DEF SendBranchRequest, NodeStep, DagStep
<1>12. ASSUME NEW t \in Txn, Age(t) PROVE Step
  BY <1>0, <1>12 DEF Age, netVars, NodeStep, DagStep, PacketStep
<1>13. ASSUME NEW b \in pool, Commit(b) \/ DropBlock(b) PROVE Step
  <2>1. PacketStep
    <3>1. CASE Commit(b)
      BY <3>1, TransmitStep DEF Commit, Truthful
    <3>2. CASE DropBlock(b)
      BY <3>2 DEF DropBlock, PacketStep
    <3> QED BY <1>13, <3>1, <3>2
  <2> QED BY <1>0, <1>13, <2>1 DEF Commit, DropBlock, NodeStep, DagStep
<1>14. CASE UNCHANGED vars
  BY <1>0, <1>14 DEF vars, netVars, NodeStep, DagStep, PacketStep
<1> QED BY <1>1, <1>2, <1>3, <1>4, <1>5, <1>6, <1>7, <1>8, <1>9, <1>10, <1>11,
           <1>12, <1>13, <1>14 DEF Next

-----------------------------------------------------------------------------
(* The theorems.                                                           *)

\* Invariance of the whole.
LEMMA InvAlways == Spec => []Inv
<1>1. Inv /\ [Next]_vars => Inv'
  BY NextIsStep, StepKeeps
<1> QED BY InitHolds, <1>1, PTL DEF Spec

\* No node goes on asking for a block that does not exist anywhere (b4mesh.cc,
\* Ask4MissingBlocks): some node has it.
THEOREM MissingBlocksExist == Spec => []MissingIsHeld
<1>1. Inv => MissingIsHeld
  BY DEF Inv, NodesGood, Seeks, MissingHashes, MissingIsHeld
<1> QED BY InvAlways, <1>1, PTL

-----------------------------------------------------------------------------
(* Types.                                                                  *)

PacketOK(p) ==
  \/ p \in [type : {"TRANSACTION"}, to : Node, txn : Txn]
  \/ p \in [type : {"BLOCK", "RECV_BLOCK"}, to : Node, hash : DOMAIN dag]
  \/ p \in [type : {"REQUEST_BLOCK"}, from : Node, to : Node \cup {Nobody},
            hash : DOMAIN dag]
  \/ p \in [type : {"GROUPBRANCH_REQ"}, from : Node, to : Node, hash : DOMAIN dag]
  \/ p \in [type : {"CHILDLESSBLOCK_REQ"}, from : Node, to : Node]
  \/ p \in [type : {"CHILDLESSBLOCK_REP"}, from : Node, to : Node,
            hashes : SUBSET DOMAIN dag]

OthersOK ==
  /\ groupId_register \in [Node -> SUBSET SUBSET Node] /\ startMerge \in [Node -> BOOLEAN]
  /\ leaders \subseteq Node /\ candidates \subseteq Node
  /\ polls \in [Node -> Nat] /\ timers \in [Node -> Nat] /\ syncs \in [Node -> Nat]
  /\ todo \in [Node -> SUBSET Txn] /\ old \subseteq Txn

TypeInv ==
  /\ Inv
  /\ \A h \in DOMAIN dag : dag[h] \in BlockType
  /\ st = [n \in Node |-> st[n]]
  /\ \A n \in Node : Typed(st[n], Node, Txn)
  /\ \A p \in packets : PacketOK(p)
  /\ faults \in 0 .. MaxFaults
  /\ OthersOK
  /\ pool \subseteq DOMAIN dag

LEMMA InitTyped == Init => TypeInv
<1> SUFFICES ASSUME Init PROVE TypeInv
  OBVIOUS
<1>1. PICK i \in InitialNetworks :
        /\ dag = i.dag
        /\ st = [n \in Node |-> Lists(i.blocks[n])]
        /\ groupId_register = i.groupId_register
        /\ startMerge = [n \in Node |-> FALSE]
        /\ leaders = {} /\ candidates = i.candidates
        /\ polls = [n \in Node |-> 0] /\ timers = [n \in Node |-> 0]
        /\ syncs = [n \in Node |-> 0]
        /\ todo = i.todo /\ old = Txn \ UNION {i.todo[n] : n \in Node}
        /\ pool = {} /\ packets = {} /\ faults = 0
  BY DEF Init
<1>2. i \in NetworkType(i.dag) /\ \A h \in DOMAIN i.dag : i.dag[h] \in BlockType
  BY NetworkConstants
<1>3. \A n \in Node : Typed(st[n], Node, Txn)
  BY <1>1 DEF Lists, Typed
<1>4. OthersOK
  <2>1. /\ i.groupId_register \in [Node -> SUBSET SUBSET Node]
        /\ i.candidates \subseteq Node /\ i.todo \in [Node -> SUBSET Txn]
    BY <1>2 DEF NetworkType
  <2> QED BY <1>1, <2>1 DEF OthersOK
<1> QED BY <1>1, <1>2, <1>3, <1>4, InitHolds, NetworkConstants DEF TypeInv

\* What a step may do to each part.
TypedNode ==
  \/ st' = st
  \/ \E n \in Node : \E s : st' = [st EXCEPT ![n] = s] /\ Typed(s, Node, Txn)

TypedDag == dag' = dag \/ \E b \in BlockType : NewBlock(b)

TypedPackets ==
  /\ faults' \in 0 .. MaxFaults /\ faults <= faults'
  /\ \A p \in packets' : p \in packets \/ PacketOK(p)

TypedStep ==
  TypedNode /\ TypedDag /\ TypedPackets /\ OthersOK' /\ pool' \subseteq DOMAIN dag'

LEMMA TypedStepKeeps == TypeInv /\ Inv' /\ TypedStep => TypeInv'
<1> SUFFICES ASSUME TypeInv, Inv', TypedStep PROVE TypeInv'
  OBVIOUS
<1>1. DOMAIN dag \subseteq DOMAIN dag' /\ \A h \in DOMAIN dag' : dag'[h] \in BlockType
  BY NewBlockFields DEF TypedStep, TypedDag, TypeInv
<1>2. \A n \in Node : Typed(st'[n], Node, Txn)
  BY DEF TypedStep, TypedNode, TypeInv, Inv, NodesGood
<1>7. st' = [n \in Node |-> st'[n]]
  BY DEF TypedStep, TypedNode, TypeInv
<1>3. \A p : PacketOK(p) => PacketOK(p)'
  BY <1>1 DEF PacketOK
<1>4. \A p \in packets' : PacketOK(p)'
  BY <1>3 DEF TypedStep, TypedPackets, TypeInv
<1>5. \A n \in Node : Typed(st[n], Node, Txn)'
  BY <1>2 DEF Typed
<1>6. (\A h \in DOMAIN dag : dag[h] \in BlockType)'
  BY <1>1 DEF BlockType
<1> QED BY <1>4, <1>5, <1>6, <1>7 DEF TypedStep, TypedPackets, TypeInv

\* Packets of one type that differ in two fields are as few as the values of these.
LEMMA FewPackets ==
  ASSUME NEW A, IsFiniteSet(A), NEW B, IsFiniteSet(B), NEW S, NEW type, NEW from,
         \/ S \subseteq [type : {type}, to : A, txn : B]
         \/ S \subseteq [type : {type}, to : A, hash : B]
         \/ S \subseteq [type : {type}, from : {from}, to : A]
         \/ S \subseteq [type : {type}, from : {from}, to : A, hash : B]
  PROVE  IsFiniteSet(S)
<1>1. IsFiniteSet(A \X B)
  BY FS_Product
<1>2. CASE S \subseteq [type : {type}, to : A, txn : B]
  <2> DEFINE f == [p \in S |-> <<p.to, p.txn>>]
  <2>1. \A p \in S : /\ p.to \in A /\ p.txn \in B
                     /\ p = [type |-> type, to |-> p.to, txn |-> p.txn]
    BY <1>2
  <2>2. f \in [S -> A \X B]
    BY <2>1
  <2>3. \A p, q \in S : f[p] = f[q] => p = q
    BY <2>1
  <2>4. f \in Injection(S, A \X B)
    BY <2>2, <2>3 DEF Injection, IsInjective
  <2> QED BY <1>1, <2>4, FS_Injection
<1>3. CASE S \subseteq [type : {type}, to : A, hash : B]
  <2> DEFINE f == [p \in S |-> <<p.to, p.hash>>]
  <2>1. \A p \in S : /\ p.to \in A /\ p.hash \in B
                     /\ p = [type |-> type, to |-> p.to, hash |-> p.hash]
    BY <1>3
  <2>2. f \in [S -> A \X B]
    BY <2>1
  <2>3. \A p, q \in S : f[p] = f[q] => p = q
    BY <2>1
  <2>4. f \in Injection(S, A \X B)
    BY <2>2, <2>3 DEF Injection, IsInjective
  <2> QED BY <1>1, <2>4, FS_Injection
<1>4. CASE S \subseteq [type : {type}, from : {from}, to : A]
  <2> DEFINE f == [p \in S |-> p.to]
  <2>1. \A p \in S : p.to \in A /\ p = [type |-> type, from |-> from, to |-> p.to]
    BY <1>4
  <2>2. f \in [S -> A]
    BY <2>1
  <2>3. \A p, q \in S : f[p] = f[q] => p = q
    BY <2>1
  <2>4. f \in Injection(S, A)
    BY <2>2, <2>3 DEF Injection, IsInjective
  <2> QED BY <2>4, FS_Injection
<1>5. CASE S \subseteq [type : {type}, from : {from}, to : A, hash : B]
  <2> DEFINE f == [p \in S |-> <<p.to, p.hash>>]
  <2>1. \A p \in S : /\ p.to \in A /\ p.hash \in B
                     /\ p = [type |-> type, from |-> from, to |-> p.to, hash |-> p.hash]
    BY <1>5
  <2>2. f \in [S -> A \X B]
    BY <2>1
  <2>3. \A p, q \in S : f[p] = f[q] => p = q
    BY <2>1
  <2>4. f \in Injection(S, A \X B)
    BY <2>2, <2>3 DEF Injection, IsInjective
  <2> QED BY <1>1, <2>4, FS_Injection
<1> QED BY <1>2, <1>3, <1>4, <1>5

\* Finitely many packets are sent, and so finitely many are lost.
LEMMA TransmitTyped ==
  ASSUME TypeInv, NEW rest, rest \subseteq packets, NEW sent, IsFiniteSet(sent),
         \A p \in sent : PacketOK(p), Transmit(rest, sent)
  PROVE  TypedPackets
<1>1. PICK lost \in SUBSET sent : /\ faults' = faults + Cardinality(lost)
                                  /\ faults' <= MaxFaults
                                  /\ packets' = rest \cup (sent \ lost)
  BY DEF Transmit
<1>2. Cardinality(lost) \in Nat
  BY <1>1, FS_Subset, FS_CardinalityType
<1>3. faults' \in 0 .. MaxFaults /\ faults <= faults'
  BY <1>1, <1>2, NetworkConstants DEF TypeInv
<1> QED BY <1>1, <1>3 DEF TypedPackets

\* Transactions that a node tells its group.
LEMMA BroadcastTyped ==
  ASSUME TypeInv, NEW n \in Node, NEW txns, txns \subseteq Txn
  PROVE  /\ IsFiniteSet(Broadcast(n, txns))
         /\ \A p \in Broadcast(n, txns) : PacketOK(p)
<1>1. group[n] \subseteq Node
  BY DEF TypeInv, Inv, GroupsOK
<1>2. Broadcast(n, txns) \subseteq [type : {"TRANSACTION"}, to : Node, txn : Txn]
  BY <1>1 DEF Broadcast
<1>3. IsFiniteSet(Broadcast(n, txns))
  BY <1>2, FewPackets, NetworkConstants
<1> QED BY <1>2, <1>3 DEF PacketOK

\* Requests for blocks that are known to exist.
LEMMA RequestsTyped ==
  ASSUME TypeInv, NEW n \in Node, NEW leader \in Node \cup {Nobody}
  PROVE  /\ IsFiniteSet(Ask4MissingBlocks(n, leader))
         /\ \A p \in Ask4MissingBlocks(n, leader) : PacketOK(p)
<1> DEFINE To == Node \cup {Nobody}
<1>1. st[n].missing \subseteq [hash : DOMAIN dag, node : Node]
  BY HeldFacts DEF TypeInv, Inv, NodesGood, Seeks
<1>2. Ask4MissingBlocks(n, leader) \subseteq
        [type : {"REQUEST_BLOCK"}, from : {n}, to : To, hash : DOMAIN dag]
  <2> SUFFICES ASSUME NEW p \in Ask4MissingBlocks(n, leader)
               PROVE  p \in [type : {"REQUEST_BLOCK"}, from : {n}, to : To,
                             hash : DOMAIN dag]
    OBVIOUS
  <2>1. \E e \in st[n].missing, m \in To :
          p = [type |-> "REQUEST_BLOCK", from |-> n, to |-> m, hash |-> e.hash]
    BY <1>1 DEF Ask4MissingBlocks
  <2> QED BY <1>1, <2>1
<1>3. IsFiniteSet(DOMAIN dag)
  BY NetworkConstants, FS_Subset DEF TypeInv, Inv, DagFounded
<1>4. IsFiniteSet(To)
  BY NetworkConstants, FS_AddElement
<1> HIDE DEF To
<1>5. IsFiniteSet(Ask4MissingBlocks(n, leader))
  BY <1>2, <1>3, <1>4, FewPackets
<1> QED BY <1>2, <1>5 DEF PacketOK, To

\* Branches are asked of nodes.
LEMMA BranchRequestsTyped ==
  ASSUME TypeInv, NEW n \in Node, NEW asked, asked \subseteq Holders(st[n]),
         NEW sent, sent = {[type |-> "GROUPBRANCH_REQ", from |-> n, to |-> e.node,
                            hash |-> e.hash] : e \in asked}
  PROVE  IsFiniteSet(sent) /\ \A p \in sent : PacketOK(p)
<1>1. asked \subseteq [hash : DOMAIN dag, node : Node]
  BY HeldFacts DEF TypeInv, Inv, NodesGood, Seeks, Holders
<1>2. sent \subseteq
        [type : {"GROUPBRANCH_REQ"}, from : {n}, to : Node, hash : DOMAIN dag]
  BY <1>1
<1>3. IsFiniteSet(DOMAIN dag)
  BY NetworkConstants, FS_Subset DEF TypeInv, Inv, DagFounded
<1>4. IsFiniteSet(sent)
  BY <1>2, <1>3, FewPackets, NetworkConstants
<1> QED BY <1>2, <1>4 DEF PacketOK

\* A transaction of a mempool is one of the network.
LEMMA TransactionTyped ==
  ASSUME TypeInv, NEW n \in Node, NEW t \in Txn,
         st' = [st EXCEPT ![n] = TransactionsTreatment(@, t)]
  PROVE  TypedNode
<1> DEFINE s == TransactionsTreatment(st[n], t)
<1>1. st' = [st EXCEPT ![n] = s]
  OBVIOUS
<1>2. IsState(st[n]) /\ Typed(st[n], Node, Txn)
  BY DEF TypeInv, Inv, NodesGood, Good
<1>3. s = st[n] \/ s = [st[n] EXCEPT !.mempool = st[n].mempool \cup {t}]
  BY DEF TransactionsTreatment
<1> HIDE DEF s
<1>4. /\ s.mempool \subseteq st[n].mempool \cup {t} /\ s.lastLeader = st[n].lastLeader
      /\ s.createBlock = st[n].createBlock
  BY <1>2, <1>3 DEF IsState
<1>5. Typed(s, Node, Txn)
  BY <1>2, <1>4 DEF Typed
<1> QED BY <1>1, <1>5 DEF TypedNode

\* Blocks that a node sends in answer to a request.
LEMMA AnswersTyped ==
  ASSUME TypeInv, NEW m \in Node, NEW set, set \subseteq DOMAIN dag
  PROVE  LET sent == {Block(m, h) : h \in set}
         IN  IsFiniteSet(sent) /\ \A p \in sent : PacketOK(p)
<1> DEFINE sent == {Block(m, h) : h \in set}
<1>1. sent \subseteq [type : {"BLOCK"}, to : Node, hash : DOMAIN dag]
  BY DEF Block
<1>2. IsFiniteSet(DOMAIN dag)
  BY NetworkConstants, FS_Subset DEF TypeInv, Inv, DagFounded
<1> HIDE DEF sent
<1>3. IsFiniteSet(sent) /\ \A p \in sent : PacketOK(p)
  BY <1>1, <1>2, FewPackets, NetworkConstants DEF PacketOK
<1> QED BY <1>3 DEF sent

\* Blocks that the consensus hands to the group that made them.
LEMMA CommitTyped ==
  ASSUME TypeInv, NEW b \in pool, Commit(b)
  PROVE  TypedPackets
<1> DEFINE sent == {[type |-> "RECV_BLOCK", to |-> n, hash |-> b] : n \in dag[b].group}
<1>1. b \in DOMAIN dag /\ dag[b].group \subseteq Node
  BY DEF TypeInv, BlockType
<1>2. sent \subseteq [type : {"RECV_BLOCK"}, to : Node, hash : DOMAIN dag]
  BY <1>1
<1>3. IsFiniteSet(DOMAIN dag)
  BY NetworkConstants, FS_Subset DEF TypeInv, Inv, DagFounded
<1>4. Transmit(packets, sent)
  BY DEF Commit
<1> HIDE DEF sent
<1>5. IsFiniteSet(sent) /\ \A p \in sent : PacketOK(p)
  BY <1>2, <1>3, FewPackets, NetworkConstants DEF PacketOK
<1> QED BY <1>4, <1>5, TransmitTyped

\* A block that is made has the type of blocks.
LEMMA GenerateTyped ==
  ASSUME TypeInv, NEW n \in Node, NEW s, NEW mergeBlock \in BOOLEAN,
         IsState(s), Typed(s, Node, Txn), Seeks(s, Held, Node), s.blocks = st[n].blocks,
         GenerateBlocks(n, s, mergeBlock)
  PROVE  TypedNode /\ TypedDag /\ pool' \subseteq DOMAIN dag'
<1> DEFINE before == GetNodesFromOldGroup(n)
           mb == GenerateMergeBlock(s, n, group[n], before)
<1>1. /\ before \subseteq Node /\ group[n] \subseteq Node
      /\ IsFiniteSet(Held) /\ IsFiniteSet(Node) /\ s.blocks \subseteq Held
      /\ Held \subseteq Hash
  BY HeldFacts, NetworkConstants
  DEF GetNodesFromOldGroup, TypeInv, Inv, GroupsOK, DagFounded
<1> HIDE DEF before
<1>2. ASSUME NewBlock(mb) /\ st' = [st EXCEPT ![n] = s]
      PROVE  TypedNode /\ TypedDag
  <2>1. MergeAnswers(s, before) \in Seq([hash : Held, node : Node])
    BY <1>1, MergeAnswersNames
  <2>2. MergeAnswers(s, before) \in Seq([hash : Hash, node : Node])
    <3> DEFINE P == [hash : Held, node : Node]
               Q == [hash : Hash, node : Node]
    <3>1. P \subseteq Q
      BY <1>1
    <3>2. MergeAnswers(s, before) \in Seq(P)
      BY <2>1
    <3> HIDE DEF P, Q
    <3>3. MergeAnswers(s, before) \in Seq(Q)
      BY <3>1, <3>2
    <3> QED BY <3>3 DEF Q
  <2>3. GetChildlessBlockList(s.blocks) \cup s.childless \subseteq Hash
    BY <1>1 DEF GetChildlessBlockList, Seeks
  <2>4. mb \in BlockType
    BY <1>1, <2>2, <2>3 DEF GenerateMergeBlock, BlockType
  <2> HIDE DEF mb
  <2> QED BY <1>2, <2>4 DEF TypedNode, TypedDag
<1>3. ASSUME \E txns \in SelectTransactions(s) :
               /\ NewBlock(GenerateRegularBlock(s, n, group[n], groupId_register[n], txns))
               /\ st' = [st EXCEPT ![n] = [s EXCEPT !.mempool = @ \ txns]]
      PROVE  TypedNode /\ TypedDag
  <2>1. PICK txns \in SelectTransactions(s) :
          /\ NewBlock(GenerateRegularBlock(s, n, group[n], groupId_register[n], txns))
          /\ st' = [st EXCEPT ![n] = [s EXCEPT !.mempool = s.mempool \ txns]]
    BY <1>3
  <2> DEFINE rb == GenerateRegularBlock(s, n, group[n], groupId_register[n], txns)
             r == [s EXCEPT !.mempool = s.mempool \ txns]
  <2>2. txns \subseteq Txn
    BY DEF SelectTransactions, Typed
  <2>3. rb.parents \subseteq Hash
    BY <1>1 DEF GenerateRegularBlock, GetChildlessBlockList
  <2>4. \E parents : rb = [leader |-> n, group |-> group[n], merge |-> FALSE,
                           parents |-> parents, txns |-> txns, answers |-> <<>>]
    BY DEF GenerateRegularBlock
  <2> HIDE DEF rb
  <2>5. rb \in BlockType
    <3>1. PICK parents : rb = [leader |-> n, group |-> group[n], merge |-> FALSE,
                               parents |-> parents, txns |-> txns, answers |-> <<>>]
      BY <2>4
    <3>2. parents \subseteq Hash
      BY <2>3, <3>1
    <3>3. <<>> \in Seq([hash : Hash, node : Node])
      OBVIOUS
    <3> QED BY <1>1, <2>2, <3>1, <3>2, <3>3 DEF BlockType
  <2>6. /\ r.mempool = s.mempool \ txns /\ r.lastLeader = s.lastLeader
        /\ r.createBlock = s.createBlock
    BY DEF IsState
  <2> HIDE DEF r
  <2>7. Typed(r, Node, Txn)
    BY <2>6 DEF Typed
  <2>8. st' = [st EXCEPT ![n] = r] /\ NewBlock(rb)
    BY <2>1 DEF r, rb
  <2> QED BY <2>5, <2>7, <2>8 DEF TypedNode, TypedDag
<1>4. TypedNode /\ TypedDag
  BY <1>2, <1>3 DEF GenerateBlocks, before
<1>5. DOMAIN dag \subseteq DOMAIN dag'
  BY <1>4, NewBlockFields DEF TypedDag
<1>6. pool' \subseteq DOMAIN dag'
  BY <1>5 DEF GenerateBlocks, TypeInv
<1> QED BY <1>4, <1>6

\* createBlock is any truth value.
LEMMA CreateBlockTyped ==
  ASSUME NEW s, IsState(s), Typed(s, Node, Txn), NEW c \in BOOLEAN
  PROVE  Typed([s EXCEPT !.createBlock = c], Node, Txn)
<1> DEFINE r == [s EXCEPT !.createBlock = c]
<1>1. r.mempool = s.mempool /\ r.lastLeader = s.lastLeader /\ r.createBlock = c
  BY DEF IsState
<1> HIDE DEF r
<1>2. Typed(r, Node, Txn)
  BY <1>1 DEF Typed
<1> QED BY <1>2 DEF r

LEMMA StartMergeTyped ==
  ASSUME TypeInv, NEW n \in Node, NEW left \in Nat, StartMerge(n, left)
  PROVE  /\ TypedNode /\ TypedPackets
         /\ startMerge' \in [Node -> BOOLEAN] /\ polls' \in [Node -> Nat]
         /\ timers' = timers \/ timers' \in [Node -> Nat]
<1>1. /\ startMerge' \in [Node -> BOOLEAN] /\ polls' \in [Node -> Nat]
      /\ timers' = timers \/ timers' \in [Node -> Nat]
  <2>1. /\ startMerge \in [Node -> BOOLEAN] /\ polls \in [Node -> Nat]
        /\ timers \in [Node -> Nat] /\ left + 1 \in Nat
    BY DEF TypeInv, OthersOK
  <2>2. /\ \/ startMerge' = [startMerge EXCEPT ![n] = FALSE] \/ startMerge' = startMerge
        /\ \E k \in {left, left + 1} : polls' = [polls EXCEPT ![n] = k]
        /\ \/ timers' = [timers EXCEPT ![n] = @ + 1] \/ timers' = timers
    BY DEF StartMerge, Ask4ChildlessHashes
  <2>3. startMerge' \in [Node -> BOOLEAN]
    BY <2>1, <2>2
  <2>4. polls' \in [Node -> Nat]
    BY <2>1, <2>2
  <2>5. timers' = timers \/ timers' \in [Node -> Nat]
    BY <2>1, <2>2
  <2> QED BY <2>3, <2>4, <2>5
<1>2. CASE UNCHANGED <<st, netVars>>
  BY <1>1, <1>2 DEF TypedNode, TypedPackets, netVars, TypeInv
<1>3. CASE /\ st' = [st EXCEPT ![n] = [@ EXCEPT !.createBlock = FALSE]]
           /\ Ask4ChildlessHashes(n)
  <2> DEFINE s == [st[n] EXCEPT !.createBlock = FALSE]
             sent == {[type |-> "CHILDLESSBLOCK_REQ", from |-> n, to |-> m] :
                        m \in GetNewNodes(n)}
  <2>1. Typed(s, Node, Txn)
    BY CreateBlockTyped DEF TypeInv, Inv, NodesGood, Good
  <2>2. st' = [st EXCEPT ![n] = s]
    BY <1>3
  <2> HIDE DEF s
  <2>3. TypedNode
    BY <2>1, <2>2 DEF TypedNode
  <2>4. GetNewNodes(n) \subseteq Node
    BY DEF GetNewNodes, TypeInv, Inv, GroupsOK
  <2>5. sent \subseteq [type : {"CHILDLESSBLOCK_REQ"}, from : {n}, to : Node]
    BY <2>4
  <2>6. Transmit(packets, sent)
    BY <1>3 DEF Ask4ChildlessHashes
  <2> HIDE DEF sent
  <2>7. IsFiniteSet(sent) /\ \A p \in sent : PacketOK(p)
    BY <2>5, FewPackets, NetworkConstants DEF PacketOK
  <2> QED BY <1>1, <2>3, <2>6, <2>7, TransmitTyped
<1> QED BY <1>2, <1>3 DEF StartMerge

\* An answer is one packet.
LEMMA SendChildlessTyped ==
  ASSUME TypeInv, NEW n \in Node, SendChildlessHashes(n)
  PROVE  TypedPackets
<1>1. PICK p \in packets :
        /\ p.type = "CHILDLESSBLOCK_REQ"
        /\ Transmit(packets \ {p},
                    {[type |-> "CHILDLESSBLOCK_REP", from |-> n, to |-> p.from,
                      hashes |-> GetChildlessBlockList(st[n].blocks)]})
  BY DEF SendChildlessHashes
<1> DEFINE answer == [type |-> "CHILDLESSBLOCK_REP", from |-> n, to |-> p.from,
                      hashes |-> GetChildlessBlockList(st[n].blocks)]
<1>2. p.from \in Node
  BY <1>1 DEF TypeInv, PacketOK
<1>3. GetChildlessBlockList(st[n].blocks) \subseteq DOMAIN dag
  BY HeldFacts DEF GetChildlessBlockList, TypeInv
<1>4. PacketOK(answer)
  BY <1>2, <1>3 DEF PacketOK
<1> HIDE DEF answer
<1>5. IsFiniteSet({answer})
  BY FS_Singleton
<1>6. Transmit(packets \ {p}, {answer})
  BY <1>1 DEF answer
<1> QED BY <1>4, <1>5, <1>6, TransmitTyped

\* A node that gets an answer keeps its types, with a merge block or without.
LEMMA ResponseTyped ==
  ASSUME TypeInv, NEW n \in Node, ProcessChildlessResponse(n)
  PROVE  TypedNode /\ TypedDag /\ TypedPackets /\ pool' \subseteq DOMAIN dag'
<1>1. PICK p \in packets :
        LET answers == SetToSeq({[hash |-> h, node |-> p.from] : h \in p.hashes})
            s == ChildlessHashTreatment(st[n], answers)
        IN  /\ p.type = "CHILDLESSBLOCK_REP"
            /\ packets' = packets \ {p} /\ faults' = faults
            /\ \/ st' = [st EXCEPT ![n] = s] /\ UNCHANGED <<dag, pool>>
               \/ GenerateBlocks(n, [s EXCEPT !.createBlock = TRUE], TRUE)
  BY DEF ProcessChildlessResponse
<1> DEFINE set == {[hash |-> h, node |-> p.from] : h \in p.hashes}
           answers == SetToSeq(set)
           s == ChildlessHashTreatment(st[n], answers)
           c == [s EXCEPT !.createBlock = TRUE]
<1>2. TypedPackets
  BY <1>1 DEF TypedPackets, TypeInv
<1>3. set \subseteq [hash : Held, node : Node]
  BY <1>1 DEF TypeInv, Inv, PacketsTruthful, Truthful
<1> HIDE DEF set
<1>4. IsFiniteSet(set)
  BY <1>3, AnswersFinite, HeldFacts, NetworkConstants DEF TypeInv
<1>5. Names(answers, Held, Node)
  <2>1. answers \in [1 .. Cardinality(set) -> set]
    BY <1>4, SetToSeqRange
  <2> QED BY <1>3, <2>1 DEF Names
<1> HIDE DEF answers
<1>6. /\ IsState(st[n]) /\ Seeks(st[n], Held, Node) /\ Typed(st[n], Node, Txn)
  BY DEF TypeInv, Inv, NodesGood, Good
<1>7. /\ IsState(s) /\ Seeks(s, Held, Node) /\ s.blocks = st[n].blocks
      /\ Typed(s, Node, Txn)
  BY <1>5, <1>6, ChildlessSeeks, ChildlessFields, ChildlessTyped
<1>8. \/ st' = [st EXCEPT ![n] = s] /\ UNCHANGED <<dag, pool>>
      \/ GenerateBlocks(n, c, TRUE)
  BY <1>1 DEF answers, set
<1> HIDE DEF s
<1>9. CASE st' = [st EXCEPT ![n] = s] /\ UNCHANGED <<dag, pool>>
  BY <1>2, <1>7, <1>9 DEF TypedNode, TypedDag, TypeInv
<1>10. CASE GenerateBlocks(n, c, TRUE)
  <2>1. /\ IsState(c) /\ c.blocks = s.blocks /\ c.missing = s.missing
        /\ c.recover = s.recover /\ c.childless = s.childless
    BY <1>7, CreateBlockFields
  <2>2. Typed(c, Node, Txn)
    BY <1>7, CreateBlockTyped
  <2> HIDE DEF c
  <2>3. Seeks(c, Held, Node) /\ c.blocks = st[n].blocks
    BY <1>7, <2>1 DEF Seeks
  <2> QED BY <1>2, <1>10, <2>1, <2>2, <2>3, GenerateTyped
<1> QED BY <1>8, <1>9, <1>10

LEMMA TimerTyped ==
  ASSUME TypeInv, NEW n \in Node, timer_childless_fct(n)
  PROVE  TypedNode /\ TypedDag /\ pool' \subseteq DOMAIN dag'
<1> DEFINE s == st[n]
           c == [s EXCEPT !.createBlock = TRUE]
<1>1. CASE UNCHANGED <<dag, st, pool>>
  BY <1>1 DEF TypedNode, TypedDag, TypeInv
<1>2. CASE GenerateBlocks(n, c, TRUE)
  <2>1. IsState(s) /\ Seeks(s, Held, Node) /\ Typed(s, Node, Txn)
    BY DEF TypeInv, Inv, NodesGood, Good
  <2> HIDE DEF s
  <2>2. /\ IsState(c) /\ c.blocks = s.blocks /\ c.missing = s.missing
        /\ c.recover = s.recover /\ c.childless = s.childless
    BY <2>1, CreateBlockFields
  <2>3. Typed(c, Node, Txn)
    BY <2>1, CreateBlockTyped
  <2> HIDE DEF c
  <2>4. Seeks(c, Held, Node)
    BY <2>1, <2>2 DEF Seeks
  <2> QED BY <1>2, <2>2, <2>3, <2>4, GenerateTyped DEF s
<1> QED BY <1>1, <1>2 DEF timer_childless_fct

\* Every step of the network keeps the types.
LEMMA NextIsTyped == TypeInv /\ [Next]_vars => TypedStep
<1> SUFFICES ASSUME TypeInv, [Next]_vars PROVE TypedStep
  OBVIOUS
<1>0. /\ UNCHANGED <<groupVars, mergeVars, syncs, txnVars>> => OthersOK'
      /\ UNCHANGED netVars => TypedPackets
      /\ st' = st => TypedNode
      /\ dag' = dag => TypedDag
      /\ UNCHANGED <<dag, pool>> => pool' \subseteq DOMAIN dag'
      /\ packets' \subseteq packets /\ faults' = faults => TypedPackets
  BY DEF TypeInv, OthersOK, groupVars, mergeVars, txnVars, netVars, TypedPackets,
         TypedNode, TypedDag
<1>1. ASSUME NEW n \in Node, NEW t \in Txn, GenerateTransaction(n, t)
      PROVE  TypedStep
  <2>1. Transmit(packets, Broadcast(n, {t}))
    BY <1>1 DEF GenerateTransaction
  <2>2. TypedPackets
    BY <2>1, BroadcastTyped, TransmitTyped
  <2>3. OthersOK'
    BY <1>1 DEF GenerateTransaction, groupVars, mergeVars, TypeInv, OthersOK
  <2> QED BY <1>0, <1>1, <2>2, <2>3, TransactionTyped DEF GenerateTransaction, TypedStep
<1>2. ASSUME NEW n \in Node, NEW t \in Txn, ReceiveTransaction(n, t)
      PROVE  TypedStep
  BY <1>0, <1>2, TransactionTyped DEF ReceiveTransaction, TypedStep
<1>3. ASSUME NEW n \in Node, NEW b \in DOMAIN dag, ReceiveBlock(n, b)
      PROVE  TypedStep
  <2> DEFINE s == BlockTreatment(st[n], b)
  <2>1. Typed(s, Node, Txn)
    BY BlockTreatmentTyped DEF TypeInv, Inv, NodesGood, Good, BlockType
  <2>2. st' = [st EXCEPT ![n] = s]
    BY <1>3 DEF ReceiveBlock
  <2> HIDE DEF s
  <2>3. TypedNode
    BY <2>1, <2>2 DEF TypedNode
  <2>4. OthersOK'
    BY <1>3 DEF ReceiveBlock, groupVars, mergeVars, txnVars, TypeInv, OthersOK
  <2> QED BY <1>0, <1>3, <2>3, <2>4 DEF ReceiveBlock, TypedStep
<1>4. ASSUME NEW n \in Node, NEW b \in DOMAIN dag,
             SendBlockTo(n, b) \/ SendBranch4Sync(n, b)
      PROVE  TypedStep
  <2>1. \E p \in packets, set \in SUBSET DOMAIN dag :
          /\ p.type \in {"REQUEST_BLOCK", "GROUPBRANCH_REQ"}
          /\ Transmit(packets \ {p}, {Block(p.from, h) : h \in set})
    <3>1. CASE SendBlockTo(n, b)
      <4>1. PICK p \in packets :
              /\ p.type = "REQUEST_BLOCK"
              /\ Transmit(packets \ {p}, {Block(p.from, b) : h \in {b} \cap st[n].blocks})
        BY <3>1 DEF SendBlockTo
      <4>2. {Block(p.from, b) : h \in {b} \cap st[n].blocks}
              = {Block(p.from, h) : h \in {b} \cap st[n].blocks}
        OBVIOUS
      <4> QED BY <4>1, <4>2
    <3>2. CASE SendBranch4Sync(n, b)
      <4>1. \A set : GetBlocksFromGroup(st[n].blocks, set) \subseteq DOMAIN dag
        BY HeldFacts DEF GetBlocksFromGroup, TypeInv
      <4> QED BY <3>2, <4>1 DEF SendBranch4Sync
    <3> QED BY <1>4, <3>1, <3>2
  <2>2. PICK p \in packets, set \in SUBSET DOMAIN dag :
          /\ p.type \in {"REQUEST_BLOCK", "GROUPBRANCH_REQ"}
          /\ Transmit(packets \ {p}, {Block(p.from, h) : h \in set})
    BY <2>1
  <2>3. p.from \in Node
    BY <2>2 DEF TypeInv, PacketOK
  <2>4. TypedPackets
    BY <2>2, <2>3, AnswersTyped, TransmitTyped
  <2> QED BY <1>0, <1>4, <2>4 DEF SendBlockTo, SendBranch4Sync, TypedStep
<1>5. ASSUME NEW n \in Node, RecurrentTasks(n) PROVE TypedStep
  <2>0. PICK leader \in GetIpAddressFromId(st[n].lastLeader) :
          Transmit(packets, Ask4MissingBlocks(n, leader) \cup RetransmitTransactions(n))
    BY <1>5 DEF RecurrentTasks
  <2> DEFINE asked == Ask4MissingBlocks(n, leader)
             told == RetransmitTransactions(n)
  <2>1. IsFiniteSet(told) /\ \A p \in told : PacketOK(p)
    <3>1. st[n].mempool \subseteq Txn
      BY DEF TypeInv, Typed
    <3>2. {t \in st[n].mempool : \A u \in st[n].mempool : u <= t => u \in old} \subseteq Txn
      BY <3>1
    <3> QED BY <3>2, BroadcastTyped DEF RetransmitTransactions
  <2>2. IsFiniteSet(asked) /\ \A p \in asked : PacketOK(p)
    BY RequestsTyped DEF GetIpAddressFromId
  <2>3. Transmit(packets, asked \cup told)
    BY <2>0
  <2> HIDE DEF asked, told
  <2>4. IsFiniteSet(asked \cup told)
    BY <2>1, <2>2, FS_Union
  <2>5. TypedPackets
    BY <2>1, <2>2, <2>3, <2>4, TransmitTyped
  <2> QED BY <1>0, <1>5, <2>5 DEF RecurrentTasks, TypedStep
<1>6. ASSUME NEW n \in Node, TestBlockCreation(n) PROVE TypedStep
  <2>1. TypedNode /\ TypedDag /\ pool' \subseteq DOMAIN dag'
    BY <1>6, GenerateTyped DEF TestBlockCreation, TypeInv, Inv, NodesGood, Good
  <2>2. OthersOK'
    BY <1>0, <1>6 DEF TestBlockCreation
  <2> QED BY <1>0, <1>6, <2>1, <2>2 DEF TestBlockCreation, TypedStep
<1>7. ASSUME NEW n \in Node, UpdateTopologyInfo(n) PROVE TypedStep
  <2> DEFINE s == [st[n] EXCEPT !.recover = {}]
  <2>1. IsState(st[n]) /\ Typed(st[n], Node, Txn)
    BY DEF TypeInv, Inv, NodesGood, Good
  <2>2. /\ s.mempool = st[n].mempool /\ s.lastLeader = st[n].lastLeader
        /\ s.createBlock = st[n].createBlock
    BY <2>1 DEF IsState
  <2>3. st' = [st EXCEPT ![n] = s]
    BY <1>7 DEF UpdateTopologyInfo
  <2> HIDE DEF s
  <2>4. TypedNode
    BY <2>1, <2>2, <2>3, SameTyped DEF TypedNode
  <2>5. groupId_register' \in [Node -> SUBSET SUBSET Node]
    BY <1>7 DEF UpdateTopologyInfo, TypeInv, Inv, GroupsOK, OthersOK
  <2>6. OthersOK'
    BY <1>7, <2>5 DEF UpdateTopologyInfo, txnVars, TypeInv, OthersOK
  <2> QED BY <1>0, <1>7, <2>4, <2>6 DEF UpdateTopologyInfo, TypedStep
<1>8. ASSUME NEW n \in Node, ScheduledStartMerge(n) \/ BecomeLeader(n) PROVE TypedStep
  <2>1. polls[n] \in Nat
    BY DEF TypeInv, OthersOK
  <2>2. /\ TypedNode /\ TypedPackets
        /\ startMerge' \in [Node -> BOOLEAN] /\ polls' \in [Node -> Nat]
        /\ timers' = timers \/ timers' \in [Node -> Nat]
    <3>1. CASE \E left \in Nat : StartMerge(n, left)
      BY <3>1, StartMergeTyped
    <3>2. CASE /\ polls[n] > 0 /\ polls' = [polls EXCEPT ![n] = @ - 1]
               /\ UNCHANGED <<st, startMerge, timers, netVars>>
      BY <1>0, <2>1, <3>2 DEF TypeInv, OthersOK
    <3> QED BY <1>8, <2>1, <3>1, <3>2 DEF ScheduledStartMerge, BecomeLeader
  <2>3. OthersOK'
    BY <1>8, <2>2
    DEF ScheduledStartMerge, BecomeLeader, groupVars, txnVars, TypeInv, OthersOK
  <2> QED BY <1>0, <1>8, <2>2, <2>3 DEF ScheduledStartMerge, BecomeLeader, TypedStep
<1>9. ASSUME NEW n \in Node, SendChildlessHashes(n) PROVE TypedStep
  BY <1>0, <1>9, SendChildlessTyped DEF SendChildlessHashes, TypedStep
<1>10. ASSUME NEW n \in Node, ProcessChildlessResponse(n) PROVE TypedStep
  BY <1>0, <1>10, ResponseTyped DEF ProcessChildlessResponse, TypedStep
<1>11. ASSUME NEW n \in Node, timer_childless_fct(n) PROVE TypedStep
  <2>1. timers[n] \in Nat /\ timers[n] > 0 /\ timers' = [timers EXCEPT ![n] = @ - 1]
    BY <1>11 DEF timer_childless_fct, TypeInv, OthersOK
  <2>2. OthersOK'
    BY <1>11, <2>1 DEF timer_childless_fct, groupVars, txnVars, TypeInv, OthersOK
  <2> QED BY <1>0, <1>11, <2>2, TimerTyped DEF timer_childless_fct, TypedStep
<1>12. ASSUME NEW n \in Node, SendBranchRequest(n) PROVE TypedStep
  <2>1. PICK asked \in SUBSET Holders(st[n]) :
          Transmit(packets, {[type |-> "GROUPBRANCH_REQ", from |-> n, to |-> e.node,
                              hash |-> e.hash] : e \in asked})
    BY <1>12 DEF SendBranchRequest, BranchRequests
  <2>2. TypedPackets
    BY <2>1, BranchRequestsTyped, TransmitTyped
  <2>3. syncs[n] \in Nat /\ syncs[n] > 0 /\ syncs' = [syncs EXCEPT ![n] = @ - 1]
    BY <1>12 DEF SendBranchRequest, TypeInv, OthersOK
  <2>4. OthersOK'
    BY <1>12, <2>3 DEF SendBranchRequest, groupVars, mergeVars, txnVars, TypeInv, OthersOK
  <2> QED BY <1>0, <1>12, <2>2, <2>4 DEF SendBranchRequest, TypedStep
<1>13. ASSUME NEW t \in Txn, Age(t) PROVE TypedStep
  <2>1. OthersOK'
    BY <1>13 DEF Age, groupVars, mergeVars, TypeInv, OthersOK
  <2> QED BY <1>0, <1>13, <2>1 DEF Age, TypedStep
<1>14. ASSUME NEW b \in pool, Commit(b) PROVE TypedStep
  BY <1>0, <1>14, CommitTyped DEF Commit, TypedStep, TypeInv
<1>15. ASSUME NEW b \in pool, DropBlock(b) PROVE TypedStep
  <2>1. faults' \in 0 .. MaxFaults /\ faults <= faults'
    BY <1>15, NetworkConstants DEF DropBlock, TypeInv
  <2> QED BY <1>0, <1>15, <2>1 DEF DropBlock, TypedPackets, TypedStep, TypeInv
<1>16. CASE UNCHANGED vars
  BY <1>0, <1>16 DEF vars, TypedStep
<1> QED BY <1>1, <1>2, <1>3, <1>4, <1>5, <1>6, <1>7, <1>8, <1>9, <1>10, <1>11,
           <1>12, <1>13, <1>14, <1>15, <1>16 DEF Next

LEMMA TypesAlways == Spec => []TypeInv
<1>1. TypeInv /\ Inv' /\ [Next]_vars => TypeInv'
  BY NextIsTyped, TypedStepKeeps
<1> QED BY InitTyped, InvAlways, <1>1, PTL DEF Spec

\* The lists of every node, the blocks and the packets keep their types; the
\* packets name nodes and blocks that exist.
THEOREM NetworkTypes == Spec => []TypeOK
<1>1. ASSUME TypeInv PROVE TypeOK
  <2>1. st \in [Node -> [blocks : SUBSET DOMAIN dag, waiting : SUBSET DOMAIN dag,
                         missing : SUBSET [hash : DOMAIN dag, node : Node],
                         childless : SUBSET DOMAIN dag,
                         recover : SUBSET [hash : DOMAIN dag, node : Node],
                         mempool : SUBSET Txn, lastLeader : Node \cup {-1},
                         createBlock : BOOLEAN]]
    <3>1. \A n \in Node :
            /\ IsState(st[n])
            /\ st[n].blocks \subseteq DOMAIN dag /\ st[n].waiting \subseteq DOMAIN dag
            /\ st[n].missing \subseteq [hash : DOMAIN dag, node : Node]
            /\ st[n].childless \subseteq DOMAIN dag
            /\ st[n].recover \subseteq [hash : DOMAIN dag, node : Node]
            /\ st[n].mempool \subseteq Txn /\ st[n].lastLeader \in Node \cup {-1}
            /\ st[n].createBlock \in BOOLEAN
      BY <1>1, HeldFacts DEF TypeInv, Inv, NodesGood, Good, Known, Seeks, Typed
    <3>2. st = [n \in Node |-> st[n]]
      BY <1>1 DEF TypeInv
    <3> QED BY <3>1, <3>2 DEF IsState
  <2>2. \A p \in packets : PacketOK(p)
    BY <1>1 DEF TypeInv
  <2>3. packets \subseteq
          [type : {"TRANSACTION"}, to : Node, txn : Txn]
          \cup [type : {"BLOCK", "RECV_BLOCK"}, to : Node, hash : DOMAIN dag]
          \cup [type : {"REQUEST_BLOCK"}, from : Node, to : Node \cup {Nobody},
                hash : DOMAIN dag]
          \cup [type : {"GROUPBRANCH_REQ"}, from : Node, to : Node, hash : DOMAIN dag]
          \cup [type : {"CHILDLESSBLOCK_REQ"}, from : Node, to : Node]
          \cup [type : {"CHILDLESSBLOCK_REP"}, from : Node, to : Node,
                hashes : SUBSET DOMAIN dag]
    BY <2>2 DEF PacketOK
  <2> QED BY <1>1, <2>1, <2>3 DEF TypeInv, Inv, DagFounded, GroupsOK, OthersOK, TypeOK
<1> QED BY <1>1, TypesAlways, PTL

\* Only SendBranchRequest takes a call off syncs.
LEMMA SyncsDrop ==
  ASSUME TypeInv, [Next]_vars, NEW n \in Node, syncs'[n] < syncs[n]
  PROVE  SendBranchRequest(n)
<1>1. syncs \in [Node -> Nat]
  BY DEF TypeInv, OthersOK
<1>2. \A m \in Node, b \in DOMAIN dag :
        ReceiveBlock(m, b) => ~ (syncs'[n] < syncs[n])
  BY <1>1 DEF ReceiveBlock
<1>3. \A m \in Node : SendBranchRequest(m) => m = n \/ syncs'[n] = syncs[n]
  BY <1>1 DEF SendBranchRequest
<1>4. ASSUME UNCHANGED syncs PROVE FALSE
  BY <1>1, <1>4
<1>5. \E m \in Node : \/ \E b \in DOMAIN dag : ReceiveBlock(m, b)
                      \/ SendBranchRequest(m)
  BY <1>4
  DEF Next, vars, GenerateTransaction, ReceiveTransaction, SendBlockTo, SendBranch4Sync,
      RecurrentTasks, TestBlockCreation, UpdateTopologyInfo, ScheduledStartMerge,
      BecomeLeader, SendChildlessHashes, ProcessChildlessResponse, timer_childless_fct,
      Age, Commit, DropBlock
<1> QED BY <1>1, <1>2, <1>3, <1>5

\* The limit on the requests leaves out no branch (b4mesh.cc, SendBranchRequest):
\* the request that reaches it ends the requests for its own branch only.
LEMMA RequestsCoverBranches ==
  ASSUME NEW s, NEW sent \in BranchRequests(s), NEW e \in Holders(s)
  PROVE  \E r \in sent : r.hash = e.hash
<1>1. CASE sent = Holders(s)
  BY <1>1
<1>2. ASSUME NEW h, NEW before,
             LET asked == {r \in sent : r.hash \in before \cup {h}}
             IN  /\ \A r \in Holders(s) : r.hash # h => r \in sent
                 /\ \E r \in asked : r.hash = h
      PROVE  \E r \in sent : r.hash = e.hash
  BY <1>2
<1> QED BY <1>1, <1>2 DEF BranchRequests

\* However many nodes and branches there are, each branch that is missing is asked
\* for when SendBranchRequest runs.
THEOREM BranchesAreAsked == Spec => EveryBranchAsked
<1> DEFINE Asked ==
      \A n \in Node : syncs'[n] < syncs[n] /\ faults' = faults =>
        \A e \in Holders(st[n]) : \E p \in packets' :
          p.type = "GROUPBRANCH_REQ" /\ p.from = n /\ p.hash = e.hash
<1>1. ASSUME TypeInv, [Next]_vars PROVE Asked
  <2> SUFFICES ASSUME NEW n \in Node, syncs'[n] < syncs[n], faults' = faults,
                      NEW e \in Holders(st[n])
               PROVE  \E p \in packets' :
                        p.type = "GROUPBRANCH_REQ" /\ p.from = n /\ p.hash = e.hash
    OBVIOUS
  <2> DEFINE Request(r) == [type |-> "GROUPBRANCH_REQ", from |-> n, to |-> r.node,
                            hash |-> r.hash]
  <2>1. SendBranchRequest(n)
    BY <1>1, SyncsDrop
  <2>2. PICK asked \in BranchRequests(st[n]) :
          Transmit(packets, {Request(r) : r \in asked})
    BY <2>1 DEF SendBranchRequest
  <2> DEFINE sent == {Request(r) : r \in asked}
  <2>3. IsFiniteSet(sent)
    BY <1>1, <2>2, BranchRequestsTyped DEF BranchRequests
  <2>4. PICK r \in asked : r.hash = e.hash
    BY <2>2, RequestsCoverBranches
  <2>5. /\ Request(r) \in sent
        /\ Request(r).type = "GROUPBRANCH_REQ" /\ Request(r).from = n
        /\ Request(r).hash = e.hash
    BY <2>4
  <2>6. Transmit(packets, sent)
    BY <2>2
  <2> HIDE DEF sent
  <2>7. PICK lost \in SUBSET sent : /\ faults' = faults + Cardinality(lost)
                                    /\ packets' = packets \cup (sent \ lost)
    BY <2>6 DEF Transmit
  <2>8. IsFiniteSet(lost) /\ Cardinality(lost) \in Nat
    BY <2>3, <2>7, FS_Subset, FS_CardinalityType
  <2>9. Cardinality(lost) = 0
    BY <1>1, <2>7, <2>8 DEF TypeInv
  <2>10. lost = {}
    BY <2>8, <2>9, FS_EmptySet
  <2> QED BY <2>5, <2>7, <2>10
<1>2. TypeInv /\ [Next]_vars => [Asked]_vars
  BY <1>1
<1> QED BY <1>2, TypesAlways, PTL DEF Spec, EveryBranchAsked

-----------------------------------------------------------------------------
(* Transactions.                                                           *)

\* A node has a transaction in its mempool or in a block, that waits or not.
Keeps(s, t) == t \in s.mempool \/ \E b \in s.blocks \cup s.waiting : t \in dag[b].txns

Carries(p, t) ==
  \/ p.type = "TRANSACTION" /\ p.txn = t
  \/ p.type \in {"BLOCK", "RECV_BLOCK"} /\ t \in dag[p.hash].txns

\* The nodes that have a transaction or will, if no packet to them is lost and no
\* block of theirs is dropped.  One fault takes away one of them.
Keepers(t) ==
  {n \in Node : \/ Keeps(st[n], t)
                \/ \E p \in packets : p.to = n /\ Carries(p, t)
                \/ \E b \in pool : dag[b].leader = n /\ t \in dag[b].txns}

Made(t) == \A n \in Node : t \notin todo[n]

\* Nodes are in their own groups, and those that make a transaction tell it to more
\* nodes than there may be faults.
GroupsTold ==
  \A n \in Node :
    /\ n \in group[n] /\ n \in notified[n]
    /\ todo[n] # {} => Cardinality(group[n]) > MaxFaults /\ Cardinality(notified[n]) > MaxFaults

\* The consensus hands a block to its leader too.
LeadersTold == \A b \in pool : dag[b].leader \in dag[b].group

\* There are more keepers of a transaction than faults to come.
KeptEnough ==
  \A t \in Txn : Made(t) => \/ \E b \in Held : t \in dag[b].txns
                            \/ Cardinality(Keepers(t)) + faults > MaxFaults

KeptInv == GroupsTold /\ LeadersTold /\ KeptEnough

\* A block whose transactions leave the mempool is in the blockgraph.
LEMMA AddBlocksKeep ==
  ASSUME NEW s, IsState(s), NEW added, NEW t,
         Keeps(s, t) \/ \E b \in added : t \in dag[b].txns
  PROVE  Keeps(AddBlocks(s, added), t)
<1> DEFINE r == AddBlocks(s, added)
<1>1. /\ r.blocks = s.blocks \cup added /\ r.waiting = s.waiting
      /\ r.mempool = s.mempool \ UNION {dag[b].txns : b \in added}
  BY AddBlocksFields
<1> HIDE DEF r
<1>2. Keeps(r, t)
  BY <1>1 DEF Keeps
<1> QED BY <1>2 DEF r

LEMMA UpdateWaitingListKeeping ==
  ASSUME NEW s, IsState(s), NEW t, Keeps(s, t)
  PROVE  Keeps(UpdateWaitingList(s), t)
<1> DEFINE ready == Ready(s)
           a == AddBlocks(s, ready)
           r == UpdateWaitingList(s)
<1>1. /\ IsState(a) /\ a.blocks = s.blocks \cup ready /\ a.waiting = s.waiting
  BY AddBlocksFields
<1>2. Keeps(a, t)
  BY AddBlocksKeep
<1>3. r = [a EXCEPT !.waiting = a.waiting \ ready]
  BY DEF UpdateWaitingList
<1> HIDE DEF a, r, ready
<1>4. r.blocks = a.blocks /\ r.waiting = a.waiting \ ready /\ r.mempool = a.mempool
  BY <1>1, <1>3 DEF IsState
<1>5. Keeps(r, t)
  BY <1>1, <1>2, <1>4 DEF Keeps
<1> QED BY <1>5 DEF r

\* A node that treats a block keeps its transactions, and those it had.
LEMMA BlockTreatmentKeeping ==
  ASSUME NEW s, IsState(s), NEW b, NEW t, Keeps(s, t) \/ t \in dag[b].txns
  PROVE  Keeps(BlockTreatment(s, b), t)
<1> DEFINE r == Received(s, b)
<1>1. /\ IsState(r) /\ r.blocks = s.blocks /\ r.waiting = s.waiting
      /\ r.mempool = s.mempool
  BY ReceivedFields
<1>2. Keeps(s, t) => Keeps(r, t)
  BY <1>1 DEF Keeps
<1>3. r = EraseMissingBlock(Treated(s, b), b)
  BY DEF Received
<1> HIDE DEF r
<1>4. CASE b \in s.blocks
  <2>1. /\ Dump(s, b).blocks = s.blocks /\ Dump(s, b).waiting = s.waiting
        /\ Dump(s, b).mempool = s.mempool
    BY DEF IsState, Dump, Treated
  <2>2. Keeps(Dump(s, b), t)
    BY <1>4, <2>1 DEF Keeps
  <2> QED BY <1>4, <2>2 DEF BlockTreatment
<1>5. CASE b \notin s.blocks /\ b \in s.waiting
  <2>1. Keeps(r, t)
    BY <1>1, <1>5 DEF Keeps
  <2> QED BY <1>3, <1>5, <2>1 DEF BlockTreatment, DumpWaiting
<1>6. CASE b \notin s.blocks /\ b \notin s.waiting /\ dag[b].merge
  <2> DEFINE c == ChildlessHashTreatment(r, dag[b].answers)
  <2>1. IsState(c) /\ c.blocks = r.blocks /\ c.waiting = r.waiting /\ c.mempool = r.mempool
    BY <1>1, ChildlessFields
  <2> HIDE DEF c
  <2>2. Keeps(r, t) => Keeps(c, t)
    BY <2>1 DEF Keeps
  <2>3. Keeps(AddBlocks(c, {b}), t)
    BY <1>2, <2>1, <2>2, AddBlocksKeep
  <2>4. TreatMergeBlock(s, b) = AddBlocks(c, {b})
    BY <1>3 DEF TreatMergeBlock, c
  <2> QED BY <1>6, <2>3, <2>4 DEF BlockTreatment
<1>7. CASE /\ b \notin s.blocks /\ b \notin s.waiting /\ ~ dag[b].merge
           /\ FilterNodesNotInBG(s, b) # {}
  <2> DEFINE m == UpdateMissingList(r, FilterNodesNotInBG(s, b), dag[b].leader)
             k == [m EXCEPT !.waiting = m.waiting \cup {b}]
  <2>1. /\ IsState(m) /\ m.blocks = r.blocks /\ m.waiting = r.waiting
        /\ m.mempool = r.mempool
    BY <1>1 DEF UpdateMissingList, IsState
  <2> HIDE DEF m
  <2>2. k.blocks = m.blocks /\ k.waiting = m.waiting \cup {b} /\ k.mempool = m.mempool
    BY <2>1 DEF IsState
  <2>3. KeepWaiting(s, b) = k
    BY <1>3 DEF KeepWaiting, m
  <2> HIDE DEF k
  <2>4. Keeps(k, t)
    BY <1>1, <2>1, <2>2 DEF Keeps
  <2> QED BY <1>7, <2>3, <2>4 DEF BlockTreatment
<1>8. CASE /\ b \notin s.blocks /\ b \notin s.waiting /\ ~ dag[b].merge
           /\ FilterNodesNotInBG(s, b) = {}
  <2> DEFINE a == AddBlocks(r, {b})
  <2>1. IsState(a)
    BY <1>1, AddBlocksFields
  <2>2. Keeps(a, t)
    BY <1>1, <1>2, AddBlocksKeep
  <2>3. AddRegularBlock(s, b) = UpdateWaitingList(a)
    BY <1>3 DEF AddRegularBlock
  <2> HIDE DEF a
  <2>4. Keeps(UpdateWaitingList(a), t)
    BY <2>1, <2>2, UpdateWaitingListKeeping
  <2> QED BY <1>8, <2>3, <2>4 DEF BlockTreatment
<1> QED BY <1>4, <1>5, <1>6, <1>7, <1>8

\* A transaction that is treated is in the mempool, or in a block that was there.
LEMMA TransactionKeeping ==
  ASSUME NEW s, IsState(s), NEW u, NEW t, Keeps(s, t) \/ t = u
  PROVE  Keeps(TransactionsTreatment(s, u), t)
<1> DEFINE r == TransactionsTreatment(s, u)
<1>1. CASE u \in s.mempool \/ IsTxInBG(s.blocks, u)
  BY <1>1 DEF TransactionsTreatment, Keeps, IsTxInBG
<1>2. CASE r = [s EXCEPT !.mempool = s.mempool \cup {u}]
  <2> HIDE DEF r
  <2>1. r.blocks = s.blocks /\ r.waiting = s.waiting /\ r.mempool = s.mempool \cup {u}
    BY <1>2 DEF IsState
  <2>2. Keeps(r, t)
    BY <2>1 DEF Keeps
  <2> QED BY <2>2 DEF r
<1> QED BY <1>1, <1>2 DEF TransactionsTreatment

\* Blocks are only made, and blockgraphs only grow.
LEMMA NetworkGrows ==
  ASSUME Inv, [Next]_vars
  PROVE  DagGrows /\ Held \subseteq Held'
<1>1. Step
  BY NextIsStep
<1>2. DagGrows
  BY <1>1, NewBlockFields DEF Step, DagStep, DagGrows
<1>3. \A m \in Node : st[m].blocks \subseteq st'[m].blocks
  BY <1>1 DEF Inv, NodesGood, Step, NodeStep
<1> QED BY <1>2, <1>3 DEF Held

\* Nodes keep what they have, and what is under way arrives or stays under way.
NodesKeep(t) == \A n \in Node : Keeps(st[n], t) => n \in Keepers(t)'

PacketsKeep(t) ==
  \A p \in packets : Carries(p, t) => p \in packets' \/ p.to \in Keepers(t)'

PoolKeeps(t) == \A b \in pool : t \in dag[b].txns => b \in pool' \/ dag[b].leader \in Keepers(t)'

LEMMA AllKeep ==
  ASSUME TypeInv, DagGrows, NEW t, NodesKeep(t), PacketsKeep(t), PoolKeeps(t)
  PROVE  Keepers(t) \subseteq Keepers(t)'
<1> SUFFICES ASSUME NEW n \in Keepers(t) PROVE n \in Keepers(t)'
  OBVIOUS
<1>1. n \in Node
  BY DEF Keepers
<1>2. CASE Keeps(st[n], t)
  BY <1>1, <1>2 DEF NodesKeep
<1>3. CASE \E p \in packets : p.to = n /\ Carries(p, t)
  <2>1. PICK p \in packets : p.to = n /\ Carries(p, t)
    BY <1>3
  <2>2. CASE p \in packets'
    <3>1. Carries(p, t)'
      BY <2>1 DEF Carries, DagGrows, TypeInv, PacketOK
    <3> QED BY <1>1, <2>1, <2>2, <3>1 DEF Keepers
  <2> QED BY <2>1, <2>2 DEF PacketsKeep
<1>4. CASE \E b \in pool : dag[b].leader = n /\ t \in dag[b].txns
  <2>1. PICK b \in pool : dag[b].leader = n /\ t \in dag[b].txns
    BY <1>4
  <2>2. dag'[b] = dag[b]
    BY DEF DagGrows, TypeInv
  <2> QED BY <1>1, <2>1, <2>2 DEF Keepers, PoolKeeps
<1> QED BY <1>2, <1>3, <1>4 DEF Keepers

\* The lists of one node change and keep the transaction.
LEMMA ListsKeep ==
  ASSUME TypeInv, DagGrows, NEW n \in Node, NEW s, Known(s), NEW t,
         st' = [st EXCEPT ![n] = s], Keeps(st[n], t) => Keeps(s, t)
  PROVE  NodesKeep(t) /\ (Keeps(s, t) => n \in Keepers(t)')
<1>1. ASSUME NEW r, Known(r), Keeps(r, t), NEW m \in Node, st'[m] = r
      PROVE  m \in Keepers(t)'
  <2>1. Keeps(st[m], t)'
    BY <1>1 DEF Keeps, Known, DagGrows
  <2> QED BY <2>1 DEF Keepers
<1>2. st'[n] = s
  BY DEF TypeInv, Inv, NodesGood
<1>3. ASSUME NEW m \in Node, Keeps(st[m], t) PROVE m \in Keepers(t)'
  <2>1. Known(st[m])
    BY DEF TypeInv, Inv, NodesGood, Good
  <2>2. CASE m = n
    BY <1>1, <1>2, <1>3, <2>2
  <2>3. CASE m # n
    <3>1. st'[m] = st[m]
      BY <2>3
    <3> QED BY <1>1, <1>3, <2>1, <3>1
  <2> QED BY <2>2, <2>3
<1>4. Keeps(s, t) => n \in Keepers(t)'
  BY <1>1, <1>2
<1> QED BY <1>3, <1>4 DEF NodesKeep

LEMMA SameNodesKeep ==
  ASSUME TypeInv, DagGrows, st' = st, NEW t
  PROVE  NodesKeep(t)
<1> SUFFICES ASSUME NEW m \in Node, Keeps(st[m], t) PROVE m \in Keepers(t)'
  BY DEF NodesKeep
<1>1. Known(st[m])
  BY DEF TypeInv, Inv, NodesGood, Good
<1>2. Keeps(st[m], t)'
  BY <1>1 DEF Keeps, Known, DagGrows
<1> QED BY <1>2 DEF Keepers

\* The lists that hold transactions do not change.
LEMMA SameListsKeep ==
  ASSUME TypeInv, DagGrows, NEW n \in Node, NEW s, st' = [st EXCEPT ![n] = s],
         s.blocks = st[n].blocks, s.waiting = st[n].waiting, s.mempool = st[n].mempool,
         NEW t
  PROVE  NodesKeep(t)
<1>1. Known(s)
  BY DEF TypeInv, Inv, NodesGood, Good, Known
<1>2. Keeps(st[n], t) => Keeps(s, t)
  BY DEF Keeps
<1> QED BY <1>1, <1>2, ListsKeep

\* A block that is made takes transactions out of the mempool of its leader, who is
\* told of it by the consensus.
LEMMA GenerateKeeping ==
  ASSUME TypeInv, DagGrows, GroupsTold, LeadersTold, NEW n \in Node, NEW s, IsState(s),
         s.blocks = st[n].blocks, s.waiting = st[n].waiting, s.mempool = st[n].mempool,
         NEW mergeBlock \in BOOLEAN, GenerateBlocks(n, s, mergeBlock)
  PROVE  LeadersTold' /\ \A t : NodesKeep(t) /\ PoolKeeps(t)
<1>1. PICK x, r : /\ NewBlock(x) /\ x.leader = n /\ x.group = group[n]
                  /\ st' = [st EXCEPT ![n] = r]
                  /\ r.blocks = s.blocks /\ r.waiting = s.waiting
                  /\ s.mempool \subseteq r.mempool \cup x.txns
  <2>1. CASE /\ NewBlock(GenerateMergeBlock(s, n, group[n], GetNodesFromOldGroup(n)))
             /\ st' = [st EXCEPT ![n] = s]
    <3> DEFINE x == GenerateMergeBlock(s, n, group[n], GetNodesFromOldGroup(n))
    <3>1. x.leader = n /\ x.group = group[n]
      BY DEF GenerateMergeBlock
    <3>2. NewBlock(x)
      BY <2>1
    <3> HIDE DEF x
    <3> QED BY <2>1, <3>1, <3>2
  <2>2. CASE \E txns \in SelectTransactions(s) :
               /\ NewBlock(GenerateRegularBlock(s, n, group[n], groupId_register[n], txns))
               /\ st' = [st EXCEPT ![n] = [s EXCEPT !.mempool = @ \ txns]]
    <3>1. PICK txns :
            /\ NewBlock(GenerateRegularBlock(s, n, group[n], groupId_register[n], txns))
            /\ st' = [st EXCEPT ![n] = [s EXCEPT !.mempool = s.mempool \ txns]]
      BY <2>2
    <3> DEFINE x == GenerateRegularBlock(s, n, group[n], groupId_register[n], txns)
               r == [s EXCEPT !.mempool = s.mempool \ txns]
    <3>2. x.leader = n /\ x.group = group[n] /\ x.txns = txns
      BY DEF GenerateRegularBlock
    <3>3. /\ r.blocks = s.blocks /\ r.waiting = s.waiting
          /\ r.mempool = s.mempool \ txns
      BY DEF IsState
    <3>4. NewBlock(x) /\ st' = [st EXCEPT ![n] = r]
      BY <3>1
    <3> HIDE DEF x, r
    <3> QED BY <3>2, <3>3, <3>4
  <2> QED BY <2>1, <2>2 DEF GenerateBlocks
<1>2. PICK h : /\ h \notin DOMAIN dag /\ DOMAIN dag' = DOMAIN dag \cup {h} /\ dag'[h] = x
  BY <1>1, NewBlockFields
<1>3. pool' = pool \cup {h}
  BY <1>2 DEF GenerateBlocks
<1>4. \A b \in pool : dag'[b] = dag[b]
  BY DEF TypeInv, DagGrows
<1>5. LeadersTold'
  <2>1. group' = group => n \in group[n]
    BY DEF GroupsTold
  <2>2. n \in group[n]
    BY DEF GroupsTold
  <2>3. \A b \in pool : dag'[b].leader \in dag'[b].group
    BY <1>4 DEF LeadersTold
  <2> QED BY <1>1, <1>2, <1>3, <2>2, <2>3 DEF LeadersTold
<1>6. ASSUME NEW t PROVE NodesKeep(t)
  <2>1. CASE t \in x.txns
    <3>1. n \in Keepers(t)'
      BY <1>1, <1>2, <1>3, <2>1 DEF Keepers
    <3>2. ASSUME NEW m \in Node, Keeps(st[m], t), m # n PROVE m \in Keepers(t)'
      <4>1. st'[m] = st[m]
        BY <1>1, <3>2
      <4>2. Known(st[m])
        BY DEF TypeInv, Inv, NodesGood, Good
      <4>3. Keeps(st[m], t)'
        BY <3>2, <4>1, <4>2 DEF Keeps, Known, DagGrows
      <4> QED BY <4>3 DEF Keepers
    <3> QED BY <3>1, <3>2 DEF NodesKeep
  <2>2. CASE t \notin x.txns
    <3>1. Known(r)
      BY <1>1 DEF TypeInv, Inv, NodesGood, Good, Known
    <3>2. Keeps(st[n], t) => Keeps(r, t)
      BY <1>1, <2>2 DEF Keeps
    <3>3. st' = [st EXCEPT ![n] = r]
      BY <1>1
    <3> QED BY <3>1, <3>2, <3>3, ListsKeep
  <2> QED BY <2>1, <2>2
<1>7. \A t : PoolKeeps(t)
  BY <1>3 DEF PoolKeeps
<1> QED BY <1>5, <1>6, <1>7

\* A step takes a transaction from nobody, or is a fault and takes it from one node.
Spares(t) ==
  \/ Keepers(t) \subseteq Keepers(t)'
  \/ faults < faults' /\ \E n : Keepers(t) \ {n} \subseteq Keepers(t)'

\* What is under way stays so, when packets are sent.
LEMMA TransmitKeeps ==
  ASSUME NEW rest, NEW sent, Transmit(rest, sent)
  PROVE  rest \subseteq packets'
BY DEF Transmit

\* Packets that carry no transaction may go.
LEMMA OtherPacketsKeep ==
  ASSUME \A p \in packets :
           p \in packets' \/ p.type \notin {"TRANSACTION", "BLOCK", "RECV_BLOCK"},
         NEW t
  PROVE  PacketsKeep(t)
BY DEF PacketsKeep, Carries

\* A block that is committed goes to its leader too, unless the packet is lost.
LEMMA CommitSpares ==
  ASSUME TypeInv, DagGrows, LeadersTold, NEW b \in pool, Commit(b), NEW t
  PROVE  Spares(t)
<1> DEFINE to(n) == [type |-> "RECV_BLOCK", to |-> n, hash |-> b]
           sent == {to(n) : n \in dag[b].group}
           leader == dag[b].leader
<1>1. b \in DOMAIN dag /\ dag[b].group \subseteq Node /\ leader \in dag[b].group
  BY DEF TypeInv, BlockType, LeadersTold
<1>2. sent \subseteq [type : {"RECV_BLOCK"}, to : Node, hash : DOMAIN dag]
  BY <1>1
<1>3. IsFiniteSet(DOMAIN dag)
  BY NetworkConstants, FS_Subset DEF TypeInv, Inv, DagFounded
<1>4. Transmit(packets, sent) /\ pool' = pool \ {b} /\ st' = st /\ dag' = dag
  BY DEF Commit
<1>5. to(leader) \in sent
  BY <1>1
<1>6. to(leader).to = leader /\ to(leader).type = "RECV_BLOCK" /\ to(leader).hash = b
  OBVIOUS
<1> HIDE DEF sent, to
<1>7. IsFiniteSet(sent)
  BY <1>2, <1>3, FewPackets, NetworkConstants
<1>8. PICK lost \in SUBSET sent : /\ faults' = faults + Cardinality(lost)
                                  /\ packets' = packets \cup (sent \ lost)
  BY <1>4 DEF Transmit
<1>9. NodesKeep(t) /\ PacketsKeep(t)
  BY <1>4, <1>8, SameNodesKeep DEF PacketsKeep
<1>10. CASE to(leader) \notin lost
  <2>1. to(leader) \in packets'
    BY <1>5, <1>8, <1>10
  <2>2. t \in dag[b].txns => leader \in Keepers(t)'
    BY <1>1, <1>4, <1>6, <2>1 DEF Keepers, Carries
  <2>3. PoolKeeps(t)
    BY <1>4, <2>2 DEF PoolKeeps
  <2> QED BY <1>9, <2>3, AllKeep DEF Spares
<1>11. CASE to(leader) \in lost
  <2>1. IsFiniteSet(lost) /\ Cardinality(lost) \in Nat /\ Cardinality(lost) # 0
    BY <1>7, <1>8, <1>11, FS_Subset, FS_CardinalityType, FS_EmptySet
  <2>2. faults < faults'
    BY <1>8, <2>1 DEF TypeInv
  <2>3. Keepers(t) \ {leader} \subseteq Keepers(t)'
    <3> SUFFICES ASSUME NEW n \in Keepers(t), n # leader PROVE n \in Keepers(t)'
      OBVIOUS
    <3>1. n \in Node
      BY DEF Keepers
    <3>2. CASE Keeps(st[n], t)
      BY <1>9, <3>1, <3>2 DEF NodesKeep
    <3>3. CASE \E p \in packets : p.to = n /\ Carries(p, t)
      <4>1. \E p \in packets' : p.to = n /\ Carries(p, t)'
        BY <1>4, <1>8, <3>3 DEF Carries
      <4> QED BY <3>1, <4>1 DEF Keepers
    <3>4. CASE \E c \in pool : dag[c].leader = n /\ t \in dag[c].txns
      BY <1>4, <3>1, <3>4 DEF Keepers
    <3> QED BY <3>2, <3>3, <3>4 DEF Keepers
  <2> QED BY <2>2, <2>3 DEF Spares
<1> QED BY <1>10, <1>11

\* A block that is dropped takes its transactions from its leader.
LEMMA DropSpares ==
  ASSUME TypeInv, NEW b \in pool, DropBlock(b), NEW t
  PROVE  Spares(t)
<1>1. /\ pool' = pool \ {b} /\ faults' = faults + 1
      /\ st' = st /\ dag' = dag /\ packets' = packets
  BY DEF DropBlock
<1>2. faults < faults'
  BY <1>1 DEF TypeInv
<1>3. Keepers(t) \ {dag[b].leader} \subseteq Keepers(t)'
  BY <1>1 DEF Keepers, Keeps, Carries
<1> QED BY <1>2, <1>3 DEF Spares

SparingStep == LeadersTold' /\ \A t : Spares(t)

LEMMA NextSpares == TypeInv /\ GroupsTold /\ LeadersTold /\ [Next]_vars => SparingStep
<1> SUFFICES ASSUME TypeInv, GroupsTold, LeadersTold, [Next]_vars PROVE SparingStep
  OBVIOUS
<1> USE DEF SparingStep
<1>0. DagGrows
  BY NetworkGrows DEF TypeInv
<1>1. UNCHANGED <<dag, pool>> => LeadersTold' /\ \A t : PoolKeeps(t)
  BY DEF LeadersTold, PoolKeeps
<1>3. packets \subseteq packets' => \A t : PacketsKeep(t)
  BY DEF PacketsKeep
<1>4. st' = st => \A t : NodesKeep(t)
  BY <1>0, SameNodesKeep
<1>5. \A t : NodesKeep(t) /\ PacketsKeep(t) /\ PoolKeeps(t) => Spares(t)
  BY <1>0, AllKeep DEF Spares
<1>6. \A n \in Node : IsState(st[n]) /\ Known(st[n]) /\ Good(st[n])
  BY DEF TypeInv, Inv, NodesGood, Good
<1>10. ASSUME NEW n \in Node, NEW u \in Txn,
              GenerateTransaction(n, u) \/ ReceiveTransaction(n, u)
       PROVE  SparingStep
  <2> DEFINE s == TransactionsTreatment(st[n], u)
  <2>1. st' = [st EXCEPT ![n] = s] /\ UNCHANGED <<dag, pool>>
    BY <1>10 DEF GenerateTransaction, ReceiveTransaction
  <2>2. \A t : Keeps(st[n], t) \/ t = u => Keeps(s, t)
    BY <1>6, TransactionKeeping
  <2>3. Known(s)
    <3>1. s = st[n] \/ s = [st[n] EXCEPT !.mempool = st[n].mempool \cup {u}]
      BY DEF TransactionsTreatment
    <3> HIDE DEF s
    <3>2. s.blocks = st[n].blocks /\ s.waiting = st[n].waiting
      BY <1>6, <3>1 DEF IsState
    <3> QED BY <1>6, <3>2 DEF Known
  <2> HIDE DEF s
  <2>4. \A t : NodesKeep(t)
    BY <1>0, <2>1, <2>2, <2>3, ListsKeep
  <2>5. n \in Keepers(u)'
    BY <1>0, <2>1, <2>2, <2>3, ListsKeep
  <2>6. \A t : PacketsKeep(t)
    <3>1. CASE GenerateTransaction(n, u)
      BY <1>3, <3>1, TransmitKeeps DEF GenerateTransaction
    <3>2. CASE ReceiveTransaction(n, u)
      BY <2>5, <3>2 DEF ReceiveTransaction, PacketsKeep, Carries
    <3> QED BY <1>10, <3>1, <3>2
  <2> QED BY <1>1, <1>5, <2>1, <2>4, <2>6
<1>11. ASSUME NEW n \in Node, NEW b \in DOMAIN dag, ReceiveBlock(n, b) PROVE SparingStep
  <2> DEFINE s == BlockTreatment(st[n], b)
  <2>1. PICK p \in packets : /\ p.type \in {"BLOCK", "RECV_BLOCK"} /\ p.to = n /\ p.hash = b
                             /\ packets' = packets \ {p}
                             /\ st' = [st EXCEPT ![n] = s] /\ UNCHANGED <<dag, pool>>
    BY <1>11 DEF ReceiveBlock
  <2>2. \A t : Keeps(st[n], t) \/ t \in dag[b].txns => Keeps(s, t)
    BY <1>6, BlockTreatmentKeeping
  <2>3. Known(s)
    BY <1>6, BlockTreatmentKeeps DEF Good
  <2> HIDE DEF s
  <2>4. \A t : NodesKeep(t) /\ (Keeps(s, t) => n \in Keepers(t)')
    BY <1>0, <2>1, <2>2, <2>3, ListsKeep
  <2>5. \A t : PacketsKeep(t)
    BY <2>1, <2>2, <2>4 DEF PacketsKeep, Carries
  <2> QED BY <1>1, <1>5, <2>1, <2>4, <2>5
<1>12. ASSUME NEW n \in Node, NEW b \in DOMAIN dag,
              SendBlockTo(n, b) \/ SendBranch4Sync(n, b)
       PROVE  SparingStep
  <2>1. PICK p \in packets : /\ p.type \in {"REQUEST_BLOCK", "GROUPBRANCH_REQ"}
                             /\ \E sent : Transmit(packets \ {p}, sent)
    <3>1. CASE SendBlockTo(n, b)
      BY <3>1 DEF SendBlockTo
    <3>2. CASE SendBranch4Sync(n, b)
      BY <3>2 DEF SendBranch4Sync
    <3> QED BY <1>12, <3>1, <3>2
  <2>2. \A t : PacketsKeep(t)
    BY <2>1, TransmitKeeps, OtherPacketsKeep
  <2> QED BY <1>1, <1>4, <1>5, <1>12, <2>2 DEF SendBlockTo, SendBranch4Sync
<1>13. ASSUME NEW n \in Node, RecurrentTasks(n) \/ SendBranchRequest(n) PROVE SparingStep
  <2>1. packets \subseteq packets'
    BY <1>13, TransmitKeeps DEF RecurrentTasks, SendBranchRequest
  <2> QED BY <1>1, <1>3, <1>4, <1>5, <1>13, <2>1 DEF RecurrentTasks, SendBranchRequest
<1>14. ASSUME NEW n \in Node, TestBlockCreation(n) PROVE SparingStep
  <2>1. GenerateBlocks(n, st[n], FALSE) /\ packets' = packets
    BY <1>14 DEF TestBlockCreation, netVars
  <2>2. LeadersTold' /\ \A t : NodesKeep(t) /\ PoolKeeps(t)
    BY <1>0, <1>6, <2>1, GenerateKeeping
  <2> QED BY <1>3, <1>5, <2>1, <2>2
<1>15. ASSUME NEW n \in Node, UpdateTopologyInfo(n) PROVE SparingStep
  <2> DEFINE s == [st[n] EXCEPT !.recover = {}]
  <2>1. st' = [st EXCEPT ![n] = s] /\ packets' = packets /\ UNCHANGED <<dag, pool>>
    BY <1>15 DEF UpdateTopologyInfo, netVars
  <2>2. s.blocks = st[n].blocks /\ s.waiting = st[n].waiting /\ s.mempool = st[n].mempool
    BY <1>6 DEF IsState
  <2> HIDE DEF s
  <2>3. \A t : NodesKeep(t)
    BY <1>0, <2>1, <2>2, SameListsKeep
  <2> QED BY <1>1, <1>3, <1>5, <2>1, <2>3
<1>16. ASSUME NEW n \in Node, ScheduledStartMerge(n) \/ BecomeLeader(n) PROVE SparingStep
  <2>1. packets \subseteq packets' /\ \A t : NodesKeep(t)
    <3>1. CASE UNCHANGED <<st, netVars>>
      BY <1>4, <3>1 DEF netVars
    <3>2. CASE /\ st' = [st EXCEPT ![n] = [@ EXCEPT !.createBlock = FALSE]]
               /\ Ask4ChildlessHashes(n)
      <4> DEFINE s == [st[n] EXCEPT !.createBlock = FALSE]
      <4>1. st' = [st EXCEPT ![n] = s]
        BY <3>2
      <4>2. /\ s.blocks = st[n].blocks /\ s.waiting = st[n].waiting
            /\ s.mempool = st[n].mempool
        BY <1>6, CreateBlockFields
      <4> HIDE DEF s
      <4>3. \A t : NodesKeep(t)
        BY <1>0, <4>1, <4>2, SameListsKeep
      <4>4. packets \subseteq packets'
        BY <3>2, TransmitKeeps DEF Ask4ChildlessHashes
      <4> QED BY <4>3, <4>4
    <3> QED BY <1>16, <3>1, <3>2 DEF ScheduledStartMerge, BecomeLeader, StartMerge
  <2> QED BY <1>1, <1>3, <1>5, <1>16, <2>1 DEF ScheduledStartMerge, BecomeLeader
<1>17. ASSUME NEW n \in Node, SendChildlessHashes(n) PROVE SparingStep
  <2>1. PICK p \in packets : /\ p.type = "CHILDLESSBLOCK_REQ"
                             /\ \E sent : Transmit(packets \ {p}, sent)
    BY <1>17 DEF SendChildlessHashes
  <2>2. \A t : PacketsKeep(t)
    BY <2>1, TransmitKeeps, OtherPacketsKeep
  <2> QED BY <1>1, <1>4, <1>5, <1>17, <2>2 DEF SendChildlessHashes
<1>18. ASSUME NEW n \in Node, ProcessChildlessResponse(n) PROVE SparingStep
  <2>1. PICK p, answers :
          /\ p \in packets /\ p.type = "CHILDLESSBLOCK_REP" /\ packets' = packets \ {p}
          /\ \/ /\ st' = [st EXCEPT ![n] = ChildlessHashTreatment(st[n], answers)]
                /\ UNCHANGED <<dag, pool>>
             \/ GenerateBlocks(n, [ChildlessHashTreatment(st[n], answers)
                                     EXCEPT !.createBlock = TRUE], TRUE)
    BY <1>18 DEF ProcessChildlessResponse
  <2> DEFINE s == ChildlessHashTreatment(st[n], answers)
             c == [s EXCEPT !.createBlock = TRUE]
  <2>2. \A t : PacketsKeep(t)
    BY <2>1, OtherPacketsKeep
  <2>3. /\ IsState(s) /\ s.blocks = st[n].blocks /\ s.waiting = st[n].waiting
        /\ s.mempool = st[n].mempool
    BY <1>6, ChildlessFields
  <2>4. \/ st' = [st EXCEPT ![n] = s] /\ UNCHANGED <<dag, pool>>
        \/ GenerateBlocks(n, c, TRUE)
    BY <2>1
  <2> HIDE DEF s
  <2>5. CASE st' = [st EXCEPT ![n] = s] /\ UNCHANGED <<dag, pool>>
    <3>1. \A t : NodesKeep(t)
      BY <1>0, <2>3, <2>5, SameListsKeep
    <3> QED BY <1>1, <1>5, <2>2, <2>5, <3>1
  <2>6. CASE GenerateBlocks(n, c, TRUE)
    <3>1. /\ IsState(c) /\ c.blocks = s.blocks /\ c.waiting = s.waiting
          /\ c.mempool = s.mempool
      BY <2>3, CreateBlockFields
    <3> HIDE DEF c
    <3>2. LeadersTold' /\ \A t : NodesKeep(t) /\ PoolKeeps(t)
      BY <1>0, <2>3, <2>6, <3>1, GenerateKeeping
    <3> QED BY <1>5, <2>2, <3>2
  <2> QED BY <2>4, <2>5, <2>6
<1>19. ASSUME NEW n \in Node, timer_childless_fct(n) PROVE SparingStep
  <2> DEFINE c == [st[n] EXCEPT !.createBlock = TRUE]
  <2>1. packets' = packets
    BY <1>19 DEF timer_childless_fct, netVars
  <2>2. CASE UNCHANGED <<dag, st, pool>>
    BY <1>1, <1>3, <1>4, <1>5, <2>1, <2>2
  <2>3. CASE GenerateBlocks(n, c, TRUE)
    <3>1. /\ IsState(c) /\ c.blocks = st[n].blocks /\ c.waiting = st[n].waiting
          /\ c.mempool = st[n].mempool
      BY <1>6, CreateBlockFields
    <3> HIDE DEF c
    <3>2. LeadersTold' /\ \A t : NodesKeep(t) /\ PoolKeeps(t)
      BY <1>0, <2>3, <3>1, GenerateKeeping
    <3> QED BY <1>3, <1>5, <2>1, <3>2
  <2> QED BY <1>19, <2>2, <2>3 DEF timer_childless_fct
<1>20. ASSUME NEW t \in Txn, Age(t) PROVE SparingStep
  BY <1>1, <1>3, <1>4, <1>5, <1>20 DEF Age, netVars
<1>21. ASSUME NEW b \in pool, Commit(b) \/ DropBlock(b) PROVE SparingStep
  <2>1. \A t : Spares(t)
    BY <1>0, <1>21, CommitSpares, DropSpares
  <2>2. pool' \subseteq pool /\ dag' = dag
    BY <1>21 DEF Commit, DropBlock
  <2> QED BY <2>1, <2>2 DEF LeadersTold
<1>22. CASE UNCHANGED vars
  BY <1>1, <1>3, <1>4, <1>5, <1>22 DEF vars, netVars
<1> HIDE DEF SparingStep
<1> QED BY <1>10, <1>11, <1>12, <1>13, <1>14, <1>15, <1>16, <1>17, <1>18, <1>19,
           <1>20, <1>21, <1>22 DEF Next

\* Few steps change a group or what is going to be made.
LEMMA GroupsAndPlans ==
  ASSUME [Next]_vars
  PROVE  \/ UNCHANGED <<groupVars, todo>>
         \/ \E n \in Node, t \in Txn : GenerateTransaction(n, t)
         \/ \E n \in Node : UpdateTopologyInfo(n)
<1>1. ASSUME NEW n \in Node, NEW t \in Txn, ReceiveTransaction(n, t)
      PROVE  UNCHANGED <<groupVars, todo>>
  BY <1>1 DEF ReceiveTransaction, txnVars
<1>2. ASSUME NEW n \in Node, NEW b \in DOMAIN dag,
             ReceiveBlock(n, b) \/ SendBlockTo(n, b) \/ SendBranch4Sync(n, b)
      PROVE  UNCHANGED <<groupVars, todo>>
  BY <1>2 DEF ReceiveBlock, SendBlockTo, SendBranch4Sync, txnVars
<1>3. ASSUME NEW n \in Node, RecurrentTasks(n) \/ TestBlockCreation(n)
      PROVE  UNCHANGED <<groupVars, todo>>
  BY <1>3 DEF RecurrentTasks, TestBlockCreation, txnVars
<1>4. ASSUME NEW n \in Node, ScheduledStartMerge(n) \/ BecomeLeader(n)
      PROVE  UNCHANGED <<groupVars, todo>>
  BY <1>4 DEF ScheduledStartMerge, BecomeLeader, txnVars
<1>5. ASSUME NEW n \in Node, SendChildlessHashes(n) \/ ProcessChildlessResponse(n)
      PROVE  UNCHANGED <<groupVars, todo>>
  BY <1>5 DEF SendChildlessHashes, ProcessChildlessResponse, txnVars
<1>6. ASSUME NEW n \in Node, timer_childless_fct(n) \/ SendBranchRequest(n)
      PROVE  UNCHANGED <<groupVars, todo>>
  BY <1>6 DEF timer_childless_fct, SendBranchRequest, txnVars
<1>7. ASSUME NEW t \in Txn, Age(t) PROVE UNCHANGED <<groupVars, todo>>
  BY <1>7 DEF Age
<1>8. ASSUME NEW b \in pool, Commit(b) \/ DropBlock(b) PROVE UNCHANGED <<groupVars, todo>>
  BY <1>8 DEF Commit, DropBlock, txnVars
<1>9. CASE UNCHANGED vars
  BY <1>9 DEF vars, txnVars
<1> QED BY <1>1, <1>2, <1>3, <1>4, <1>5, <1>6, <1>7, <1>8, <1>9 DEF Next

\* What nodes are going to make, and to whom they will tell it, changes little.
LEMMA GroupsStayTold ==
  ASSUME TypeInv, GroupsTold, [Next]_vars
  PROVE  GroupsTold'
<1>1. DOMAIN group = Node /\ todo \in [Node -> SUBSET Txn]
  BY DEF TypeInv, Inv, GroupsOK, OthersOK
<1>2. UNCHANGED <<groupVars, todo>> => GroupsTold'
  BY DEF GroupsTold, groupVars
<1>3. ASSUME NEW n \in Node, NEW t \in Txn, GenerateTransaction(n, t) PROVE GroupsTold'
  <2>1. \A m \in Node : todo'[m] \subseteq todo[m]
    BY <1>1, <1>3 DEF GenerateTransaction
  <2>2. \A m \in Node : todo'[m] # {} => todo[m] # {}
    BY <2>1
  <2> QED BY <1>3, <2>2 DEF GenerateTransaction, groupVars, GroupsTold
<1>4. ASSUME NEW n \in Node, UpdateTopologyInfo(n) PROVE GroupsTold'
  <2>1. \A m \in Node : group'[m] = group[m] \/ group'[m] = notified[m]
    BY <1>1, <1>4 DEF UpdateTopologyInfo
  <2>2. notified' = notified /\ todo' = todo
    BY <1>4 DEF UpdateTopologyInfo, txnVars
  <2> QED BY <2>1, <2>2 DEF GroupsTold
<1> QED BY <1>2, <1>3, <1>4, GroupsAndPlans

\* A transaction that is made: the node that makes it has it, and each other node of
\* its group unless the packet is lost (b4mesh.cc, GenerateTransaction).
LEMMA EnoughWhenMade ==
  ASSUME TypeInv, GroupsTold, [Next]_vars, NEW n \in Node, NEW t \in Txn,
         GenerateTransaction(n, t)
  PROVE  Cardinality(Keepers(t)') + faults' > MaxFaults
<1> DEFINE to(m) == [type |-> "TRANSACTION", to |-> m, txn |-> t]
           sent == Broadcast(n, {t})
           s == TransactionsTreatment(st[n], t)
<1>1. /\ st' = [st EXCEPT ![n] = s] /\ Transmit(packets, sent)
      /\ todo[n] # {} /\ dag' = dag /\ group' = group
  BY DEF GenerateTransaction, groupVars
<1>2. DagGrows
  BY NetworkGrows DEF TypeInv
<1>3. n \in Keepers(t)'
  <2>1. IsState(st[n]) /\ Known(st[n])
    BY DEF TypeInv, Inv, NodesGood, Good
  <2>2. Keeps(s, t)
    BY <2>1, TransactionKeeping
  <2>3. Known(s)
    <3>1. s = st[n] \/ s = [st[n] EXCEPT !.mempool = st[n].mempool \cup {t}]
      BY DEF TransactionsTreatment
    <3> HIDE DEF s
    <3>2. s.blocks = st[n].blocks /\ s.waiting = st[n].waiting
      BY <2>1, <3>1 DEF IsState
    <3> QED BY <2>1, <3>2 DEF Known
  <2> HIDE DEF s
  <2> QED BY <1>1, <1>2, <2>2, <2>3, ListsKeep
<1>4. /\ group[n] \subseteq Node /\ IsFiniteSet(group[n])
      /\ Cardinality(group[n]) \in Nat /\ Cardinality(group[n]) > MaxFaults
  <2>1. group[n] \subseteq Node
    BY DEF TypeInv, Inv, GroupsOK
  <2>2. IsFiniteSet(group[n])
    BY <2>1, NetworkConstants, FS_Subset
  <2> QED BY <1>1, <2>1, <2>2, FS_CardinalityType DEF GroupsTold
<1>5. \A m \in group[n] \ {n} : to(m) \in sent
  BY DEF Broadcast
<1>6. IsFiniteSet(sent)
  BY BroadcastTyped
<1>7. \A p \in sent : \E m \in Node : p = to(m)
  BY <1>4 DEF Broadcast
<1>8. \A m : to(m).to = m /\ to(m).type = "TRANSACTION" /\ to(m).txn = t
  OBVIOUS
<1> HIDE DEF sent, s, to
<1>9. PICK lost \in SUBSET sent : /\ faults' = faults + Cardinality(lost)
                                  /\ packets' = packets \cup (sent \ lost)
  BY <1>1 DEF Transmit
<1>10. IsFiniteSet(lost) /\ Cardinality(lost) \in Nat
  BY <1>6, <1>9, FS_Subset, FS_CardinalityType
<1> DEFINE missed == {p.to : p \in lost}
           kept == Keepers(t)'
<1>11. IsFiniteSet(missed) /\ Cardinality(missed) \in Nat
       /\ Cardinality(missed) <= Cardinality(lost)
  <2> DEFINE f == [p \in lost |-> p.to]
  <2>1. f \in Surjection(lost, missed)
    BY DEF Surjection
  <2> HIDE DEF f, missed
  <2> QED BY <1>10, <2>1, FS_Surjection, FS_CardinalityType
<1>12. group[n] \subseteq kept \cup missed
  <2> SUFFICES ASSUME NEW m \in group[n], m # n, m \notin missed PROVE m \in kept
    BY <1>3
  <2>1. to(m) \in sent /\ to(m) \notin lost
    BY <1>5, <1>8
  <2>2. to(m) \in packets'
    BY <1>9, <2>1
  <2>3. Carries(to(m), t)'
    BY <1>8 DEF Carries
  <2> QED BY <1>4, <1>8, <2>2, <2>3 DEF Keepers
<1>13. IsFiniteSet(kept) /\ Cardinality(kept) \in Nat
  <2>1. kept \subseteq Node
    BY DEF Keepers
  <2> HIDE DEF kept
  <2> QED BY <2>1, NetworkConstants, FS_Subset, FS_CardinalityType
<1> HIDE DEF kept, missed
<1>14. Cardinality(group[n]) <= Cardinality(kept) + Cardinality(missed)
  <2>1. IsFiniteSet(kept \cup missed) /\ IsFiniteSet(kept \cap missed)
    BY <1>11, <1>13, FS_Union, FS_Intersection
  <2>2. Cardinality(kept \cup missed)
          = Cardinality(kept) + Cardinality(missed) - Cardinality(kept \cap missed)
    BY <1>11, <1>13, FS_Union
  <2>3. Cardinality(group[n]) <= Cardinality(kept \cup missed)
    BY <1>12, <2>1, FS_Subset
  <2>4. Cardinality(kept \cap missed) \in Nat /\ Cardinality(kept \cup missed) \in Nat
    BY <2>1, FS_CardinalityType
  <2> QED BY <1>4, <1>11, <1>13, <2>2, <2>3, <2>4
<1>15. faults \in Nat /\ MaxFaults \in Nat
  BY NetworkConstants DEF TypeInv
<1>16. Cardinality(kept) + faults' > MaxFaults
  BY <1>4, <1>9, <1>10, <1>11, <1>13, <1>14, <1>15
<1> QED BY <1>16 DEF kept

\* A fault takes a transaction from one node at most.
LEMMA EnoughStays ==
  ASSUME TypeInv, TypeInv', faults <= faults', NEW t, Spares(t),
         Cardinality(Keepers(t)) + faults > MaxFaults
  PROVE  Cardinality(Keepers(t)') + faults' > MaxFaults
<1> DEFINE now == Keepers(t)
           later == Keepers(t)'
<1>1. now \subseteq Node /\ later \subseteq Node
  BY DEF Keepers
<1>2. faults \in Nat /\ faults' \in Nat /\ MaxFaults \in Nat
  BY NetworkConstants DEF TypeInv
<1>3. \/ now \subseteq later
      \/ faults < faults' /\ \E n : now \ {n} \subseteq later
  BY DEF Spares
<1>4. Cardinality(now) + faults > MaxFaults
  OBVIOUS
<1> HIDE DEF now, later
<1>5. /\ IsFiniteSet(now) /\ IsFiniteSet(later)
      /\ Cardinality(now) \in Nat /\ Cardinality(later) \in Nat
  BY <1>1, NetworkConstants, FS_Subset, FS_CardinalityType
<1>6. CASE now \subseteq later
  <2>1. Cardinality(now) <= Cardinality(later)
    BY <1>5, <1>6, FS_Subset
  <2>2. Cardinality(later) + faults' > MaxFaults
    BY <1>2, <1>4, <1>5, <2>1
  <2> QED BY <2>2 DEF later
<1>7. CASE faults < faults' /\ \E n : now \ {n} \subseteq later
  <2>1. PICK n : now \ {n} \subseteq later
    BY <1>7
  <2>2. IsFiniteSet(now \ {n}) /\ Cardinality(now \ {n}) >= Cardinality(now) - 1
    <3>1. /\ IsFiniteSet(now \ {n})
          /\ Cardinality(now \ {n})
               = IF n \in now THEN Cardinality(now) - 1 ELSE Cardinality(now)
      BY <1>5, FS_RemoveElement
    <3> QED BY <1>5, <3>1
  <2>3. Cardinality(now \ {n}) <= Cardinality(later) /\ Cardinality(now \ {n}) \in Nat
    BY <1>5, <2>1, <2>2, FS_Subset, FS_CardinalityType
  <2>4. Cardinality(later) + faults' > MaxFaults
    BY <1>2, <1>4, <1>5, <1>7, <2>2, <2>3
  <2> QED BY <2>4 DEF later
<1> QED BY <1>3, <1>6, <1>7

\* Only making a transaction takes it off the list of a node.
LEMMA MadeBefore ==
  ASSUME TypeInv, [Next]_vars, NEW t \in Txn, Made(t)',
         \A n \in Node : ~ GenerateTransaction(n, t)
  PROVE  Made(t)
<1>1. todo \in [Node -> SUBSET Txn]
  BY DEF TypeInv, OthersOK
<1>2. UNCHANGED todo => Made(t)
  BY DEF Made
<1>3. ASSUME NEW n \in Node, NEW u \in Txn, GenerateTransaction(n, u) PROVE Made(t)
  <2>1. u # t
    BY <1>3
  <2>2. \A m \in Node : t \in todo[m] => t \in todo'[m]
    BY <1>1, <1>3, <2>1 DEF GenerateTransaction
  <2> QED BY <2>2 DEF Made
<1>4. ASSUME NEW n \in Node, UpdateTopologyInfo(n) PROVE UNCHANGED todo
  BY <1>4 DEF UpdateTopologyInfo, txnVars
<1> QED BY <1>2, <1>3, <1>4, GroupsAndPlans

LEMMA KeptSteps == TypeInv /\ TypeInv' /\ KeptInv /\ [Next]_vars => KeptInv'
<1> SUFFICES ASSUME TypeInv, TypeInv', KeptInv, [Next]_vars PROVE KeptInv'
  OBVIOUS
<1>1. GroupsTold /\ LeadersTold /\ KeptEnough
  BY DEF KeptInv
<1>2. LeadersTold' /\ \A t : Spares(t)
  BY <1>1, NextSpares DEF SparingStep
<1>3. GroupsTold'
  BY <1>1, GroupsStayTold
<1>4. DagGrows /\ Held \subseteq Held' /\ Held \subseteq DOMAIN dag
  BY NetworkGrows, HeldFacts DEF TypeInv
<1>5. faults <= faults'
  BY NextIsTyped DEF TypedStep, TypedPackets
<1>6. ASSUME NEW t \in Txn, Made(t)'
      PROVE  \/ \E b \in Held' : t \in dag'[b].txns
             \/ Cardinality(Keepers(t)') + faults' > MaxFaults
  <2>1. CASE \E n \in Node : GenerateTransaction(n, t)
    BY <1>1, <2>1, EnoughWhenMade
  <2>2. CASE \A n \in Node : ~ GenerateTransaction(n, t)
    <3>1. Made(t)
      BY <1>6, <2>2, MadeBefore
    <3>2. CASE \E b \in Held : t \in dag[b].txns
      BY <1>4, <3>2 DEF DagGrows
    <3>3. CASE Cardinality(Keepers(t)) + faults > MaxFaults
      BY <1>2, <1>5, <3>3, EnoughStays
    <3> QED BY <1>1, <3>1, <3>2, <3>3 DEF KeptEnough
  <2> QED BY <2>1, <2>2
<1> QED BY <1>2, <1>3, <1>6 DEF KeptInv, KeptEnough

LEMMA InitKept == EnoughTold /\ Init => KeptInv
<1> SUFFICES ASSUME EnoughTold, Init PROVE KeptInv
  OBVIOUS
<1>1. PICK i \in InitialNetworks :
        /\ dag = i.dag /\ st = [n \in Node |-> Lists(i.blocks[n])]
        /\ group = i.group /\ notified = i.notified /\ todo = i.todo
        /\ pool = {}
  BY DEF Init
<1>2. GroupsTold /\ LeadersTold
  BY <1>1 DEF EnoughTold, GroupsTold, LeadersTold
<1>3. ASSUME NEW t \in Txn, Made(t) PROVE \E b \in Held : t \in dag[b].txns
  <2>1. PICK n \in Node : \E b \in i.blocks[n] : t \in i.dag[b].txns
    BY <1>1, <1>3 DEF EnoughTold, Made
  <2>2. st[n].blocks = i.blocks[n]
    BY <1>1 DEF Lists
  <2> QED BY <1>1, <2>1, <2>2 DEF Held
<1> QED BY <1>2, <1>3 DEF KeptInv, KeptEnough

\* As long as there are fewer faults than nodes that are told of a transaction, it is
\* not forgotten by all (b4mesh.cc: RegisterTransaction, GenerateBlocks and the
\* treatments of blocks and transactions): each node that was told has it, in its
\* mempool or in a block, or will get it, and only a fault can change this.
THEOREM NoTransactionForgotten == EnoughTold => (Spec => []TransactionsKept)
<1>1. ASSUME TypeInv, KeptInv PROVE TransactionsKept
  <2> SUFFICES ASSUME NEW t \in Txn PROVE IsKept(t)
    BY DEF TransactionsKept
  <2>1. CASE ~ Made(t)
    BY <2>1 DEF Made, IsKept
  <2>2. CASE \E b \in Held : t \in dag[b].txns
    BY <2>2 DEF IsKept
  <2>3. CASE Cardinality(Keepers(t)) + faults > MaxFaults
    <3>1. Keepers(t) # {}
      <4>1. faults \in 0 .. MaxFaults /\ MaxFaults \in Nat
        BY <1>1, NetworkConstants DEF TypeInv
      <4>2. Cardinality({}) = 0
        BY FS_EmptySet
      <4> QED BY <2>3, <4>1, <4>2
    <3>2. PICK n \in Node : \/ Keeps(st[n], t)
                            \/ \E p \in packets : p.to = n /\ Carries(p, t)
                            \/ \E b \in pool : dag[b].leader = n /\ t \in dag[b].txns
      BY <3>1 DEF Keepers
    <3>3. CASE Keeps(st[n], t)
      <4>1. CASE \E b \in st[n].blocks \cup st[n].waiting : t \in dag[b].txns
        <5>1. \A b \in st[n].blocks \cup st[n].waiting :
                b \in Held \cup pool \cup UNION {st[m].waiting : m \in Node}
          BY DEF Held
        <5> QED BY <4>1, <5>1 DEF IsKept
      <4> QED BY <3>3, <4>1 DEF Keeps, IsKept
    <3>4. CASE \E p \in packets : p.to = n /\ Carries(p, t)
      BY <3>4 DEF Carries, IsKept
    <3>5. CASE \E b \in pool : dag[b].leader = n /\ t \in dag[b].txns
      BY <3>5 DEF IsKept
    <3> QED BY <3>2, <3>3, <3>4, <3>5
  <2> QED BY <1>1, <2>1, <2>2, <2>3 DEF KeptInv, KeptEnough
<1>2. EnoughTold => (Init => KeptInv)
  BY InitKept
<1> QED BY <1>1, <1>2, TypesAlways, KeptSteps, PTL DEF Spec
=============================================================================
