---------------------------- MODULE B4Mesh_proofs ----------------------------
(***************************************************************************)
(* What the treatment of blocks keeps true at a node, for every block that *)
(* other nodes may have made and every order of arrival: nothing is in the *)
(* blockgraph before its parents, nothing waits for a block that is not    *)
(* looked for, and no transaction of the mempool is in the blockgraph.     *)
(***************************************************************************)
EXTENDS B4Mesh, Blockgraph_proofs

-----------------------------------------------------------------------------
(* The steps of the node.                                                  *)

Inv == Good(st)

\* The initial state, with the genesis block only.
LEMMA InitHolds == Init => Inv
<1> SUFFICES ASSUME Init PROVE Inv
  OBVIOUS
<1>1. /\ Genesis \in DOMAIN dag /\ dag[Genesis].parents = {}
  BY B4MeshConstants DEF Init
<1>2. /\ st.blocks = {Genesis} /\ st.waiting = {} /\ st.missing = {}
      /\ st.childless = {} /\ st.mempool = {} /\ IsState(st)
  BY DEF Init, IsState
<1> QED BY <1>1, <1>2 DEF Inv, Good, Known, Complete, Requested, Pursued, Fresh

\* A step that changes neither a block nor what the properties look at.
LEMMA SameFields ==
  ASSUME Good(st), UNCHANGED dag, IsState(st'),
         st'.blocks = st.blocks, st'.waiting = st.waiting,
         st'.missing = st.missing, st'.childless = st.childless,
         st'.mempool \subseteq st.mempool
  PROVE  Good(st)'
BY DEF Good, IsState, Known, Complete, Requested, Pursued, Fresh, IsTxInBG, MissingHashes

\* The blocks that are there keep their contents when one is made.
LEMMA NewBlockKeeps ==
  ASSUME NEW s, Good(s), NEW b, NewBlock(b), NEW mempool,
         mempool \subseteq s.mempool, st' = [s EXCEPT !.mempool = mempool]
  PROVE  Good(st)'
<1>1. \A x \in DOMAIN dag : x \in DOMAIN dag' /\ dag'[x] = dag[x]
  BY DEF NewBlock
<1>2. /\ IsState(st') /\ st'.blocks = s.blocks /\ st'.waiting = s.waiting
      /\ st'.missing = s.missing /\ st'.childless = s.childless
      /\ st'.mempool = mempool
  BY DEF Good, IsState
<1>3. IsState(st)' /\ Known(st)' /\ Complete(st)'
  BY <1>1, <1>2 DEF Good, IsState, Known, Complete
<1>4. Requested(st)' /\ Pursued(st)'
  BY <1>1, <1>2 DEF Good, Known, Requested, Pursued, MissingHashes
<1>5. Fresh(st)'
  BY <1>1, <1>2 DEF Good, Known, Fresh, IsTxInBG
<1> QED BY <1>3, <1>4, <1>5 DEF Good

\* Making a block, of either kind.
LEMMA GenerateBlocksKeeps ==
  ASSUME NEW s, Good(s), NEW mergeBlock \in BOOLEAN, GenerateBlocks(s, mergeBlock)
  PROVE  Good(st)'
<1>1. CASE NewBlock(GenerateMergeBlock(s, self, group, GetNodesFromOldGroup)) /\ st' = s
  <2>1. st' = [s EXCEPT !.mempool = s.mempool]
    BY <1>1 DEF Good, IsState
  <2> QED BY <1>1, <2>1, NewBlockKeeps
<1>2. CASE \E txns \in SelectTransactions(s) :
             /\ NewBlock(GenerateRegularBlock(s, self, group, groupId_register, txns))
             /\ st' = [s EXCEPT !.mempool = @ \ txns]
  <2>1. PICK txns : /\ NewBlock(GenerateRegularBlock(s, self, group, groupId_register, txns))
                    /\ st' = [s EXCEPT !.mempool = s.mempool \ txns]
    BY <1>2
  <2> QED BY <2>1, NewBlockKeeps
<1> QED BY <1>1, <1>2 DEF GenerateBlocks

\* StartMerge only touches createBlock.
LEMMA StartMergeKeeps ==
  ASSUME Good(st), UNCHANGED dag, NEW leads, NEW left, StartMerge(leads, left)
  PROVE  Good(st)'
<1>1. CASE UNCHANGED st
  BY <1>1, SameFields DEF Good
<1>2. CASE st' = [st EXCEPT !.createBlock = FALSE]
  BY <1>2, SameFields DEF Good, IsState
<1> QED BY <1>1, <1>2 DEF StartMerge

\* An answer may also lead to a merge block.
LEMMA ResponseKeeps ==
  ASSUME Good(st), NEW n, NEW hashes, ProcessChildlessResponse(n, hashes)
  PROVE  Good(st)'
<1> DEFINE answers == SetToSeq({[hash |-> h, node |-> n] : h \in hashes})
           s == ChildlessHashTreatment(st, answers)
<1>1. Good(s)
  BY ChildlessKeeps
<1> HIDE DEF answers
<1>2. CASE st' = s /\ UNCHANGED dag
  <2> HIDE DEF s
  <2> QED BY <1>1, <1>2 DEF Good, IsState, Known, Complete, Requested, Pursued,
                            Fresh, IsTxInBG, MissingHashes
<1>3. CASE GenerateBlocks([s EXCEPT !.createBlock = TRUE], TRUE)
  <2> HIDE DEF s
  <2> QED BY <1>1, <1>3, CreateBlockFree, GenerateBlocksKeeps
<1> QED BY <1>2, <1>3 DEF ProcessChildlessResponse, answers

\* Every step of the node keeps the four properties.
LEMMA NextKeeps == Inv /\ [Next]_vars => Inv'
<1> SUFFICES ASSUME Good(st), [Next]_vars PROVE Good(st)'
  BY DEF Inv
<1>1. CASE \E b \in DOMAIN dag : ReceiveBlock(b)
  <2>1. PICK b \in DOMAIN dag : ReceiveBlock(b)
    BY <1>1
  <2>2. st' = BlockTreatment(st, b) /\ dag' = dag
    BY <2>1 DEF ReceiveBlock
  <2>3. Good(BlockTreatment(st, b))
    BY BlockTreatmentKeeps
  <2> DEFINE r == BlockTreatment(st, b)
  <2>4. st' = r /\ Good(r)
    BY <2>2, <2>3
  <2> HIDE DEF r
  <2> QED BY <2>2, <2>4 DEF Good, IsState, Known, Complete, Requested, Pursued,
                            Fresh, IsTxInBG, MissingHashes
<1>2. CASE \E t \in Txn : TransactionsTreatment(t)
  <2>1. PICK t \in Txn : TransactionsTreatment(t)
    BY <1>2
  <2>2. /\ st' = [st EXCEPT !.mempool = st.mempool \cup {t}] /\ dag' = dag
        /\ ~ IsTxInBG(st.blocks, t)
    BY <2>1 DEF TransactionsTreatment
  <2>3. /\ IsState(st') /\ st'.blocks = st.blocks /\ st'.waiting = st.waiting
        /\ st'.missing = st.missing /\ st'.childless = st.childless
        /\ st'.mempool = st.mempool \cup {t}
    BY <2>2 DEF Good, IsState
  <2> QED BY <2>2, <2>3 DEF Good, IsState, Known, Complete, Requested, Pursued,
                            Fresh, IsTxInBG, MissingHashes
<1>3. CASE \E nature \in {"MERGE", "OTHER"} : ReceiveNewTopologyInfo(nature)
  BY <1>3, SameFields DEF ReceiveNewTopologyInfo, Good
<1>4. CASE \E g \in Groups : UpdateTopologyInfo(g)
  <2>1. dag' = dag /\ (st' = st \/ st' = [st EXCEPT !.recover = {}])
    BY <1>4 DEF UpdateTopologyInfo
  <2>2. CASE st' = st
    BY <2>1, <2>2, SameFields DEF Good
  <2>3. CASE st' = [st EXCEPT !.recover = {}]
    BY <2>1, <2>3, SameFields DEF Good, IsState
  <2> QED BY <2>1, <2>2, <2>3
<1>5. CASE TestBlockCreation
  BY <1>5, GenerateBlocksKeeps DEF TestBlockCreation
<1>6. CASE ScheduledStartMerge
  BY <1>6, StartMergeKeeps DEF ScheduledStartMerge
<1>7. CASE BecomeLeader
  BY <1>7, StartMergeKeeps, SameFields DEF BecomeLeader, Good
<1>8. CASE LoseLeadership
  BY <1>8, SameFields DEF LoseLeadership, Good
<1>9. CASE \E n \in asked, hashes \in ChildlessLists : ProcessChildlessResponse(n, hashes)
  BY <1>9, ResponseKeeps
<1>10. CASE timer_childless_fct
  <2>1. CASE UNCHANGED <<dag, st>>
    BY <2>1, SameFields DEF Good
  <2>2. CASE GenerateBlocks([st EXCEPT !.createBlock = TRUE], TRUE)
    BY <2>2, CreateBlockFree, GenerateBlocksKeeps
  <2> QED BY <1>10, <2>1, <2>2 DEF timer_childless_fct
<1>11. CASE StopApplication
  BY <1>11, SameFields DEF StopApplication, Good
<1>12. CASE UNCHANGED vars
  BY <1>12, SameFields DEF vars, Good
<1> QED BY <1>1, <1>2, <1>3, <1>4, <1>5, <1>6, <1>7, <1>8, <1>9, <1>10, <1>11, <1>12
        DEF Next

\* The four properties hold in every state.
LEMMA AlwaysGood == Spec => []Inv
<1> QED BY InitHolds, NextKeeps, PTL DEF Spec

\* The blockgraph of a node never holds a regular block without its parents.
THEOREM BlockgraphComplete == Spec => []RegularBlocksComplete
<1>1. Inv => RegularBlocksComplete
  BY DEF Inv, Good, Complete, RegularBlocksComplete
<1> QED BY <1>1, AlwaysGood, PTL

\* A block that waits, waits for blocks that wait too or will be asked for.
THEOREM WaitingIsPursued == Spec => []WaitedForIsRequested
<1>1. Inv => WaitedForIsRequested
  BY DEF Inv, Good, Requested, WaitedForIsRequested
<1> QED BY <1>1, AlwaysGood, PTL

\* A branch to recover is one whose tip is asked for or waits.
THEOREM BranchesPursued == Spec => []MissingBranchPursued
<1>1. Inv => MissingBranchPursued
  BY DEF Inv, Good, Pursued, MissingBranchPursued
<1> QED BY <1>1, AlwaysGood, PTL

\* The mempool holds no transaction of the blockgraph.
THEOREM MempoolStaysFresh == Spec => []MempoolIsFresh
<1>1. Inv => MempoolIsFresh
  BY DEF Inv, Good, Fresh, MempoolIsFresh
<1> QED BY <1>1, AlwaysGood, PTL

-----------------------------------------------------------------------------
(* The node implements GrowingBlockgraph.                                  *)

\* A step that makes no block is one in which the node learns of some, or none.
LEMMA GrowthIsLearn ==
  ASSUME Good(st)', UNCHANGED dag, st.blocks \subseteq st'.blocks
  PROVE  Growing!Learn
BY DEF Good, Known, Complete, Growing!Learn, Growing!IsComplete

\* Blocks of both kinds extend what the node holds.
LEMMA GenerateIsMake ==
  ASSUME NEW s, Good(s), s.blocks = st.blocks,
         NEW mergeBlock \in BOOLEAN, GenerateBlocks(s, mergeBlock)
  PROVE  Growing!Next
<1>1. GetChildlessBlockList(s.blocks) = Growing!Tips
  BY DEF GetChildlessBlockList, Growing!Tips
<1>2. CASE NewBlock(GenerateMergeBlock(s, self, group, GetNodesFromOldGroup)) /\ st' = s
  <2> DEFINE b == GenerateMergeBlock(s, self, group, GetNodesFromOldGroup)
  <2>1. Growing!JoinsAllTips(b)
    BY <1>1 DEF GenerateMergeBlock, Growing!JoinsAllTips
  <2>2. NewBlock(b)
    BY <1>2
  <2> HIDE DEF b
  <2>3. PICK h : /\ h \notin DOMAIN dag
                 /\ DOMAIN dag' = DOMAIN dag \cup {h}
                 /\ \A x \in DOMAIN dag : dag'[x] = dag[x]
                 /\ dag'[h] = b
    BY <2>2, NewBlockFields
  <2> QED BY <1>2, <2>1, <2>3 DEF Growing!Next, Growing!Make
<1>3. CASE \E txns \in SelectTransactions(s) :
             /\ NewBlock(GenerateRegularBlock(s, self, group, groupId_register, txns))
             /\ st' = [s EXCEPT !.mempool = @ \ txns]
  <2>1. PICK txns \in SelectTransactions(s) :
               /\ NewBlock(GenerateRegularBlock(s, self, group, groupId_register, txns))
               /\ st' = [s EXCEPT !.mempool = s.mempool \ txns]
    BY <1>3
  <2> DEFINE b == GenerateRegularBlock(s, self, group, groupId_register, txns)
  <2>2. ~ b.merge /\ b.parents \subseteq Growing!Tips /\ b.txns = txns
    BY <1>1 DEF GenerateRegularBlock
  <2>3. \A t \in txns : ~ Growing!HoldsTransaction(t)
    BY DEF SelectTransactions, Good, Fresh, IsTxInBG, Growing!HoldsTransaction
  <2>4. st'.blocks = st.blocks
    BY <2>1 DEF Good, IsState
  <2>5. NewBlock(b)
    BY <2>1
  <2> HIDE DEF b
  <2>6. Growing!ExtendsTips(b)
    BY <2>2, <2>3 DEF Growing!ExtendsTips
  <2>7. PICK h : /\ h \notin DOMAIN dag
                 /\ DOMAIN dag' = DOMAIN dag \cup {h}
                 /\ \A x \in DOMAIN dag : dag'[x] = dag[x]
                 /\ dag'[h] = b
    BY <2>5, NewBlockFields
  <2> QED BY <2>4, <2>6, <2>7 DEF Growing!Next, Growing!Make
<1> QED BY <1>2, <1>3 DEF GenerateBlocks

\* An answer about tips is forgotten by the abstraction, unless it leads to a
\* merge block.
LEMMA ResponseIsGrowth ==
  ASSUME Good(st), Good(st)', NEW n, NEW hashes, ProcessChildlessResponse(n, hashes)
  PROVE  Growing!Next
<1> DEFINE answers == SetToSeq({[hash |-> h, node |-> n] : h \in hashes})
           s == ChildlessHashTreatment(st, answers)
           c == [s EXCEPT !.createBlock = TRUE]
<1>1. Good(s) /\ s.blocks = st.blocks
  BY ChildlessKeeps, ChildlessFields DEF Good
<1> HIDE DEF answers
<1>2. CASE st' = s /\ UNCHANGED dag
  BY <1>1, <1>2, GrowthIsLearn DEF Growing!Next
<1>3. CASE GenerateBlocks(c, TRUE)
  <2> HIDE DEF s
  <2>1. Good(c) /\ c.blocks = st.blocks
    BY <1>1, CreateBlockFree DEF Good, IsState
  <2> HIDE DEF c
  <2> QED BY <1>3, <2>1, GenerateIsMake
<1> QED BY <1>2, <1>3 DEF ProcessChildlessResponse, answers

\* Every step of the node is one of the abstract specification.
LEMMA StepGrows ==
  ASSUME Good(st), Good(st)', Next
  PROVE  Growing!Next
<1> USE GrowthIsLearn DEF Growing!Next
<1>1. CASE \E b \in DOMAIN dag : ReceiveBlock(b)
  <2>1. PICK b \in DOMAIN dag : ReceiveBlock(b)
    BY <1>1
  <2> QED BY <2>1, BlockTreatmentGrows DEF ReceiveBlock, Good
<1>2. CASE \E t \in Txn : TransactionsTreatment(t)
  BY <1>2 DEF TransactionsTreatment, Good, IsState
<1>3. CASE \E nature \in {"MERGE", "OTHER"} : ReceiveNewTopologyInfo(nature)
  BY <1>3 DEF ReceiveNewTopologyInfo
<1>4. CASE \E g \in Groups : UpdateTopologyInfo(g)
  BY <1>4 DEF UpdateTopologyInfo, Good, IsState
<1>5. CASE TestBlockCreation
  BY <1>5, GenerateIsMake DEF TestBlockCreation
<1>6. CASE ScheduledStartMerge
  BY <1>6 DEF ScheduledStartMerge, StartMerge, Good, IsState
<1>7. CASE BecomeLeader
  BY <1>7 DEF BecomeLeader, StartMerge, Good, IsState
<1>8. CASE LoseLeadership
  BY <1>8 DEF LoseLeadership
<1>9. CASE \E n \in asked, hashes \in ChildlessLists : ProcessChildlessResponse(n, hashes)
  BY <1>9, ResponseIsGrowth
<1>10. CASE timer_childless_fct
  <2> DEFINE c == [st EXCEPT !.createBlock = TRUE]
  <2>1. Good(c) /\ c.blocks = st.blocks
    BY CreateBlockFree DEF Good, IsState
  <2>2. UNCHANGED <<dag, st>> \/ GenerateBlocks(c, TRUE)
    BY <1>10 DEF timer_childless_fct
  <2> HIDE DEF c
  <2> QED BY <2>1, <2>2, GenerateIsMake
<1>11. CASE StopApplication
  BY <1>11 DEF StopApplication
<1> QED BY <1>1, <1>2, <1>3, <1>4, <1>5, <1>6, <1>7, <1>8, <1>9, <1>10, <1>11 DEF Next

\* The blockgraph of a node only grows, from the genesis block, by blocks whose
\* parents are there, and what the node makes extends or joins what it holds.
THEOREM NodeGrowsAsPromised == Spec => GrowsAsPromised
<1>1. Init => Growing!Init
  <2> SUFFICES ASSUME Init PROVE Growing!Init
    OBVIOUS
  <2>1. Genesis \in DOMAIN dag /\ dag[Genesis].parents = {} /\ st.blocks = {Genesis}
    BY B4MeshConstants DEF Init
  <2> QED BY <2>1 DEF Growing!Init, Growing!IsComplete
<1>2. Inv /\ Inv' /\ [Next]_vars => [Growing!Next]_<<dag, st.blocks>>
  <2>1. ASSUME Inv, Inv', Next PROVE Growing!Next
    BY <2>1, StepGrows DEF Inv
  <2>2. ASSUME UNCHANGED vars PROVE UNCHANGED <<dag, st.blocks>>
    BY <2>2 DEF vars
  <2> QED BY <2>1, <2>2
<1> QED BY <1>1, <1>2, AlwaysGood, PTL DEF Spec, GrowsAsPromised, Growing!Spec

-----------------------------------------------------------------------------
(* Types.                                                                  *)

\* A block that names blocks of H only.
BlockOK(b, H) ==
  b \in BlockType /\ b.parents \subseteq H /\ Names(b.answers, H, Node)

ListsOK(s) == Seeks(s, DOMAIN dag, Node) /\ Typed(s, Node, Txn)

\* Each merge starts a timer at most, and each election a call of StartMerge.
EventsOK ==
  /\ running \in BOOLEAN /\ leader \in BOOLEAN /\ startMerge \in BOOLEAN
  /\ group \in Groups \cup {NoGroup} /\ previous_group \in Groups \cup {NoGroup}
  /\ groupId_register \subseteq Groups /\ lastChange \in {"MERGE", "OTHER"}
  /\ asked \subseteq Node \ {self}
  /\ changes \in 0 .. MaxChanges /\ elections \in 0 .. MaxElections
  /\ polls \in 0 .. elections
  /\ timers \in Nat /\ timers + (IF startMerge THEN 1 ELSE 0) <= changes

TypeInv ==
  /\ Inv
  /\ DOMAIN dag \subseteq Hash
  /\ \A h \in DOMAIN dag : BlockOK(dag[h], DOMAIN dag)
  /\ ListsOK(st)
  /\ EventsOK

LEMMA InitTyped == Init => TypeInv
<1> SUFFICES ASSUME Init PROVE TypeInv
  OBVIOUS
<1>1. /\ DOMAIN dag \subseteq Hash
      /\ \A h \in DOMAIN dag :
           /\ dag[h] \in BlockType /\ dag[h].parents \subseteq DOMAIN dag
           /\ \A i \in DOMAIN dag[h].answers : dag[h].answers[i].hash \in DOMAIN dag
  BY B4MeshConstants DEF Init
<1>2. ASSUME NEW h \in DOMAIN dag PROVE Names(dag[h].answers, DOMAIN dag, Node)
  <2> DEFINE P == [hash : Hash, node : Node]
             answers == dag[h].answers
  <2>1. answers \in Seq(P)
    BY <1>1 DEF BlockType
  <2> HIDE DEF P, answers
  <2>2. \A i \in DOMAIN answers : answers[i] \in P
    BY <2>1
  <2> QED BY <1>1, <2>2 DEF Names, P, answers
<1>3. ListsOK(st)
  BY DEF Init, ListsOK, Seeks, Typed
<1>4. EventsOK
  <2>1. /\ changes \in 0 .. MaxChanges /\ elections \in 0 .. MaxElections
        /\ polls \in 0 .. elections /\ timers \in Nat
        /\ timers + (IF startMerge THEN 1 ELSE 0) <= changes
    BY B4MeshConstants DEF Init
  <2> QED BY <2>1 DEF Init, EventsOK
<1> QED BY <1>1, <1>2, <1>3, <1>4, InitHolds DEF TypeInv, BlockOK

DagStep == dag' = dag \/ \E b : NewBlock(b) /\ BlockOK(b, DOMAIN dag)

\* What names the blocks of before names some of the blocks of after.
LEMMA StepKeepsTypes ==
  ASSUME TypeInv, Inv', DagStep, ListsOK(st'), EventsOK'
  PROVE  TypeInv'
<1>1. DOMAIN dag \subseteq DOMAIN dag' /\ DOMAIN dag' \subseteq Hash
  BY NewBlockFields DEF DagStep, NewBlock, TypeInv
<1>2. \A b : BlockOK(b, DOMAIN dag) => BlockOK(b, DOMAIN dag')
  BY <1>1, NamesMore DEF BlockOK
<1>3. \A h \in DOMAIN dag' : BlockOK(dag'[h], DOMAIN dag)
  BY NewBlockFields DEF DagStep, TypeInv
<1>4. \A h \in DOMAIN dag' : BlockOK(dag'[h], DOMAIN dag')
  BY <1>2, <1>3
<1>5. Seeks(st', DOMAIN dag', Node) /\ Typed(st', Node, Txn)
  BY <1>1, SeeksMore DEF ListsOK
<1>6. ListsOK(st)'
  BY <1>5 DEF ListsOK, Seeks, Typed
<1>7. (\A h \in DOMAIN dag : BlockOK(dag[h], DOMAIN dag))'
  BY <1>4 DEF BlockOK, Names, BlockType
<1> QED BY <1>1, <1>6, <1>7 DEF TypeInv

\* A record of lists with the same searches and fewer transactions.
LEMMA SameListsOK ==
  ASSUME NEW s, ListsOK(s), NEW r, r.missing = s.missing, r.childless = s.childless,
         r.recover \subseteq s.recover, r.mempool \subseteq s.mempool,
         r.lastLeader = s.lastLeader, r.createBlock \in BOOLEAN
  PROVE  ListsOK(r)
BY DEF ListsOK, Seeks, Typed

LEMMA CreateBlockOK ==
  ASSUME NEW s, IsState(s), ListsOK(s), NEW c \in BOOLEAN
  PROVE  ListsOK([s EXCEPT !.createBlock = c])
<1> DEFINE r == [s EXCEPT !.createBlock = c]
<1>1. /\ r.missing = s.missing /\ r.childless = s.childless /\ r.recover = s.recover
      /\ r.mempool = s.mempool /\ r.lastLeader = s.lastLeader /\ r.createBlock = c
  BY DEF IsState
<1> HIDE DEF r
<1>2. ListsOK(r)
  BY <1>1, SameListsOK
<1> QED BY <1>2 DEF r

\* A block the node makes names blocks that exist.
LEMMA GenerateOK ==
  ASSUME TypeInv, NEW s, IsState(s), Known(s), ListsOK(s), NEW mergeBlock \in BOOLEAN,
         GenerateBlocks(s, mergeBlock)
  PROVE  ListsOK(st') /\ DagStep
<1> DEFINE H == DOMAIN dag
           before == GetNodesFromOldGroup
           mb == GenerateMergeBlock(s, self, group, before)
<1>1. /\ IsFiniteSet(H) /\ H \subseteq Hash /\ IsFiniteSet(Node) /\ self \in Node
      /\ group \subseteq Node /\ before \subseteq Node /\ s.blocks \subseteq H
  BY B4MeshConstants, FS_Subset
  DEF TypeInv, EventsOK, NoGroup, GetNodesFromOldGroup, Known
<1> HIDE DEF before
<1>2. ASSUME NewBlock(mb) /\ st' = s
      PROVE  ListsOK(st') /\ DagStep
  <2>1. /\ MergeAnswers(s, before) \in Seq([hash : H, node : Node])
        /\ Names(MergeAnswers(s, before), H, Node)
    BY <1>1, MergeAnswersNames DEF ListsOK
  <2>2. MergeAnswers(s, before) \in Seq([hash : Hash, node : Node])
    <3> DEFINE P == [hash : H, node : Node]
               Q == [hash : Hash, node : Node]
    <3>1. P \subseteq Q
      BY <1>1
    <3>2. MergeAnswers(s, before) \in Seq(P)
      BY <2>1
    <3> HIDE DEF P, Q
    <3>3. MergeAnswers(s, before) \in Seq(Q)
      BY <3>1, <3>2
    <3> QED BY <3>3 DEF Q
  <2>3. GetChildlessBlockList(s.blocks) \cup s.childless \subseteq H
    BY <1>1 DEF GetChildlessBlockList, ListsOK, Seeks
  <2>4. BlockOK(mb, H)
    BY <1>1, <2>1, <2>2, <2>3 DEF GenerateMergeBlock, BlockType, BlockOK
  <2> HIDE DEF mb
  <2> QED BY <1>2, <2>4 DEF DagStep
<1>3. ASSUME \E txns \in SelectTransactions(s) :
               /\ NewBlock(GenerateRegularBlock(s, self, group, groupId_register, txns))
               /\ st' = [s EXCEPT !.mempool = @ \ txns]
      PROVE  ListsOK(st') /\ DagStep
  <2>1. PICK txns \in SelectTransactions(s) :
          /\ NewBlock(GenerateRegularBlock(s, self, group, groupId_register, txns))
          /\ st' = [s EXCEPT !.mempool = s.mempool \ txns]
    BY <1>3
  <2> DEFINE rb == GenerateRegularBlock(s, self, group, groupId_register, txns)
             r == [s EXCEPT !.mempool = s.mempool \ txns]
  <2>2. txns \subseteq Txn
    BY DEF SelectTransactions, ListsOK, Typed
  <2>3. rb.parents \subseteq H
    BY <1>1 DEF GenerateRegularBlock, GetChildlessBlockList
  <2>4. \E parents : rb = [leader |-> self, group |-> group, merge |-> FALSE,
                           parents |-> parents, txns |-> txns, answers |-> <<>>]
    BY DEF GenerateRegularBlock
  <2> HIDE DEF rb
  <2>5. BlockOK(rb, H)
    <3>1. PICK parents : rb = [leader |-> self, group |-> group, merge |-> FALSE,
                               parents |-> parents, txns |-> txns, answers |-> <<>>]
      BY <2>4
    <3>2. parents \subseteq H /\ parents \subseteq Hash
      BY <1>1, <2>3, <3>1
    <3>3. <<>> \in Seq([hash : Hash, node : Node]) /\ Names(<<>>, H, Node)
      BY DEF Names
    <3>4. rb \in BlockType
      BY <1>1, <2>2, <3>1, <3>2, <3>3 DEF BlockType
    <3> QED BY <3>1, <3>2, <3>3, <3>4 DEF BlockOK
  <2>6. /\ r.missing = s.missing /\ r.childless = s.childless /\ r.recover = s.recover
        /\ r.mempool \subseteq s.mempool /\ r.lastLeader = s.lastLeader
        /\ r.createBlock = s.createBlock
    BY DEF IsState
  <2> HIDE DEF r
  <2>7. ListsOK(r)
    BY <2>6, SameListsOK DEF ListsOK, Typed
  <2>8. st' = r /\ NewBlock(rb)
    BY <2>1 DEF r, rb
  <2> QED BY <2>5, <2>7, <2>8 DEF DagStep
<1> QED BY <1>2, <1>3 DEF GenerateBlocks, before

\* Answers name tips of blockgraphs, which are blocks that exist.
LEMMA ResponseOK ==
  ASSUME TypeInv, NEW n \in asked, NEW hashes \in ChildlessLists,
         ProcessChildlessResponse(n, hashes)
  PROVE  ListsOK(st') /\ DagStep
<1> DEFINE set == {[hash |-> h, node |-> n] : h \in hashes}
           answers == SetToSeq(set)
           s == ChildlessHashTreatment(st, answers)
           c == [s EXCEPT !.createBlock = TRUE]
<1>1. n \in Node /\ hashes \subseteq DOMAIN dag
  BY DEF TypeInv, EventsOK, ChildlessLists, GetChildlessBlockList
<1>2. set \subseteq [hash : DOMAIN dag, node : Node]
  BY <1>1
<1> HIDE DEF set
<1>3. IsFiniteSet(set)
  BY <1>2, AnswersFinite, B4MeshConstants, FS_Subset DEF TypeInv
<1>4. Names(answers, DOMAIN dag, Node)
  <2>1. answers \in [1 .. Cardinality(set) -> set]
    BY <1>3, SetToSeqRange
  <2> QED BY <1>2, <2>1 DEF Names
<1> HIDE DEF answers
<1>5. IsState(st) /\ Good(st) /\ ListsOK(st)
  BY DEF TypeInv, Inv, Good
<1>6. IsState(s) /\ Known(s) /\ ListsOK(s)
  BY <1>4, <1>5, ChildlessKeeps, ChildlessSeeks, ChildlessTyped DEF Good, ListsOK
<1>7. \/ st' = s /\ UNCHANGED dag
      \/ GenerateBlocks(c, TRUE)
  BY DEF ProcessChildlessResponse, answers, set
<1> HIDE DEF s
<1>8. CASE GenerateBlocks(c, TRUE)
  <2>1. IsState(c) /\ c.blocks = s.blocks /\ c.waiting = s.waiting
    BY <1>6, CreateBlockFields
  <2>2. ListsOK(c)
    BY <1>6, CreateBlockOK
  <2> HIDE DEF c
  <2>3. Known(c)
    BY <1>6, <2>1 DEF Known
  <2> QED BY <1>8, <2>1, <2>2, <2>3, GenerateOK
<1> QED BY <1>6, <1>7, <1>8 DEF DagStep

\* Whether it starts a merge or asks again, a call of StartMerge is used up.
LEMMA StartMergeOK ==
  ASSUME TypeInv, NEW leads, NEW left \in Nat, StartMerge(leads, left),
         UNCHANGED <<group, previous_group>>
  PROVE  /\ ListsOK(st') /\ polls' \in {left, left + 1}
         /\ startMerge' \in BOOLEAN /\ asked' \subseteq Node \ {self}
         /\ timers' \in Nat
         /\ timers' + (IF startMerge' THEN 1 ELSE 0)
              = timers + (IF startMerge THEN 1 ELSE 0)
<1>1. ListsOK(st) /\ IsState(st) /\ GetNewNodes \subseteq Node \ {self}
  BY B4MeshConstants DEF TypeInv, Inv, Good, EventsOK, GetNewNodes, NoGroup
<1>2. CASE /\ startMerge /\ st' = [st EXCEPT !.createBlock = FALSE]
           /\ Ask4ChildlessHashes /\ startMerge' = FALSE /\ polls' = left
  <2>1. ListsOK(st')
    BY <1>1, <1>2, CreateBlockOK
  <2>2. timers \in Nat /\ asked \subseteq Node \ {self}
    BY DEF TypeInv, EventsOK
  <2>3. timers' = timers + 1 /\ asked' = asked \cup GetNewNodes
    BY <1>2 DEF Ask4ChildlessHashes
  <2>4. timers' \in Nat /\ timers' + (IF startMerge' THEN 1 ELSE 0)
                            = timers + (IF startMerge THEN 1 ELSE 0)
    BY <1>2, <2>2, <2>3
  <2> QED BY <1>1, <1>2, <2>1, <2>2, <2>3, <2>4
<1>3. CASE polls' \in {left, left + 1} /\ UNCHANGED <<st, mergeVars>>
  BY <1>1, <1>3 DEF mergeVars, TypeInv, EventsOK
<1> QED BY <1>2, <1>3 DEF StartMerge

\* Every step of the node keeps the types.
LEMMA NextOK == TypeInv /\ [Next]_vars => ListsOK(st') /\ DagStep /\ EventsOK'
<1> SUFFICES ASSUME TypeInv, [Next]_vars PROVE ListsOK(st') /\ DagStep /\ EventsOK'
  OBVIOUS
<1>0. /\ ListsOK(st) /\ IsState(st) /\ Known(st) /\ EventsOK
      /\ st' = st => ListsOK(st')
      /\ dag' = dag => DagStep
  BY DEF TypeInv, Inv, Good, DagStep
<1>1. ASSUME NEW b \in DOMAIN dag, ReceiveBlock(b)
      PROVE  ListsOK(st') /\ DagStep /\ EventsOK'
  <2>1. /\ dag[b].leader \in Node /\ dag[b].parents \subseteq DOMAIN dag
        /\ Names(dag[b].answers, DOMAIN dag, Node)
    BY DEF TypeInv, BlockOK, BlockType
  <2>2. ListsOK(BlockTreatment(st, b))
    BY <1>0, <2>1, BlockTreatmentSeeks, BlockTreatmentTyped DEF ListsOK
  <2>3. EventsOK'
    BY <1>0, <1>1 DEF ReceiveBlock, groupVars, leaderVars, mergeVars, EventsOK
  <2> QED BY <1>0, <1>1, <2>2, <2>3 DEF ReceiveBlock
<1>2. ASSUME NEW t \in Txn, TransactionsTreatment(t)
      PROVE  ListsOK(st') /\ DagStep /\ EventsOK'
  <2>1. st' = [st EXCEPT !.mempool = st.mempool \cup {t}]
    BY <1>2 DEF TransactionsTreatment
  <2>2. /\ st'.missing = st.missing /\ st'.childless = st.childless
        /\ st'.recover = st.recover /\ st'.mempool = st.mempool \cup {t}
        /\ st'.lastLeader = st.lastLeader /\ st'.createBlock = st.createBlock
    BY <1>0, <2>1 DEF IsState
  <2>3. ListsOK(st')
    BY <1>0, <2>2 DEF ListsOK, Seeks, Typed
  <2>4. EventsOK'
    BY <1>0, <1>2 DEF TransactionsTreatment, groupVars, leaderVars, mergeVars, EventsOK
  <2> QED BY <1>0, <1>2, <2>3, <2>4 DEF TransactionsTreatment
<1>3. CASE \E nature \in {"MERGE", "OTHER"} : ReceiveNewTopologyInfo(nature)
  BY <1>0, <1>3 DEF ReceiveNewTopologyInfo, groupVars, leaderVars, mergeVars, EventsOK
<1>4. ASSUME NEW g \in Groups, UpdateTopologyInfo(g)
      PROVE  ListsOK(st') /\ DagStep /\ EventsOK'
  <2>1. ListsOK(st')
    <3>1. CASE st' = [st EXCEPT !.recover = {}]
      <4>1. /\ st'.missing = st.missing /\ st'.childless = st.childless
            /\ st'.recover = {} /\ st'.mempool = st.mempool
            /\ st'.lastLeader = st.lastLeader /\ st'.createBlock = st.createBlock
        BY <1>0, <3>1 DEF IsState
      <4> QED BY <1>0, <4>1, SameListsOK DEF ListsOK, Typed
    <3> QED BY <1>0, <1>4, <3>1 DEF UpdateTopologyInfo
  <2>2. changes' \in 0 .. MaxChanges
    BY <1>0, <1>4, B4MeshConstants DEF UpdateTopologyInfo, EventsOK
  <2>3. startMerge' \in BOOLEAN
        /\ timers' + (IF startMerge' THEN 1 ELSE 0) <= changes'
    BY <1>0, <1>4, B4MeshConstants DEF UpdateTopologyInfo, EventsOK
  <2>4. EventsOK'
    BY <1>0, <1>4, <2>2, <2>3 DEF UpdateTopologyInfo, leaderVars, EventsOK
  <2> QED BY <1>0, <1>4, <2>1, <2>4 DEF UpdateTopologyInfo
<1>5. CASE TestBlockCreation
  <2>1. ListsOK(st') /\ DagStep
    BY <1>0, <1>5, GenerateOK DEF TestBlockCreation
  <2> QED BY <1>0, <1>5, <2>1
          DEF TestBlockCreation, groupVars, leaderVars, mergeVars, EventsOK
<1>6. CASE ScheduledStartMerge
  <2>1. polls \in Nat /\ polls > 0 /\ StartMerge(leader, polls - 1)
        /\ UNCHANGED <<group, previous_group>>
    BY <1>0, <1>6 DEF ScheduledStartMerge, groupVars, EventsOK
  <2>2. polls - 1 \in Nat
    BY <2>1
  <2>3. /\ ListsOK(st') /\ polls' \in {polls - 1, polls}
        /\ startMerge' \in BOOLEAN /\ asked' \subseteq Node \ {self} /\ timers' \in Nat
        /\ timers' + (IF startMerge' THEN 1 ELSE 0)
             = timers + (IF startMerge THEN 1 ELSE 0)
    BY <2>1, <2>2, StartMergeOK
  <2>4. polls' \in 0 .. elections
    BY <1>0, <2>1, <2>3 DEF EventsOK
  <2> QED BY <1>0, <1>6, <2>3, <2>4 DEF ScheduledStartMerge, groupVars, EventsOK
<1>7. CASE BecomeLeader
  <2>1. /\ elections' = elections + 1 /\ elections' \in 0 .. MaxElections
        /\ polls \in Nat /\ polls <= elections /\ elections \in Nat
    BY <1>0, <1>7, B4MeshConstants DEF BecomeLeader, EventsOK
  <2>2. CASE StartMerge(TRUE, polls)
    <3>1. /\ ListsOK(st') /\ polls' \in {polls, polls + 1}
          /\ startMerge' \in BOOLEAN /\ asked' \subseteq Node \ {self} /\ timers' \in Nat
          /\ timers' + (IF startMerge' THEN 1 ELSE 0)
               = timers + (IF startMerge THEN 1 ELSE 0)
      BY <1>7, <2>1, <2>2, StartMergeOK DEF BecomeLeader, groupVars
    <3>2. polls' \in 0 .. elections'
      BY <2>1, <3>1
    <3> QED BY <1>0, <1>7, <2>1, <3>1, <3>2 DEF BecomeLeader, groupVars, EventsOK
  <2>3. CASE UNCHANGED <<st, polls, mergeVars>>
    <3>1. polls' \in 0 .. elections'
      BY <2>1, <2>3
    <3> QED BY <1>0, <1>7, <2>1, <2>3, <3>1
            DEF BecomeLeader, groupVars, mergeVars, EventsOK
  <2> QED BY <1>7, <2>2, <2>3 DEF BecomeLeader
<1>8. CASE LoseLeadership
  BY <1>0, <1>8 DEF LoseLeadership, groupVars, mergeVars, EventsOK
<1>9. ASSUME NEW n \in asked, NEW hashes \in ChildlessLists,
             ProcessChildlessResponse(n, hashes)
      PROVE  ListsOK(st') /\ DagStep /\ EventsOK'
  <2>1. EventsOK'
    BY <1>0, <1>9 DEF ProcessChildlessResponse, groupVars, leaderVars, EventsOK
  <2> QED BY <1>9, <2>1, ResponseOK
<1>10. CASE timer_childless_fct
  <2> DEFINE c == [st EXCEPT !.createBlock = TRUE]
  <2>1. /\ IsState(c) /\ c.blocks = st.blocks /\ c.waiting = st.waiting
    BY <1>0, CreateBlockFields
  <2>2. ListsOK(c)
    BY <1>0, CreateBlockOK
  <2>3. UNCHANGED <<dag, st>> \/ GenerateBlocks(c, TRUE)
    BY <1>10 DEF timer_childless_fct
  <2> HIDE DEF c
  <2>4. Known(c)
    BY <1>0, <2>1 DEF Known
  <2>5. ListsOK(st') /\ DagStep
    BY <1>0, <2>1, <2>2, <2>3, <2>4, GenerateOK
  <2>6. /\ timers' \in Nat
        /\ timers' + (IF startMerge' THEN 1 ELSE 0) <= changes'
    BY <1>0, <1>10, B4MeshConstants DEF timer_childless_fct, groupVars, EventsOK
  <2> QED BY <1>0, <1>10, <2>5, <2>6
          DEF timer_childless_fct, groupVars, leaderVars, EventsOK
<1>11. CASE StopApplication
  BY <1>0, <1>11 DEF StopApplication, groupVars, leaderVars, mergeVars, EventsOK
<1>12. CASE UNCHANGED vars
  BY <1>0, <1>12 DEF vars, groupVars, leaderVars, mergeVars, EventsOK
<1> QED BY <1>1, <1>2, <1>3, <1>4, <1>5, <1>6, <1>7, <1>8, <1>9, <1>10, <1>11, <1>12
        DEF Next

\* Every variable keeps its type: what is missing or recovered exists, the pending
\* calls of StartMerge are at most one for each election, and those of the timer
\* at most one for each change of group.
THEOREM NodeTypes == Spec => []TypeOK
<1>1. TypeInv /\ Inv' /\ [Next]_vars => TypeInv'
  BY NextOK, StepKeepsTypes
<1>2. ASSUME TypeInv PROVE TypeOK
  <2>1. st \in [blocks : SUBSET DOMAIN dag, waiting : SUBSET DOMAIN dag,
                missing : SUBSET [hash : DOMAIN dag, node : Node],
                childless : SUBSET DOMAIN dag,
                recover : SUBSET [hash : DOMAIN dag, node : Node],
                mempool : SUBSET Txn, lastLeader : Node \cup {-1},
                createBlock : BOOLEAN]
    BY <1>2 DEF TypeInv, Inv, Good, IsState, Known, ListsOK, Seeks, Typed
  <2>2. polls \in 0 .. MaxElections /\ timers \in 0 .. MaxChanges
    BY <1>2, B4MeshConstants DEF TypeInv, EventsOK
  <2> QED BY <1>2, <2>1, <2>2 DEF TypeInv, EventsOK, BlockOK, TypeOK
<1> QED BY <1>1, <1>2, InitTyped, AlwaysGood, PTL DEF Spec
=============================================================================
