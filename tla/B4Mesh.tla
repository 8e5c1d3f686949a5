------------------------------- MODULE B4Mesh -------------------------------
(***************************************************************************)
(* The blockgraph protocol of one node (b4mesh.cc): the treatment of       *)
(* blocks and transactions that arrive in any order, the changes of group, *)
(* and what a leader does: asking new nodes for the tips of their branches *)
(* and making blocks.                                                      *)
(*                                                                         *)
(* The rest of the network is the environment.  Blocks of other nodes are  *)
(* there from the start, in one of InitialDags; every block made anywhere  *)
(* may arrive at any time and again, from the consensus or from another    *)
(* node, since a block is treated after a random delay.  Requests for      *)
(* blocks and branches only send packets and are not visible here.         *)
(***************************************************************************)
EXTENDS Blockgraph

CONSTANTS
  Node, self,       \* node numbers, and the node of this module
  Genesis,          \* the block every blockgraph starts with
  Txn,              \* transactions
  Groups,           \* groups of nodes this node may find itself in
  InitialDags,      \* blocks the other nodes may have made
  MaxBlocks,        \* bound: no block is made beyond so many in the network
  MaxChanges,       \* bound: changes of group
  MaxElections,     \* bound: times this node becomes leader
  MayStop           \* whether the application stops before the end

\* A group is its own identifier; this one stands for no group, and for "0".
NoGroup == {}

BlockType ==
  [leader : Node, group : SUBSET Node, merge : BOOLEAN,
   parents : SUBSET Hash, txns : SUBSET Txn,
   answers : Seq([hash : Hash, node : Node])]

ASSUME B4MeshConstants ==
  /\ IsFiniteSet(Node) /\ IsFiniteSet(Hash) /\ self \in Node /\ Genesis \in Hash
  /\ Groups \subseteq {g \in SUBSET Node : self \in g}
  /\ MaxBlocks \in Nat /\ MaxBlocks <= Cardinality(Hash)
  /\ MaxChanges \in Nat /\ MaxElections \in Nat /\ MayStop \in BOOLEAN
  /\ \A d \in InitialDags :
       /\ Genesis \in DOMAIN d /\ DOMAIN d \subseteq Hash
       /\ \A h \in DOMAIN d :
            /\ d[h] \in BlockType /\ d[h].parents \subseteq DOMAIN d
            /\ \A i \in DOMAIN d[h].answers : d[h].answers[i].hash \in DOMAIN d
       /\ d[Genesis].parents = {} /\ d[Genesis].txns = {}

VARIABLES
  st,               \* the record of Blockgraph
  running,          \* the application runs
  leader,           \* IsLeader() of the oracle
  group, previous_group, groupId_register, lastChange,
  startMerge,       \* a merge is to be started
  polls,            \* pending calls of StartMerge
  timers,           \* pending calls of timer_childless_fct
  asked,            \* nodes whose childless hashes are on their way
  changes, elections

groupVars == <<group, previous_group, groupId_register, changes>>
leaderVars == <<leader, elections, polls>>
mergeVars == <<startMerge, timers, asked>>
vars == <<dag, st, running, groupVars, lastChange, leaderVars, mergeVars>>

Init ==
  /\ dag \in InitialDags
  /\ st = [blocks |-> {Genesis}, waiting |-> {}, missing |-> {}, childless |-> {},
           recover |-> {}, mempool |-> {}, lastLeader |-> -1, createBlock |-> TRUE]
  /\ running = TRUE
  /\ leader = FALSE
  /\ group = NoGroup
  /\ previous_group = NoGroup
  /\ groupId_register = {}
  /\ lastChange \in {"MERGE", "OTHER"}    \* not initialised by the code
  /\ startMerge = FALSE
  /\ polls = 0 /\ timers = 0 /\ asked = {}
  /\ changes = 0 /\ elections = 0

-----------------------------------------------------------------------------
(* What arrives.                                                           *)

ReceiveBlock(b) ==
  /\ running
  /\ st' = BlockTreatment(st, b)
  /\ UNCHANGED <<dag, running, groupVars, lastChange, leaderVars, mergeVars>>

\* A transaction, its own or one of another node; a full mempool refuses it.
TransactionsTreatment(t) ==
  /\ running
  /\ t \notin st.mempool
  /\ ~ IsTxInBG(st.blocks, t)
  /\ st' = [st EXCEPT !.mempool = @ \cup {t}]
  /\ UNCHANGED <<dag, running, groupVars, lastChange, leaderVars, mergeVars>>

\* The mobility module notifies a group; only the nature of it takes effect now.
ReceiveNewTopologyInfo(nature) ==
  /\ changes < MaxChanges
  /\ lastChange' = nature
  /\ UNCHANGED <<dag, st, running, groupVars, leaderVars, mergeVars>>

\* The last notified group is confirmed.
UpdateTopologyInfo(g) ==
  /\ changes < MaxChanges
  /\ g # group
  /\ changes' = changes + 1
  /\ group' = g
  /\ previous_group' = group
  /\ groupId_register' = groupId_register \cup {g}
  /\ startMerge' = (startMerge \/ lastChange = "MERGE")
  /\ st' = IF lastChange = "MERGE" THEN [st EXCEPT !.recover = {}] ELSE st
  /\ UNCHANGED <<dag, running, lastChange, leaderVars, timers, asked>>

\* Faulty variant: the node counts itself among the new ones.
NewNodesAndSelf == group \ previous_group

GetNewNodes == (group \ previous_group) \ {self}
GetNodesFromOldGroup == group \cap previous_group

-----------------------------------------------------------------------------
(* Making blocks.                                                          *)

\* Bound: room is kept for the block of each pending timer.
RoomForBlock == Cardinality(DOMAIN dag) + timers < MaxBlocks

\* The mempool is large enough for a block.
TestPendingTxs == st.mempool # {}

\* The block goes to the consensus; it reaches the blockgraph like any other.
GenerateBlocks(s, mergeBlock) ==
  \/ /\ mergeBlock \/ JoinsTips(s)
     /\ NewBlock(GenerateMergeBlock(s, self, group, GetNodesFromOldGroup))
     /\ st' = s
  \/ /\ ~ mergeBlock /\ ~ JoinsTips(s)
     /\ \E txns \in SelectTransactions(s) :
          /\ NewBlock(GenerateRegularBlock(s, self, group, groupId_register, txns))
          /\ st' = [s EXCEPT !.mempool = @ \ txns]

\* What the timer of a leader does when TIME_BTW_BLOCK has passed.
TestBlockCreation ==
  /\ running
  /\ leader
  /\ st.createBlock
  /\ TestPendingTxs
  /\ RoomForBlock
  /\ GenerateBlocks(st, FALSE)
  /\ UNCHANGED <<running, groupVars, lastChange, leaderVars, mergeVars>>

-----------------------------------------------------------------------------
(* Merges.                                                                 *)

\* Faulty variant: nobody to ask, nothing to wait for.
AskIfThereAreAny ==
  IF GetNewNodes = {} THEN UNCHANGED <<asked, timers>>
  ELSE asked' = asked \cup GetNewNodes /\ timers' = timers + 1

\* New nodes are asked, and six seconds are allowed for their answers.
Ask4ChildlessHashes ==
  /\ asked' = asked \cup GetNewNodes
  /\ timers' = timers + 1

\* StartMerge, at a node that leads or not, with `left` other calls pending.
StartMerge(leads, left) ==
  \/ /\ ~ running \/ ~ leads
     /\ polls' = left
     /\ UNCHANGED <<st, mergeVars>>
  \/ /\ running /\ leads
     /\ startMerge
     /\ RoomForBlock
     /\ st' = [st EXCEPT !.createBlock = FALSE]
     /\ Ask4ChildlessHashes
     /\ startMerge' = FALSE
     /\ polls' = left
  \/ /\ running /\ leads
     /\ ~ startMerge
     /\ polls' = left + 1
     /\ UNCHANGED <<st, mergeVars>>

ScheduledStartMerge ==
  /\ polls > 0
  /\ StartMerge(leader, polls - 1)
  /\ UNCHANGED <<dag, running, groupVars, lastChange, leader, elections>>

\* Elected by others the node is told (HaveNewLeader); alone it is not.
BecomeLeader ==
  /\ ~ leader
  /\ elections < MaxElections
  /\ leader' = TRUE
  /\ elections' = elections + 1
  /\ \/ lastChange = "MERGE" /\ StartMerge(TRUE, polls)
     \/ UNCHANGED <<st, polls, mergeVars>>
  /\ UNCHANGED <<dag, running, groupVars, lastChange>>

LoseLeadership ==
  /\ leader
  /\ leader' = FALSE
  /\ UNCHANGED <<dag, st, running, groupVars, lastChange, elections, polls, mergeVars>>

\* The childless blocks of blockgraphs other nodes may have.
ChildlessLists ==
  {GetChildlessBlockList(blocks) :
     blocks \in {x \in SUBSET DOMAIN dag :
                   /\ Genesis \in x
                   /\ \A b \in x : ~ dag[b].merge => dag[b].parents \subseteq x}}

\* CheckMergeBlockCreation: the merge block is made once all have answered.
AllAnswered(s) == \A n \in GetNewNodes : \E e \in s.recover : e.node = n

ProcessChildlessResponse(n, hashes) ==
  LET s == ChildlessHashTreatment(st, SetToSeq({[hash |-> h, node |-> n] : h \in hashes}))
      create == AllAnswered(s) /\ ~ s.createBlock
  IN  /\ n \in asked
      /\ asked' = asked \ {n}
      /\ \/ ~ create /\ st' = s /\ UNCHANGED dag
         \/ create /\ GenerateBlocks([s EXCEPT !.createBlock = TRUE], TRUE)
      /\ UNCHANGED <<running, groupVars, lastChange, leaderVars, startMerge, timers>>

timer_childless_fct ==
  /\ timers > 0
  /\ timers' = timers - 1
  /\ \/ st.createBlock /\ UNCHANGED <<dag, st>>
     \/ ~ st.createBlock /\ GenerateBlocks([st EXCEPT !.createBlock = TRUE], TRUE)
  /\ UNCHANGED <<running, groupVars, lastChange, leaderVars, startMerge, asked>>

StopApplication ==
  /\ MayStop
  /\ running
  /\ running' = FALSE
  /\ UNCHANGED <<dag, st, groupVars, lastChange, leaderVars, mergeVars>>

-----------------------------------------------------------------------------
Next ==
  \/ \E b \in DOMAIN dag : ReceiveBlock(b)
  \/ \E t \in Txn : TransactionsTreatment(t)
  \/ \E nature \in {"MERGE", "OTHER"} : ReceiveNewTopologyInfo(nature)
  \/ \E g \in Groups : UpdateTopologyInfo(g)
  \/ TestBlockCreation
  \/ ScheduledStartMerge
  \/ BecomeLeader
  \/ LoseLeadership
  \/ \E n \in asked, hashes \in ChildlessLists : ProcessChildlessResponse(n, hashes)
  \/ timer_childless_fct
  \/ StopApplication

Spec == Init /\ [][Next]_vars

\* The simulator runs every call that was scheduled.
FairSpec == Spec /\ WF_vars(timer_childless_fct)

-----------------------------------------------------------------------------
(* Properties.                                                             *)

TypeOK ==
  /\ DOMAIN dag \subseteq Hash
  /\ \A h \in DOMAIN dag : dag[h] \in BlockType /\ dag[h].parents \subseteq DOMAIN dag
  /\ st \in [blocks : SUBSET DOMAIN dag, waiting : SUBSET DOMAIN dag,
             missing : SUBSET [hash : DOMAIN dag, node : Node],
             childless : SUBSET DOMAIN dag,
             recover : SUBSET [hash : DOMAIN dag, node : Node],
             mempool : SUBSET Txn, lastLeader : Node \cup {-1}, createBlock : BOOLEAN]
  /\ running \in BOOLEAN /\ leader \in BOOLEAN /\ startMerge \in BOOLEAN
  /\ group \in Groups \cup {NoGroup} /\ previous_group \in Groups \cup {NoGroup}
  /\ groupId_register \subseteq Groups
  /\ lastChange \in {"MERGE", "OTHER"}
  /\ polls \in 0 .. MaxElections /\ timers \in 0 .. MaxChanges
  /\ asked \subseteq Node \ {self}
  /\ changes \in 0 .. MaxChanges /\ elections \in 0 .. MaxElections

\* A regular block is in the blockgraph only if all its parents are: blocks may
\* arrive in any order and leave the waiting list in cascades, and the history
\* of a block is there as soon as the block is, back to the last merge.
RegularBlocksComplete ==
  \A b \in st.blocks : ~ dag[b].merge => dag[b].parents \subseteq st.blocks

\* What a block waits for is not forgotten: each of its parents is in the
\* blockgraph, waits itself, or is in the missing list and so will be asked for.
\* That the block is taken up when they all are there is NothingReadyWaits,
\* which the code does not keep.
WaitedForIsRequested ==
  \A b \in st.waiting : dag[b].parents \subseteq st.blocks \cup st.waiting \cup MissingHashes(st)

\* A branch that is being recovered, which holds the creation of regular blocks
\* to the parents of known groups, is one whose tip is still asked for or waits
\* for its ancestors: a merge in process can end.
MissingBranchPursued == st.childless \subseteq MissingHashes(st) \cup st.waiting

\* A transaction of the mempool is in no block of the blockgraph, whichever of
\* the two came first and however the block got in: a leader does not put a
\* transaction in a block that extends the one it is in already.
MempoolIsFresh == \A t \in st.mempool : ~ IsTxInBG(st.blocks, t)

\* A merge only suspends the creation of blocks: the pause ends, although the
\* leader may be deposed, stopped or moved to another group in the middle of it.
CreationResumes == ~ st.createBlock ~> st.createBlock

\* What the node promises: lists, merges and leaders are means to an end, a graph
\* that only grows, whose blocks follow their parents, and which each block the
\* node makes extends or joins, without a transaction it holds already.
Growing == INSTANCE GrowingBlockgraph WITH made <- dag, graph <- st.blocks
GrowsAsPromised == Growing!Spec

-----------------------------------------------------------------------------
(* What comments say and the code does not do.                             *)

\* b4mesh.cc, UpdateWaitingList: "For each of the blocks in the waiting list,
\* check if its parents are all in blockgraph. If so, add it to the Blockgraph".
\* No block waits whose parents are all in the blockgraph.
NothingReadyWaits == \A b \in st.waiting : ~ (dag[b].parents \subseteq st.blocks)

\* b4mesh.cc, SendBranchRequest: "For EACH of the missing childless hashes, send
\* this request to all the nodes that have it (recover_branch)".  A node is known
\* for each missing tip.
MissingBranchHasNode == \A h \in st.childless : \E e \in st.recover : e.hash = h
=============================================================================
