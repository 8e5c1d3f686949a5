----------------------------- MODULE Blockgraph -----------------------------
(***************************************************************************)
(* The database of blocks of a node (blockgraph.cc) and the lists in which *)
(* B4Mesh keeps what it knows of blocks that are not in it (b4mesh.cc).    *)
(*                                                                         *)
(* A block is its hash; `dag` gives the contents of the blocks made so far *)
(* anywhere in the network, as records:                                    *)
(*   leader, group  the node that made it and the identifier of its group  *)
(*   merge          whether it is a merge block                            *)
(*   parents        the hashes of its parents                              *)
(*   txns           the transactions of a regular block                    *)
(*   answers        the "transactions" of a merge block: a list of tips,   *)
(*                  each with a node that has it                           *)
(* What a node keeps is a record:                                          *)
(*   blocks      the hashes in its blockgraph                              *)
(*   waiting     block_waiting_list, blocks that wait for their parents    *)
(*   missing     missing_block_list, pairs of a hash and a node to ask     *)
(*   childless   missing_childless_hashes, tips of branches to recover     *)
(*   recover     recover_branch, pairs of such a tip and a node that has it *)
(*   mempool     txn_mempool                                               *)
(*   lastLeader  the leader of the last block treated                      *)
(*   createBlock whether a leader may create blocks                        *)
(***************************************************************************)
EXTENDS Naturals, Sequences, FiniteSets, SequencesExt

CONSTANT Hash       \* hashes of blocks

VARIABLE dag

\* The blocks without a child in the blockgraph.
GetChildlessBlockList(blocks) ==
  {b \in blocks : \A c \in blocks : b \notin dag[c].parents}

GetBlocksFromGroup(blocks, group) == {b \in blocks : dag[b].group = group}

IsTxInBG(blocks, t) == \E b \in blocks : t \in dag[b].txns

MissingHashes(s) == {e.hash : e \in s.missing}

IsMergeInProcess(s) == s.childless # {}

-----------------------------------------------------------------------------
(* Adding blocks.                                                          *)

\* Faulty variant: the transactions of the block stay in the mempool.
AddWithoutMempool(s, added) ==
  [s EXCEPT !.blocks = @ \cup added,
            !.childless = @ \ added,
            !.createBlock = @ \/ (s.childless # {} /\ s.childless \subseteq added),
            !.recover = {e \in @ : e.hash \notin added}]

\* Faulty variant: a tip that was recovered stays in missing_childless_hashes.
AddKeepingTip(s, added) ==
  [s EXCEPT !.blocks = @ \cup added,
            !.createBlock = @ \/ (s.childless # {} /\ s.childless \subseteq added),
            !.recover = {e \in @ : e.hash \notin added},
            !.mempool = @ \ UNION {dag[b].txns : b \in added}]

\* AddBlockToBlockgraph for each block of `added`: the last branch to recover
\* ends the merge, and transactions of the blocks leave the mempool.
AddBlocks(s, added) ==
  [s EXCEPT !.blocks = @ \cup added,
            !.childless = @ \ added,
            !.createBlock = @ \/ (s.childless # {} /\ s.childless \subseteq added),
            !.recover = {e \in @ : e.hash \notin added},
            !.mempool = @ \ UNION {dag[b].txns : b \in added}]

\* Faulty variant: any block that arrives releases all that wait.
ReleaseAll(s) == s.waiting

\* The blocks that leave the waiting list, one after the other: the smallest set
\* that holds every waiting block whose parents are in the blockgraph or in it.
Ready(s) ==
  {b \in s.waiting :
     \A set \in SUBSET s.waiting :
       (\A c \in s.waiting : dag[c].parents \subseteq s.blocks \cup set => c \in set)
         => b \in set}

UpdateWaitingList(s) ==
  LET ready == Ready(s)
  IN  [AddBlocks(s, ready) EXCEPT !.waiting = @ \ ready]

-----------------------------------------------------------------------------
(* What is missing.                                                        *)

EraseMissingBlock(s, b) == [s EXCEPT !.missing = {e \in @ : e.hash # b}]

FilterNodesNotInBG(s, b) == dag[b].parents \ s.blocks

\* Faulty variant: the list is replaced and not extended.
ReplaceMissingList(s, unknown, node) ==
  [s EXCEPT !.missing = {[hash |-> p, node |-> node] : p \in unknown}]

\* Parents that are missing already are left out by FilterNodesNotInML.
UpdateMissingList(s, unknown, node) ==
  [s EXCEPT !.missing =
     @ \cup {[hash |-> p, node |-> node] : p \in unknown \ MissingHashes(s)}]

\* The first of a list of answers for each of the hashes it names.
FirstAnswers(answers) ==
  {answers[i] : i \in {j \in DOMAIN answers :
                         \A k \in 1 .. (j - 1) : answers[k].hash # answers[j].hash}}

\* ChildlessHashTreatment for each answer in turn: a tip nothing is known of is
\* missing from now on, to be asked of the first node that named it; nodes that
\* have a missing tip, or one this node has too, are registered.
ChildlessHashTreatment(s, answers) ==
  LET unknown == {e \in FirstAnswers(answers) :
                    e.hash \notin s.blocks \cup s.waiting \cup MissingHashes(s)}
      registered == {i \in DOMAIN answers :
                       \/ answers[i].hash \notin s.blocks \cup s.waiting
                       \/ answers[i].hash \in GetChildlessBlockList(s.blocks)}
  IN  [s EXCEPT !.missing = @ \cup unknown,
                !.childless = @ \cup {e.hash : e \in unknown},
                !.recover = @ \cup {answers[i] : i \in registered}]

-----------------------------------------------------------------------------
(* BlockTreatment of a block b, one operator for each outcome.             *)

Treated(s, b) == [s EXCEPT !.lastLeader = dag[b].leader]

\* The block is in the blockgraph already.
Dump(s, b) == Treated(s, b)

\* The block waits for its parents already.
DumpWaiting(s, b) == EraseMissingBlock(Treated(s, b), b)

\* The branches a merge block joins are looked for before it is added; it is
\* added whether its parents are there or not.
TreatMergeBlock(s, b) ==
  AddBlocks(ChildlessHashTreatment(EraseMissingBlock(Treated(s, b), b),
                                   dag[b].answers), {b})

\* Faulty variant: the block that waits is looked for itself.
KeepWaitingAndMissing(s, b) ==
  [UpdateMissingList(Treated(s, b), FilterNodesNotInBG(s, b) \cup {b}, dag[b].leader)
     EXCEPT !.waiting = @ \cup {b}]

KeepWaiting(s, b) ==
  LET received == EraseMissingBlock(Treated(s, b), b)
  IN  [UpdateMissingList(received, FilterNodesNotInBG(s, b), dag[b].leader)
         EXCEPT !.waiting = @ \cup {b}]

AddRegularBlock(s, b) ==
  UpdateWaitingList(AddBlocks(EraseMissingBlock(Treated(s, b), b), {b}))

BlockTreatment(s, b) ==
  IF b \in s.blocks                       THEN Dump(s, b)
  ELSE IF b \in s.waiting                 THEN DumpWaiting(s, b)
  ELSE IF dag[b].merge                    THEN TreatMergeBlock(s, b)
  ELSE IF FilterNodesNotInBG(s, b) # {}   THEN KeepWaiting(s, b)
  ELSE AddRegularBlock(s, b)

-----------------------------------------------------------------------------
(* Making a block at a node, of a group, that keeps the lists s.           *)

\* Every tip of the blockgraph with every old node, and what is to be recovered.
MergeAnswers(s, oldNodes) ==
  SetToSeq({[hash |-> h, node |-> n] : h \in GetChildlessBlockList(s.blocks),
                                       n \in oldNodes})
  \o SetToSeq(s.recover)

\* Faulty variant: the branches of this node are left out of the merge.
JoinsOthersOnly(s, node, group, oldNodes) ==
  [leader |-> node, group |-> group, merge |-> TRUE,
   parents |-> s.childless, txns |-> {}, answers |-> MergeAnswers(s, oldNodes)]

GenerateMergeBlock(s, node, group, oldNodes) ==
  [leader |-> node, group |-> group, merge |-> TRUE,
   parents |-> GetChildlessBlockList(s.blocks) \cup s.childless,
   txns |-> {}, answers |-> MergeAnswers(s, oldNodes)]

\* Of several tips only those of groups this node was in are parents.
GenerateRegularBlock(s, node, group, groupId_register, txns) ==
  LET tips == GetChildlessBlockList(s.blocks)
  IN  [leader |-> node, group |-> group, merge |-> FALSE,
       parents |-> IF Cardinality(tips) > 1
                   THEN {p \in tips : dag[p].group \in groupId_register}
                   ELSE tips,
       txns |-> txns, answers |-> <<>>]

\* Several tips are joined although no merge was asked for.
JoinsTips(s) ==
  Cardinality(GetChildlessBlockList(s.blocks)) > 1 /\ ~ IsMergeInProcess(s)

\* The oldest transactions that fit in a block: which ones is left open.
SelectTransactions(s) == SUBSET s.mempool \ {{}}

NewBlock(b) ==
  LET h == CHOOSE x \in Hash : x \notin DOMAIN dag
  IN  /\ Hash \ DOMAIN dag # {}
      /\ dag' = [x \in DOMAIN dag \cup {h} |-> IF x = h THEN b ELSE dag[x]]
=============================================================================
