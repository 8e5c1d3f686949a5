-------------------------- MODULE GrowingBlockgraph --------------------------
(***************************************************************************)
(* What the blockgraph protocol promises at one node, whatever it receives *)
(* and in which order: its blockgraph only grows, no regular block comes   *)
(* before its parents, and a block the node makes joins what it holds.     *)
(***************************************************************************)

CONSTANT Genesis

VARIABLES
  made,             \* the blocks made in the network, by their hashes
  graph             \* the hashes in the blockgraph of the node

\* The blocks without a child.
Tips == {b \in graph : \A c \in graph : b \notin made[c].parents}

HoldsTransaction(t) == \E b \in graph : t \in made[b].txns

\* The history of each block is there, back to the last merge.
IsComplete(blocks) ==
  \A b \in blocks : ~ made[b].merge => made[b].parents \subseteq blocks

Init ==
  /\ Genesis \in DOMAIN made
  /\ graph = {Genesis}
  /\ IsComplete(graph)

\* The node takes up blocks that were made somewhere.
Learn ==
  /\ graph \subseteq graph'
  /\ graph' \subseteq DOMAIN made
  /\ IsComplete(graph')
  /\ UNCHANGED made

\* A merge block joins every branch the node holds.
JoinsAllTips(b) == b.merge /\ Tips \subseteq b.parents

\* Any other block extends some of them, with transactions that are new to it.
ExtendsTips(b) ==
  ~ b.merge /\ b.parents \subseteq Tips /\ \A t \in b.txns : ~ HoldsTransaction(t)

\* The node makes a block; it enters the blockgraph later, as any other does.
Make(h) ==
  /\ h \notin DOMAIN made
  /\ DOMAIN made' = DOMAIN made \cup {h}
  /\ \A x \in DOMAIN made : made'[x] = made[x]
  /\ JoinsAllTips(made'[h]) \/ ExtendsTips(made'[h])
  /\ UNCHANGED graph

Next == Learn \/ \E h \in DOMAIN made' : Make(h)

Spec == Init /\ [][Next]_<<made, graph>>
=============================================================================
