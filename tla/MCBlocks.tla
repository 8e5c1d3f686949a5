------------------------------ MODULE MCBlocks ------------------------------
(* B4Mesh at node 0 of a small network for TLC. *)
EXTENDS B4Mesh, TLC

CONSTANTS g, a1, a2, b1, m, c1, t1

Regular(node, grp, parents, txns) ==
  [leader |-> node, group |-> grp, merge |-> FALSE, parents |-> parents,
   txns |-> txns, answers |-> <<>>]

Merge(node, grp, parents, answers) ==
  [leader |-> node, group |-> grp, merge |-> TRUE, parents |-> parents,
   txns |-> {}, answers |-> answers]

Root == g :> Regular(0, NoGroup, {}, {})

\* A block that another group made.
OneBlock == Root @@ a1 :> Regular(1, {1, 2}, {g}, {t1})

\* Two branches made by other groups, the merge block that joins them, and a
\* block after it.
Joined ==
  OneBlock @@ a2 :> Regular(1, {1, 2}, {a1}, {})
           @@ b1 :> Regular(2, {0, 2}, {g}, {})
           @@ m :> Merge(1, {0, 1, 2}, {a2, b1},
                         <<[hash |-> a2, node |-> 1], [hash |-> a2, node |-> 2],
                           [hash |-> b1, node |-> 2]>>)
           @@ c1 :> Regular(1, {0, 1, 2}, {m}, {})

AllDags == {Root, OneBlock, Joined}
OnlyJoined == {Joined}
TwoGroups == {{0, 1}, {0, 1, 2}}
=============================================================================
