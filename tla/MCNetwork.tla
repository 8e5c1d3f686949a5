------------------------------ MODULE MCNetwork ------------------------------
(* B4MeshNetwork on two nodes for TLC. *)
EXTENDS B4MeshNetwork, TLC

CONSTANTS g, a, x1, x2, m

Regular(node, grp, parents, txns) ==
  [leader |-> node, group |-> grp, merge |-> FALSE, parents |-> parents,
   txns |-> txns, answers |-> <<>>]

Root == g :> Regular(0, NoGroup, {}, {})

\* Node 0, alone, made a.  Two blocks of node 1 were committed late, so that
\* neither is the parent of the other, and node 0 left before it heard of them.
Apart ==
  LET d == Root @@ a :> Regular(0, {0}, {g}, {})
                @@ x1 :> Regular(1, {0, 1}, {g}, {1})
                @@ x2 :> Regular(1, {0, 1}, {g}, {2})
  IN  [dag |-> d,
       blocks |-> 0 :> {g, a} @@ 1 :> {g, x1, x2},
       group |-> 0 :> {0} @@ 1 :> {1},
       groupId_register |-> 0 :> {{0}, {0, 1}} @@ 1 :> {{1}, {0, 1}},
       notified |-> 0 :> {0, 1} @@ 1 :> {0, 1},
       candidates |-> {1}, todo |-> 0 :> {} @@ 1 :> {}]

\* One group with a common history, in which each node makes a transaction.
Together ==
  LET d == Root @@ a :> Regular(0, {0, 1}, {g}, {})
                @@ x1 :> Regular(1, {0, 1}, {a}, {})
  IN  [dag |-> d,
       blocks |-> 0 :> {g, a, x1} @@ 1 :> {g, a, x1},
       group |-> 0 :> {0, 1} @@ 1 :> {0, 1},
       groupId_register |-> 0 :> {{0, 1}} @@ 1 :> {{0, 1}},
       notified |-> 0 :> {0, 1} @@ 1 :> {0, 1},
       candidates |-> {0}, todo |-> 0 :> {1} @@ 1 :> {2}]

OnlyApart == {Apart}
OnlyTogether == {Together}
BothNetworks == {Apart, Together}
Lossy == {"TRANSACTION", "BLOCK", "RECV_BLOCK", "GROUPBRANCH_REQ", "CHILDLESSBLOCK_REP"}

ASSUME TransactionsAreTold == EnoughTold
=============================================================================
