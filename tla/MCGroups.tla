------------------------------ MODULE MCGroups ------------------------------
(* GroupManagement at node 0 of a small network for TLC. *)
EXTENDS GroupManagement

\* Every set of other nodes may be reachable.
AllTables == SUBSET (Node \ {self})

\* Two groups whose identifiers are the same sum of characters.
CollidingTables == {{1, 4}, {2, 3}}
=============================================================================
