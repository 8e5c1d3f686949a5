------------------------------ MODULE MCOracle ------------------------------
(* B4MeshOracle on a small network for TLC.                                *)
EXTENDS OracleClaims, TLC

\* Identifiers that do not collide, and those of groups of one size that do, as sums
\* of the characters of node numbers may.
MCGroupIdOf(g) == <<"group", g>>
CollidingGroupIdOf(g) == <<"group", Cardinality(g)>>
MCSplitIdOf(g) == <<"split", g>>

NoTopologies == {}

CONSTANTS n1, n2, n3, n4

\* From one pair to the other is neither a split nor a merge.
TwoPairs == {{n1, n2}, {n1, n3}}

OneOfThreeLeaves == {{n1, n2, n3}, {n4}}
LeaveAndReturn == {{n1, n2}, {n1}}

Symmetry == Permutations(Node) \cup Permutations(Block)

ASSUME BlocksAreNoGroups == NamesDistinct
=============================================================================
