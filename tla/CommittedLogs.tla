---------------------------- MODULE CommittedLogs ----------------------------
(***************************************************************************)
(* What the consensus promises whatever the network loses and reorders and *)
(* whoever leads: each node commits a list of blocks and configurations    *)
(* that only grows, made of blocks some leader made and of groups the      *)
(* mobility module reported, and a block that was made stays in the pool   *)
(* of some node, whether it is still going to be committed or not.  It     *)
(* promises nothing about the lists of two nodes: see FirstTermAgreement   *)
(* for what remains true of them.                                          *)
(***************************************************************************)
EXTENDS Integers

CONSTANTS Node, NoHash

VARIABLES
  made,             \* the blocks that were made
  reported,         \* the identifiers of the groups that were reported
  committed         \* for each node, the hashes it holds as committed

\* A hash that may be committed; the padding of a log has none.
Proposed(hash) == hash \in made \cup reported \cup {NoHash}

Init ==
  /\ made = {}
  /\ reported = {}
  /\ \A n \in Node : DOMAIN committed[n] = {}

\* A leader makes a block no node has.
Make ==
  /\ \E b \in made' : b \notin made /\ made' = made \cup {b}
  /\ UNCHANGED <<reported, committed>>

\* A change of group is reported to a node.
Report ==
  /\ reported \subseteq reported'
  /\ UNCHANGED <<made, committed>>

\* The node n commits more, after what it has committed and without a gap; other
\* nodes do not.
Commit(n) ==
  /\ DOMAIN committed[n] \subseteq DOMAIN committed'[n]
  /\ \A i \in DOMAIN committed[n] : committed'[n][i] = committed[n][i]
  /\ \A i \in DOMAIN committed'[n] : /\ 1 .. i \subseteq DOMAIN committed'[n]
                                    /\ Proposed(committed'[n][i])
  /\ \A p \in Node \ {n} : committed'[p] = committed[p]
  /\ UNCHANGED <<made, reported>>

Next == Make \/ Report \/ \E n \in Node : Commit(n)

Spec == Init /\ [][Next]_<<made, reported, committed>>
=============================================================================
