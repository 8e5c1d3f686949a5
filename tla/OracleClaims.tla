---------------------------- MODULE OracleClaims ----------------------------
(***************************************************************************)
(* What comments of b4mesh-oracle.h and b4mesh-oracle.cc say of the        *)
(* consensus and the code does not do.  Each formula is violated by a      *)
(* behaviour of B4MeshOracle; the README tells the story of each.          *)
(*                                                                         *)
(* The behaviours are searched among those in which an election timeout,   *)
(* which lasts 8 to 10 seconds, never fires while a packet is still on its *)
(* way, and only the nodes of Candidates ever time out: what they show     *)
(* owes nothing to packets of an unlikely age.                             *)
(***************************************************************************)
EXTENDS B4MeshOracle

CONSTANT Candidates

ASSUME CandidatesAssumption == Candidates \subseteq Node

TimelyNext ==
  \/ msgs = {} /\ \E n \in Candidates : TriggerElectionTimeout(n)
  \/ OtherEvent

TimelySpec == Init /\ [][TimelyNext]_vars

\* b4mesh-oracle.h, match_indexes: "index of the highest log entry known to be
\* replicated on server".  What a leader has committed on the strength of these
\* indexes is in the logs of more than half of its group.
CommittedIsReplicated ==
  \A n \in Node :
    current_state[n] = "LEADER" =>
      \A i \in 0 .. commit_index[n] :
        2 * Cardinality({p \in current_group[n] :
                           GetEntry(log[p], i) = GetEntry(log[n], i)})
          > Cardinality(current_group[n])

\* b4mesh-oracle.cc, ProcessEntriesAck: "We want unanimity to commit config
\* change entries or first entry after config change".
ConfigurationNeedsUnanimity ==
  [][\A n \in Node :
       current_state[n] = "LEADER" /\ current_state'[n] = "LEADER" =>
         \A i \in (commit_index[n] + 1) .. commit_index'[n] :
           \/ IsConf(groups[n], GetEntry(log'[n], i))
           \/ IsConf(groups[n], GetEntry(log'[n], i - 1))
           => \A p \in current_group'[n] : match_indexes'[n][p] >= i]_vars

\* b4mesh.cc, RecvBlock: "Invoked by consensus module after it has received and
\* committed a block".  A block a node has committed was handed to its blockgraph.
CommittedIsIndicated ==
  \A n \in Node : \A i \in 0 .. commit_index[n] :
    GetEntry(log[n], i).hash \in blockpool[n] =>
      \E j \in DOMAIN delivered[n] : delivered[n][j] = GetEntry(log[n], i).hash
=============================================================================
