---------------------------- MODULE OracleRules ----------------------------
(***************************************************************************)
(* The rules of the C4M consensus (b4mesh-oracle.cc) that depend on values *)
(* only: how a log is read, trimmed, padded and extended, when an entry is *)
(* committed, and how a change of group is classified and cut in steps.    *)
(*                                                                         *)
(* A log is a sequence of entries [term, hash]; the code counts positions  *)
(* from 0, so entry i of the code is element i + 1 of the sequence.  The   *)
(* hash of an entry is that of a block or the identifier of a group; which *)
(* one is decided, as in the code, by the identifiers registered in        *)
(* `groups`, a function from identifiers to sets of nodes.  The sorted     *)
(* vectors of (node, address) pairs of the code are sets of nodes here.    *)
(***************************************************************************)
EXTENDS Integers, Sequences, FiniteSets

CONSTANT NoHash   \* the empty string

NoTerm == -1      \* the term of an entry that is not there

-----------------------------------------------------------------------------
(* Reading a log.                                                          *)

LastLogIndex(log) == Len(log) - 1

Entry(term, hash) == [term |-> term, hash |-> hash]

GetEntry(log, i) ==
  IF i \in 0 .. LastLogIndex(log) THEN log[i + 1] ELSE Entry(NoTerm, NoHash)

\* An entry is a change of configuration when its hash is a registered group.
IsConf(groups, entry) == entry.hash \in DOMAIN groups

LastCommitConfIndex(log, commit_index, groups) ==
  LET confs == {i \in 0 .. commit_index : IsConf(groups, GetEntry(log, i))}
  IN  IF confs = {} THEN -1
                    ELSE CHOOSE i \in confs : \A j \in confs : j <= i

\* The identifier of the last committed group; the empty string if none is.
GetCurrentGroup(log, commit_index, groups) ==
  GetEntry(log, LastCommitConfIndex(log, commit_index, groups)).hash

-----------------------------------------------------------------------------
(* Changing a log.                                                         *)

\* Faulty variant: one entry too many is dropped.
RemoveOneTooMany(log, commit_index) ==
  IF commit_index < LastLogIndex(log) THEN SubSeq(log, 1, commit_index) ELSE log

RemoveUncommittedEntries(log, commit_index) ==
  IF commit_index < LastLogIndex(log) THEN SubSeq(log, 1, commit_index + 1)
                                      ELSE log

\* The entries of a log whose last entry is a configuration are padded with the
\* last committed configuration up to the position the leader sends for.
Padded(log, commit_index, groups, term, prev_log_index) ==
  IF /\ Len(log) > 0
     /\ IsConf(groups, GetEntry(log, LastLogIndex(log)))
     /\ LastLogIndex(log) < prev_log_index
  THEN log \o [k \in 1 .. (prev_log_index - LastLogIndex(log)) |->
                Entry(term, GetCurrentGroup(log, commit_index, groups))]
  ELSE log

\* The entry goes right after prev_log_index: at the end of the log, or in the
\* place of an existing entry, what follows being kept.  A gap is refused.
LeavesGap(log, prev_log_index) == prev_log_index > LastLogIndex(log)

\* Faulty variant: an entry received again is appended again.
AppendAlways(log, prev_log_index, entry) == Append(log, entry)

PutAfter(log, prev_log_index, entry) ==
  IF prev_log_index = LastLogIndex(log)
  THEN Append(log, entry)
  ELSE [log EXCEPT ![prev_log_index + 2] = entry]

BlockOf(entry, blockpool) == IF entry.hash \in blockpool THEN entry.hash ELSE NoHash

\* Faulty variant: the entry at the old commit index is handed over again.
BlocksFrom(log, from, to, blockpool) ==
  [i \in 1 .. (to - from + 1) |-> BlockOf(GetEntry(log, from + i - 1), blockpool)]

\* Faulty variant: the entry before the one that was committed.
BlocksShifted(log, from, to, blockpool) ==
  [i \in 1 .. (to - from) |-> BlockOf(GetEntry(log, from + i - 1), blockpool)]

\* What is handed over for the entries after `from` and up to `to`, in the order
\* of the log: for each its block, or NoHash, nothing, if it is not a block.
BlocksBetween(log, from, to, blockpool) ==
  [i \in 1 .. (to - from) |-> BlockOf(GetEntry(log, from + i), blockpool)]

-----------------------------------------------------------------------------
(* Accepting an AppendEntries message m.                                   *)

\* Faulty variant: the entry at the commit index itself may be replaced.
ModifiesCommittedOffByOne(m, commit_index) == m.prev_log_index < commit_index - 1

ModifiesCommitted(m, commit_index) == m.prev_log_index <= commit_index - 1

\* The uncommitted tail is of another term and follows a configuration change.
Discontinuity(log, commit_index, groups, m) ==
  /\ GetEntry(log, LastLogIndex(log)).term # m.term
  /\ LastLogIndex(log) > commit_index
  /\ commit_index < m.prev_log_index
  /\ IsConf(groups, GetEntry(log, commit_index))
  /\ m.hash # NoHash

NotUpToDate(log, groups, m) ==
  /\ GetEntry(log, m.prev_log_index).term # m.prev_log_term
  /\ ~ IsConf(groups, GetEntry(log, LastLogIndex(log)))

-----------------------------------------------------------------------------
(* Committing at the leader.                                               *)

\* A configuration, or the entry right after one, needs every node of the
\* group; any other entry more than half of them.
Approved(log, groups, group, match_indexes, i) ==
  LET count == Cardinality({n \in group : match_indexes[n] >= i})
  IN  IF \/ IsConf(groups, GetEntry(log, i))
         \/ IsConf(groups, GetEntry(log, i - 1))
      THEN count = Cardinality(group)
      ELSE count > Cardinality(group) \div 2

\* The loop visits every entry after the commit index and does not stop at one
\* that is not approved: the last approved entry wins.
NewCommitIndex(log, commit_index, groups, group, match_indexes) ==
  LET approved == {i \in (commit_index + 1) .. LastLogIndex(log) :
                     Approved(log, groups, group, match_indexes, i)}
  IN  IF approved = {} THEN commit_index
                       ELSE CHOOSE i \in approved : \A j \in approved : j <= i

-----------------------------------------------------------------------------
(* Groups.                                                                 *)

DetectGroupChange(current_group, group) ==
  LET common == group \cap current_group
  IN  IF group = current_group       THEN "NONE"
      ELSE IF common = group         THEN "SPLIT"
      ELSE IF common = current_group THEN "MERGE"
      ELSE "ARBITRARY"

\* Faulty variant: a change is pending without being registered.
InsertNothing(groups, id, members) == groups

\* map::insert leaves a group registered earlier as it is, operator[] does not.
InsertGroup(groups, id, members) ==
  [i \in DOMAIN groups \cup {id} |->
     IF i \in DOMAIN groups THEN groups[i] ELSE members]

\* Faulty variant: the members of a group that arrives with an entry are lost.
AssignIdentifier(groups, id, members) ==
  [i \in DOMAIN groups \cup {id} |-> IF i = id THEN {} ELSE groups[i]]

\* Faulty variant: a group that arrives with an entry is not registered.
AssignNothing(groups, id, members) == groups

AssignGroup(groups, id, members) ==
  [i \in DOMAIN groups \cup {id} |-> IF i = id THEN members ELSE groups[i]]

ApplyGroup(current_group, groups, id) ==
  IF id \in DOMAIN groups THEN groups[id] ELSE current_group
=============================================================================
