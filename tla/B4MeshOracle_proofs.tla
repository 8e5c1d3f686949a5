------------------------- MODULE B4MeshOracle_proofs -------------------------
(***************************************************************************)
(* For every network, every set of blocks and every bound: the variables   *)
(* keep their types, a commit index stays inside its log and what a node   *)
(* holds as committed is never changed.                                    *)
(*                                                                         *)
(* The invariant IndInv is inductive.  A step is looked at through         *)
(* LogStep, what it does to the logs and the commit indexes: every action  *)
(* is shown to keep the types and to satisfy LogStep, and the theorems     *)
(* follow from it.                                                         *)
(*                                                                         *)
(* The first lemmas are about the operators of OracleRules, each for every *)
(* value of its parameters: what they return and what they keep of a log.  *)
(* Entries are records [term, hash] with hashes of an arbitrary set H.     *)
(***************************************************************************)
EXTENDS B4MeshOracle, SequenceTheorems, WellFoundedInduction, TLAPS

EntriesOver(H) == [term : Int, hash : H]

-----------------------------------------------------------------------------
(* A non-empty set of integers that is bounded has a greatest element: the *)
(* CHOOSE of LastCommitConfIndex and of NewCommitIndex picks one.          *)

LEMMA GreatestExists ==
  ASSUME NEW a \in Int, NEW b \in Int, NEW S, S \subseteq a .. b, S # {}
  PROVE  \E i \in S : \A j \in S : j <= i
<1> DEFINE T == {k \in Nat : b - k \in S}
<1>1. T # {}
  <2>1. PICK i \in S : TRUE
    OBVIOUS
  <2>2. i \in a .. b
    BY <2>1
  <2>3. /\ b - i \in Nat
        /\ b - (b - i) = i
    BY <2>2
  <2> QED
    BY <2>1, <2>3
<1>2. IsWellFoundedOn(OpToRel(<, Nat), Nat)
  BY NatLessThanWellFounded
<1>3. PICK k \in T : \A h \in T : ~ (<<h, k>> \in OpToRel(<, Nat))
  BY <1>1, <1>2, WFMin
<1>4. \A j \in S : j <= b - k
  <2> SUFFICES ASSUME NEW j \in S PROVE j <= b - k
    OBVIOUS
  <2>1. /\ j \in Int
        /\ b - j \in Nat
        /\ b - (b - j) = j
    OBVIOUS
  <2>2. ~ (b - j < k)
    BY <1>3, <2>1 DEF OpToRel
  <2> QED
    BY <2>1, <2>2
<1> QED
  BY <1>3, <1>4

-----------------------------------------------------------------------------
(* Reading a log.                                                          *)

LEMMA GetEntryType ==
  ASSUME NEW H, NoHash \in H, NEW entries \in Seq(EntriesOver(H)), NEW i
  PROVE  GetEntry(entries, i) \in EntriesOver(H)
<1>1. CASE i \in 0 .. LastLogIndex(entries)
  <2>1. i + 1 \in 1 .. Len(entries)
    BY <1>1, LenProperties DEF LastLogIndex
  <2>2. entries[i + 1] \in EntriesOver(H)
    BY <2>1, ElementOfSeq
  <2> QED
    BY <1>1, <2>2 DEF GetEntry
<1>2. CASE i \notin 0 .. LastLogIndex(entries)
  BY <1>2 DEF GetEntry, Entry, EntriesOver, NoTerm
<1> QED
  BY <1>1, <1>2

LEMMA LastCommitConfIndexType ==
  ASSUME NEW entries, NEW c \in Int, NEW known
  PROVE  LastCommitConfIndex(entries, c, known) \in Int
<1> DEFINE confs == {i \in 0 .. c : IsConf(known, GetEntry(entries, i))}
<1>1. CASE confs = {}
  BY <1>1 DEF LastCommitConfIndex
<1>2. CASE confs # {}
  <2>1. confs \subseteq 0 .. c
    OBVIOUS
  <2> HIDE DEF confs
  <2>2. \E i \in confs : \A j \in confs : j <= i
    BY <1>2, <2>1, 0 \in Int, GreatestExists, Zenon
  <2>3. (CHOOSE i \in confs : \A j \in confs : j <= i) \in 0 .. c
    BY <2>1, <2>2
  <2> QED
    BY <1>2, <2>3 DEF LastCommitConfIndex, confs
<1> QED
  BY <1>1, <1>2

LEMMA GetCurrentGroupType ==
  ASSUME NEW H, NoHash \in H, NEW entries \in Seq(EntriesOver(H)), NEW c, NEW known
  PROVE  GetCurrentGroup(entries, c, known) \in H
<1>1. GetEntry(entries, LastCommitConfIndex(entries, c, known)) \in EntriesOver(H)
  BY GetEntryType
<1> QED
  BY <1>1 DEF GetCurrentGroup, EntriesOver

-----------------------------------------------------------------------------
(* Changing a log: the entries up to position c are kept.                  *)

Keeps(entries, l, c) ==
  /\ c <= LastLogIndex(l)
  /\ \A i \in 0 .. c : GetEntry(l, i) = GetEntry(entries, i)

LEMMA LastLogIndexType ==
  ASSUME NEW H, NEW entries \in Seq(EntriesOver(H))
  PROVE  /\ LastLogIndex(entries) \in Int
         /\ LastLogIndex(entries) >= -1
BY LenProperties DEF LastLogIndex

\* It is enough that the elements of the two sequences are the same.
LEMMA KeepsElements ==
  ASSUME NEW H, NEW entries \in Seq(EntriesOver(H)), NEW l \in Seq(EntriesOver(H)),
         NEW c \in Int, c < Len(entries), c < Len(l),
         \A i \in 1 .. (c + 1) : l[i] = entries[i]
  PROVE  Keeps(entries, l, c)
<1>1. /\ Len(entries) \in Nat
      /\ Len(l) \in Nat
  BY LenProperties
<1>2. c <= LastLogIndex(l)
  BY <1>1 DEF LastLogIndex
<1>3. ASSUME NEW i \in 0 .. c PROVE GetEntry(l, i) = GetEntry(entries, i)
  BY <1>1 DEF GetEntry, LastLogIndex
<1> QED
  BY <1>2, <1>3 DEF Keeps

LEMMA KeepsTransitive ==
  ASSUME NEW l1, NEW l2, NEW l3, NEW c \in Int,
         Keeps(l1, l2, c), Keeps(l2, l3, c)
  PROVE  Keeps(l1, l3, c)
BY DEF Keeps

LEMMA AppendKeeps ==
  ASSUME NEW H, NEW entries \in Seq(EntriesOver(H)), NEW e \in EntriesOver(H),
         NEW c \in -1 .. LastLogIndex(entries)
  PROVE  /\ Append(entries, e) \in Seq(EntriesOver(H))
         /\ LastLogIndex(Append(entries, e)) = LastLogIndex(entries) + 1
         /\ Keeps(entries, Append(entries, e), c)
<1>1. /\ Len(entries) \in Nat
      /\ c < Len(entries)
  BY LenProperties DEF LastLogIndex
<1>2. /\ Append(entries, e) \in Seq(EntriesOver(H))
      /\ Len(Append(entries, e)) = Len(entries) + 1
      /\ \A i \in 1 .. Len(entries) : Append(entries, e)[i] = entries[i]
  BY AppendProperties
<1>3. /\ c \in Int /\ c < Len(Append(entries, e))
      /\ \A i \in 1 .. (c + 1) : Append(entries, e)[i] = entries[i]
  BY <1>1, <1>2
<1>4. Keeps(entries, Append(entries, e), c)
  BY <1>1, <1>2, <1>3, KeepsElements, Zenon
<1> QED
  BY <1>1, <1>2, <1>4 DEF LastLogIndex

LEMMA RemoveUncommittedKeeps ==
  ASSUME NEW H, NEW entries \in Seq(EntriesOver(H)), NEW c \in -1 .. LastLogIndex(entries)
  PROVE  /\ RemoveUncommittedEntries(entries, c) \in Seq(EntriesOver(H))
         /\ LastLogIndex(RemoveUncommittedEntries(entries, c)) = c
         /\ Keeps(entries, RemoveUncommittedEntries(entries, c), c)
<1> DEFINE l == SubSeq(entries, 1, c + 1)
<1>1. /\ Len(entries) \in Nat
      /\ c \in Int /\ c + 1 \in 0 .. Len(entries)
  BY LenProperties DEF LastLogIndex
<1>2. CASE c < LastLogIndex(entries)
  <2>1. \A i \in 1 .. (c + 1) : entries[i] \in EntriesOver(H)
    BY <1>1, ElementOfSeq
  <2>2. /\ l \in Seq(EntriesOver(H))
        /\ Len(l) = c + 1
        /\ \A i \in 1 .. (c + 1) : l[i] = entries[i]
    BY <1>1, <2>1, SubSeqProperties
  <2> HIDE DEF l
  <2>3. c < Len(entries) /\ c < Len(l)
    BY <1>1, <2>2
  <2>4. Keeps(entries, l, c)
    BY <1>1, <2>2, <2>3, KeepsElements, Zenon
  <2> USE DEF l
  <2> QED
    BY <1>1, <1>2, <2>2, <2>4 DEF RemoveUncommittedEntries, LastLogIndex
<1>3. CASE ~ (c < LastLogIndex(entries))
  <2>1. c = LastLogIndex(entries)
    BY <1>1, <1>3 DEF LastLogIndex
  <2>2. Keeps(entries, entries, c)
    BY <1>1, <2>1 DEF Keeps
  <2> QED
    BY <1>3, <2>1, <2>2 DEF RemoveUncommittedEntries
<1> QED
  BY <1>2, <1>3

LEMMA PaddedKeeps ==
  ASSUME NEW H, NoHash \in H, NEW entries \in Seq(EntriesOver(H)),
         NEW c \in -1 .. LastLogIndex(entries), NEW d, NEW known,
         NEW term \in Int, NEW prev \in Int
  PROVE  /\ Padded(entries, d, known, term, prev) \in Seq(EntriesOver(H))
         /\ Keeps(entries, Padded(entries, d, known, term, prev), c)
<1> DEFINE e == Entry(term, GetCurrentGroup(entries, d, known))
           k == prev - LastLogIndex(entries)
           pad == [i \in 1 .. k |-> e]
<1>1. /\ Len(entries) \in Nat
      /\ c \in Int /\ c < Len(entries)
  BY LenProperties DEF LastLogIndex
<1>2. CASE Padded(entries, d, known, term, prev) = entries
  BY <1>1, <1>2 DEF Keeps, LastLogIndex
<1>3. CASE Padded(entries, d, known, term, prev) # entries
  <2>1. /\ Padded(entries, d, known, term, prev) = entries \o pad
        /\ LastLogIndex(entries) < prev
    BY <1>3 DEF Padded
  <2>2. k \in Nat
    BY <1>1, <2>1 DEF LastLogIndex
  <2>3. e \in EntriesOver(H)
    BY GetCurrentGroupType DEF Entry, EntriesOver
  <2>4. pad \in Seq(EntriesOver(H))
    BY <2>2, <2>3
  <2>5. /\ entries \o pad \in Seq(EntriesOver(H))
        /\ Len(entries \o pad) = Len(entries) + Len(pad)
        /\ \A i \in 1 .. Len(entries) + Len(pad) :
             (entries \o pad)[i] = IF i <= Len(entries) THEN entries[i] ELSE pad[i - Len(entries)]
    BY <2>4, ConcatProperties
  <2>6. Len(pad) \in Nat
    BY <2>4, LenProperties
  <2> HIDE DEF pad
  <2>7. /\ c < Len(entries \o pad)
        /\ \A i \in 1 .. (c + 1) : (entries \o pad)[i] = entries[i]
    BY <1>1, <2>5, <2>6
  <2>8. Keeps(entries, entries \o pad, c)
    BY <1>1, <2>5, <2>7, KeepsElements, Zenon
  <2> QED
    BY <2>1, <2>5, <2>8
<1> QED
  BY <1>2, <1>3

LEMMA PutAfterKeeps ==
  ASSUME NEW H, NEW entries \in Seq(EntriesOver(H)), NEW e \in EntriesOver(H),
         NEW c \in -1 .. LastLogIndex(entries), NEW prev \in c .. LastLogIndex(entries)
  PROVE  /\ PutAfter(entries, prev, e) \in Seq(EntriesOver(H))
         /\ Keeps(entries, PutAfter(entries, prev, e), c)
<1>1. /\ Len(entries) \in Nat
      /\ c \in Int /\ c < Len(entries)
      /\ prev \in Int /\ c <= prev
  BY LenProperties DEF LastLogIndex
<1>2. CASE prev = LastLogIndex(entries)
  BY <1>2, AppendKeeps DEF PutAfter
<1>3. CASE prev # LastLogIndex(entries)
  <2> DEFINE l == [entries EXCEPT ![prev + 2] = e]
  <2>1. prev + 2 \in 1 .. Len(entries)
    BY <1>1, <1>3 DEF LastLogIndex
  <2>2. /\ l \in Seq(EntriesOver(H))
        /\ Len(l) = Len(entries)
        /\ \A j \in 1 .. Len(entries) : l[j] = IF j = prev + 2 THEN e ELSE entries[j]
    BY <2>1, ExceptSeq
  <2> HIDE DEF l
  <2>3. ASSUME NEW i \in 1 .. (c + 1) PROVE l[i] = entries[i]
    <3>1. i \in 1 .. Len(entries) /\ i # prev + 2
      BY <1>1
    <3> QED BY <2>2, <3>1
  <2>4. Keeps(entries, l, c)
    BY <1>1, <2>2, <2>3, KeepsElements
  <2> QED
    BY <1>3, <2>2, <2>4 DEF PutAfter, l
<1> QED
  BY <1>2, <1>3

LEMMA NewCommitIndexBounds ==
  ASSUME NEW H, NEW entries \in Seq(EntriesOver(H)), NEW c \in -1 .. LastLogIndex(entries),
         NEW known, NEW group, NEW match
  PROVE  NewCommitIndex(entries, c, known, group, match) \in c .. LastLogIndex(entries)
<1> DEFINE approved == {i \in (c + 1) .. LastLogIndex(entries) :
                          Approved(entries, known, group, match, i)}
<1>1. LastLogIndex(entries) \in Int /\ c \in Int /\ c + 1 \in Int
  BY LastLogIndexType
<1>2. CASE approved = {}
  BY <1>1, <1>2 DEF NewCommitIndex
<1>3. CASE approved # {}
  <2>1. approved \subseteq (c + 1) .. LastLogIndex(entries)
    OBVIOUS
  <2> HIDE DEF approved
  <2>2. \E i \in approved : \A j \in approved : j <= i
    BY <1>1, <1>3, <2>1, GreatestExists, Zenon
  <2>3. (CHOOSE i \in approved : \A j \in approved : j <= i)
          \in (c + 1) .. LastLogIndex(entries)
    BY <2>1, <2>2
  <2>4. NewCommitIndex(entries, c, known, group, match) \in (c + 1) .. LastLogIndex(entries)
    BY <1>3, <2>3 DEF NewCommitIndex, approved
  <2> QED
    BY <1>1, <2>4
<1> QED
  BY <1>2, <1>3

-----------------------------------------------------------------------------
(* The invariant, and what a step does to the logs.                        *)

IndInv == StateTypeOK /\ CommitIndexInLog

\* At every node the committed entries are kept, and the commit index does not
\* go back and stays inside the log.
LogStep ==
  \A p \in Node : /\ Keeps(log[p], log'[p], commit_index[p])
                  /\ commit_index'[p] \in commit_index[p] .. LastLogIndex(log'[p])

-----------------------------------------------------------------------------
(* Types of the parts.                                                     *)

LEMMA LogEntryType ==
  /\ LogEntry = EntriesOver(Hash)
  /\ NoHash \in Hash
BY DEF LogEntry, EntriesOver, Hash

LEMMA AtNode ==
  ASSUME IndInv, NEW n \in Node
  PROVE  /\ log[n] \in Seq(EntriesOver(Hash))
         /\ commit_index[n] \in -1 .. LastLogIndex(log[n])
         /\ LastLogIndex(log[n]) \in Int
         /\ commit_index[n] \in Int
         /\ commit_index[n] >= -1
<1>1. log[n] \in Seq(EntriesOver(Hash))
  BY LogEntryType DEF IndInv, StateTypeOK, LogTypeOK
<1> QED
  BY <1>1, LastLogIndexType DEF IndInv, StateTypeOK, LogTypeOK, CommitIndexInLog

LEMMA KeepsLog ==
  ASSUME IndInv, NEW n \in Node
  PROVE  Keeps(log[n], log[n], commit_index[n])
BY AtNode DEF Keeps

LEMMA MessageType ==
  ASSUME NEW m \in Message
  PROVE  /\ m.src \in Node /\ m.dst \in Node /\ m.term \in Int
         /\ m.msg_type = "REQ_VOTE" => m \in ReqVote
         /\ m.msg_type = "ACK_VOTE" => m \in AckVote
         /\ m.msg_type \in {"APPEND_ENTRY", "APPEND_ENTRY_CONF"} => m \in AppendEntry
         /\ m.msg_type = "ACK_ENTRY" => m \in AckEntry
BY DEF Message, ReqVote, AckVote, AppendEntry, AppendOf, AckEntry

\* Whatever is lost, what is in flight afterwards is what was, or was sent.
LEMMA TransmitType ==
  ASSUME NEW left \in SUBSET Message, NEW packets \in SUBSET Message,
         Transmit(left, packets)
  PROVE  msgs' \in SUBSET Message
BY DEF Transmit

LEMMA ApplyGroupType ==
  ASSUME StateTypeOK, NEW n \in Node, NEW g \in SUBSET Node, NEW id
  PROVE  ApplyGroup(g, groups[n], id) \in SUBSET Node
BY DEF StateTypeOK, GroupTypeOK, ApplyGroup

LEMMA UnchangedTypes ==
  ASSUME StateTypeOK
  PROVE  /\ UNCHANGED electionVars => ElectionTypeOK'
         /\ UNCHANGED <<log, blockpool, commit_index>> => LogTypeOK'
         /\ UNCHANGED leaderVars => LeaderTypeOK'
         /\ UNCHANGED groupVars => GroupTypeOK'
         /\ UNCHANGED <<running, inputVars>> => InputTypeOK'
<1>1. UNCHANGED electionVars => ElectionTypeOK'
  BY DEF electionVars, StateTypeOK, ElectionTypeOK
<1>2. UNCHANGED <<log, blockpool, commit_index>> => LogTypeOK'
  BY DEF StateTypeOK, LogTypeOK
<1>3. UNCHANGED leaderVars => LeaderTypeOK'
  BY DEF leaderVars, StateTypeOK, LeaderTypeOK
<1>4. UNCHANGED groupVars => GroupTypeOK'
  BY DEF groupVars, StateTypeOK, GroupTypeOK
<1>5. UNCHANGED <<running, inputVars>> => InputTypeOK'
  BY DEF inputVars, StateTypeOK, InputTypeOK
<1> QED
  BY <1>1, <1>2, <1>3, <1>4, <1>5

\* An event that leaves logs and commit indexes alone is a LogStep.
LEMMA SameLogs ==
  ASSUME IndInv, log' = log, commit_index' = commit_index
  PROVE  LogStep
BY AtNode, KeepsLog DEF LogStep

\* An event of node n that changes the log and the commit index of n only.
LEMMA OneLog ==
  ASSUME IndInv, NEW n \in Node, NEW l, NEW c \in Int,
         log' = [log EXCEPT ![n] = l],
         commit_index' = [commit_index EXCEPT ![n] = c],
         Keeps(log[n], l, commit_index[n]),
         c \in commit_index[n] .. LastLogIndex(l)
  PROVE  LogStep
<1> SUFFICES ASSUME NEW p \in Node
             PROVE  /\ Keeps(log[p], log'[p], commit_index[p])
                    /\ commit_index'[p] \in commit_index[p] .. LastLogIndex(log'[p])
  BY DEF LogStep
<1>1. CASE p = n
  BY <1>1 DEF IndInv, StateTypeOK, LogTypeOK
<1>2. CASE p # n
  <2>1. log'[p] = log[p] /\ commit_index'[p] = commit_index[p]
    BY <1>2 DEF IndInv, StateTypeOK, LogTypeOK
  <2>2. commit_index[p] \in commit_index[p] .. LastLogIndex(log[p])
    BY AtNode
  <2> QED
    BY <2>1, <2>2, KeepsLog
<1> QED
  BY <1>1, <1>2

-----------------------------------------------------------------------------
(* A round of heartbeats.                                                  *)

LEMMA AppendEntriesType ==
  ASSUME IndInv, NEW n \in Node, NEW p \in Node, NEW term \in Int,
         NEW l \in Seq(EntriesOver(Hash)), NEW commit \in Int,
         NEW next \in [Node -> Int]
  PROVE  AppendEntriesTo(n, p, term, l, commit, next) \in Message
<1> DEFINE confIndex == LastCommitConfIndex(l, commit, groups[n])
           next_index == IF next[p] > confIndex THEN next[p] ELSE confIndex + 1
           entry == GetEntry(l, next_index)
           isBlock == entry.hash \in blockpool[n]
           isConf == ~ isBlock /\ IsConf(groups[n], entry)
           members == IF isConf THEN groups[n][entry.hash] ELSE {}
           prevTerm == GetEntry(l, next_index - 1).term
           entryTerm == IF isBlock \/ isConf THEN entry.term ELSE NoTerm
           hash == IF isBlock \/ isConf THEN entry.hash ELSE NoHash
           type == IF isConf THEN "APPEND_ENTRY_CONF" ELSE "APPEND_ENTRY"
<1>1. next_index \in Int
  BY LastCommitConfIndexType
<1>2. entry \in EntriesOver(Hash) /\ GetEntry(l, next_index - 1) \in EntriesOver(Hash)
  BY GetEntryType, LogEntryType
<1>3. entry.hash \in Hash /\ entry.term \in Int /\ prevTerm \in Int
  BY <1>2 DEF EntriesOver
<1>4. members \in SUBSET Node
  BY DEF IndInv, StateTypeOK, GroupTypeOK, IsConf
<1>5. /\ entryTerm \in Int
      /\ isConf => hash \in GroupId
      /\ ~ isConf => hash \in Block \cup {NoHash}
  BY <1>3 DEF NoTerm, IsConf, IndInv, StateTypeOK, LogTypeOK, GroupTypeOK
<1>6. commit_index[n] \in Int
  BY AtNode
<1>7. \/ type = "APPEND_ENTRY" /\ hash \in Block \cup {NoHash}
      \/ type = "APPEND_ENTRY_CONF" /\ hash \in GroupId
  BY <1>5
<1> HIDE DEF confIndex, next_index, members, entryTerm, hash, prevTerm, type
<1>8. [msg_type |-> type, src |-> n, dst |-> p, term |-> term,
       prev_log_index |-> next_index - 1, prev_log_term |-> prevTerm,
       leader_commit |-> commit_index[n], entry_term |-> entryTerm,
       hash |-> hash, members |-> members] \in AppendEntry
  BY <1>1, <1>3, <1>4, <1>5, <1>6, <1>7 DEF AppendEntry, AppendOf
<1> QED
  BY <1>8 DEF AppendEntriesTo, Message, confIndex, next_index, members, entryTerm,
              hash, prevTerm, type

RoundOK(n, round) ==
  /\ round.log \in Seq(EntriesOver(Hash))
  /\ Keeps(log[n], round.log, commit_index[n])
  /\ round.commit_index \in Int
  /\ round.commit_index \in commit_index[n] .. LastLogIndex(round.log)
  /\ round.next \in [Node -> Int]
  /\ round.match \in [Node -> Int]
  /\ round.group \in SUBSET Node
  /\ round.pending \in Seq([id : GroupId, members : SUBSET Node])
  /\ round.state \in {"LEADER", "FOLLOWER"}
  /\ round.packets \in SUBSET Message

LEMMA HeartbeatRoundOK ==
  ASSUME IndInv, NEW n \in Node, NEW term \in Int, NEW group \in SUBSET Node,
         NEW next \in [Node -> Int], NEW match \in [Node -> Int]
  PROVE  RoundOK(n, HeartbeatRound(n, term, group, next, match))
<1> DEFINE g == SplitApplied(n, group)
           pending == pending_groups[n]
           adds == AddsConfiguration(n)
           l == IF adds THEN Append(log[n], Entry(term, Head(pending).id)) ELSE log[n]
           commit == IF Cardinality(g) = 1 THEN LastLogIndex(l) ELSE commit_index[n]
           nextNow == IF adds THEN [next EXCEPT ![n] = LastLogIndex(l) + 1] ELSE next
           matchNow == IF adds THEN [match EXCEPT ![n] = LastLogIndex(l)] ELSE match
           finishing == commit = LastLogIndex(l) /\ pending # <<>>
           newGroup == GetCurrentGroup(l, commit, groups[n])
           left == IF finishing /\ Head(pending).id = newGroup THEN Tail(pending)
                                                               ELSE pending
           groupNow == IF finishing THEN ApplyGroup(g, groups[n], newGroup) ELSE g
           state == IF finishing /\ left = <<>> THEN "FOLLOWER" ELSE "LEADER"
           packets == {AppendEntriesTo(n, p, term, l, commit, nextNow) : p \in g \ {n}}
<1> DEFINE PendingGroup == [id : GroupId, members : SUBSET Node]
<1>1. g \in SUBSET Node
  BY ApplyGroupType DEF SplitApplied, IndInv
<1>2. pending \in Seq(PendingGroup)
  BY DEF IndInv, StateTypeOK, GroupTypeOK
<1>3. ASSUME pending # <<>>
      PROVE  Head(pending) \in PendingGroup /\ Tail(pending) \in Seq(PendingGroup)
  BY <1>2, <1>3, HeadTailProperties
<1>4. left \in Seq(PendingGroup)
  BY <1>2, <1>3
<1>5. ASSUME adds PROVE Entry(term, Head(pending).id) \in EntriesOver(Hash)
  BY <1>3, <1>5 DEF AddsConfiguration, Entry, EntriesOver, Hash
<1>6. /\ l \in Seq(EntriesOver(Hash))
      /\ Keeps(log[n], l, commit_index[n])
  <2>1. CASE adds
    BY <1>5, <2>1, AtNode, AppendKeeps
  <2>2. CASE ~ adds
    BY <2>2, AtNode, KeepsLog
  <2> QED
    BY <2>1, <2>2
<1> HIDE DEF l
<1>7. LastLogIndex(l) \in Int /\ commit_index[n] <= LastLogIndex(l)
  BY <1>6, LastLogIndexType DEF Keeps
<1>8. commit \in Int /\ commit \in commit_index[n] .. LastLogIndex(l)
  BY <1>7, AtNode
<1>9. nextNow \in [Node -> Int] /\ matchNow \in [Node -> Int]
  BY <1>7
<1>10. groupNow \in SUBSET Node
  BY <1>1, ApplyGroupType DEF IndInv
<1>11. state \in {"LEADER", "FOLLOWER"}
  OBVIOUS
<1> HIDE DEF g, commit, nextNow, matchNow, finishing, newGroup, left, groupNow, state
<1>12. packets \in SUBSET Message
  BY <1>1, <1>6, <1>8, <1>9, AppendEntriesType
<1> HIDE DEF packets
<1> DEFINE round == [log |-> l, commit_index |-> commit, next |-> nextNow,
                     match |-> matchNow, group |-> groupNow, pending |-> left,
                     state |-> state, packets |-> packets]
<1>13. HeartbeatRound(n, term, group, next, match) = round
  BY DEF HeartbeatRound, l, g, commit, nextNow, matchNow, finishing, newGroup, left,
         groupNow, state, packets
<1>14. RoundOK(n, round)
  BY <1>4, <1>6, <1>8, <1>9, <1>10, <1>11, <1>12 DEF RoundOK
<1> QED
  BY <1>13, <1>14

\* What a round that satisfies RoundOK leaves behind.
LEMMA HeartbeatsOK ==
  ASSUME IndInv, NEW n \in Node, NEW round, RoundOK(n, round), Heartbeats(n, round)
  PROVE  /\ LogStep
         /\ current_state' \in [Node -> {"LEADER", "FOLLOWER", "CANDIDATE"}]
         /\ LogTypeOK' /\ LeaderTypeOK' /\ GroupTypeOK'
<1>1. LogStep
  BY OneLog DEF Heartbeats, RoundOK
<1>2. LogTypeOK'
  BY LogEntryType DEF Heartbeats, RoundOK, IndInv, StateTypeOK, LogTypeOK
<1>3. LeaderTypeOK'
  BY DEF Heartbeats, RoundOK, IndInv, StateTypeOK, LeaderTypeOK
<1>4. GroupTypeOK'
  BY DEF Heartbeats, RoundOK, IndInv, StateTypeOK, GroupTypeOK
<1>5. current_state' \in [Node -> {"LEADER", "FOLLOWER", "CANDIDATE"}]
  BY DEF Heartbeats, RoundOK, IndInv, StateTypeOK, ElectionTypeOK
<1> QED
  BY <1>1, <1>2, <1>3, <1>4, <1>5

-----------------------------------------------------------------------------
(* Every action keeps the types and is a LogStep.                          *)

LEMMA SendHeartbeatsOK ==
  ASSUME IndInv, NEW n \in Node, SendHeartbeats(n)
  PROVE  StateTypeOK' /\ LogStep
<1> DEFINE round == HeartbeatRound(n, current_term[n], current_group[n],
                                   next_indexes[n], match_indexes[n])
<1>1. RoundOK(n, round)
  BY HeartbeatRoundOK
     DEF IndInv, StateTypeOK, ElectionTypeOK, LeaderTypeOK, GroupTypeOK
<1>2. Heartbeats(n, round) /\ Send(round.packets)
  BY DEF SendHeartbeats
<1> HIDE DEF round
<1>3. msgs' \in SUBSET Message
  BY <1>1, <1>2, TransmitType DEF Send, RoundOK, IndInv, StateTypeOK
<1>4. LogStep /\ LogTypeOK' /\ LeaderTypeOK' /\ GroupTypeOK'
  BY <1>1, <1>2, HeartbeatsOK
<1>5. ElectionTypeOK'
  BY <1>1, <1>2, HeartbeatsOK DEF SendHeartbeats, IndInv, StateTypeOK, ElectionTypeOK
<1>6. InputTypeOK'
  BY UnchangedTypes DEF SendHeartbeats, IndInv
<1> QED
  BY <1>3, <1>4, <1>5, <1>6 DEF StateTypeOK

LEMMA ElectionTimeoutAfterVoteOK ==
  ASSUME IndInv, NEW n \in Node, ElectionTimeoutAfterVote(n)
  PROVE  StateTypeOK' /\ LogStep
<1>1. LogStep
  BY SameLogs DEF ElectionTimeoutAfterVote, logVars
<1>2. ElectionTypeOK'
  BY DEF ElectionTimeoutAfterVote, IndInv, StateTypeOK, ElectionTypeOK
<1>3. LogTypeOK' /\ LeaderTypeOK' /\ GroupTypeOK' /\ InputTypeOK'
  BY UnchangedTypes DEF ElectionTimeoutAfterVote, logVars, IndInv
<1> QED
  BY <1>1, <1>2, <1>3 DEF ElectionTimeoutAfterVote, IndInv, StateTypeOK

LEMMA VoteRequestsType ==
  ASSUME IndInv, NEW n \in Node, NEW term \in Int, NEW group \in SUBSET Node
  PROVE  VoteRequests(n, term, group) \in SUBSET Message
<1> DEFINE lastTerm == IF commit_index[n] >= 0
                       THEN GetEntry(log[n], LastLogIndex(log[n])).term ELSE NoTerm
           request(p) == [msg_type |-> "REQ_VOTE", src |-> n, dst |-> p, term |-> term,
                          last_log_index |-> LastLogIndex(log[n]),
                          last_log_term |-> lastTerm]
<1>1. GetEntry(log[n], LastLogIndex(log[n])) \in EntriesOver(Hash)
  BY AtNode, GetEntryType, LogEntryType
<1>2. lastTerm \in Int /\ LastLogIndex(log[n]) \in Int
  BY <1>1, AtNode DEF EntriesOver, NoTerm
<1> HIDE DEF lastTerm
<1>3. \A p \in Node : request(p) \in ReqVote
  BY <1>2 DEF ReqVote
<1> QED
  BY <1>3 DEF VoteRequests, Message, lastTerm

LEMMA StandForElectionOK ==
  ASSUME IndInv, NEW n \in Node, StandForElection(n)
  PROVE  StateTypeOK' /\ LogStep
<1> DEFINE term == IF current_state[n] = "CANDIDATE" THEN current_term[n]
                                                     ELSE current_term[n] + 1
           group == SplitApplied(n, current_group[n])
           round == HeartbeatRound(n, term, group, FirstNext(n), FirstMatch)
           requests == VoteRequests(n, term, group)
<1>1. term \in Int
  BY DEF IndInv, StateTypeOK, ElectionTypeOK
<1>2. group \in SUBSET Node
  BY ApplyGroupType DEF SplitApplied, IndInv, StateTypeOK, GroupTypeOK
<1>3. FirstNext(n) \in [Node -> Int] /\ FirstMatch \in [Node -> Int]
  BY AtNode DEF FirstNext, FirstMatch
<1> HIDE DEF term, group
<1>4. RoundOK(n, round)
  BY <1>1, <1>2, <1>3, HeartbeatRoundOK
<1>5. requests \in SUBSET Message
  BY <1>1, <1>2, VoteRequestsType
<1> HIDE DEF round, requests
<1>6. /\ current_term' = [current_term EXCEPT ![n] = term]
      /\ voted_for' = [voted_for EXCEPT ![n] = n]
      /\ gathered_votes' = [gathered_votes EXCEPT ![n] = 1]
      /\ UNCHANGED <<running, inputVars>>
  BY DEF StandForElection, term
<1>7. InputTypeOK'
  BY <1>6, UnchangedTypes DEF IndInv
<1>8. CASE /\ current_state' = [current_state EXCEPT ![n] = "CANDIDATE"]
           /\ current_leader' = [current_leader EXCEPT ![n] = NoNode]
           /\ current_group' = [current_group EXCEPT ![n] = group]
           /\ Send(requests)
           /\ UNCHANGED <<logVars, leaderVars, pending_groups, groups>>
  <2>1. LogStep
    BY <1>8, SameLogs DEF logVars
  <2>2. msgs' \in SUBSET Message
    BY <1>5, <1>8, TransmitType DEF Send, IndInv, StateTypeOK
  <2>3. ElectionTypeOK'
    BY <1>1, <1>6, <1>8 DEF IndInv, StateTypeOK, ElectionTypeOK
  <2>4. LogTypeOK' /\ LeaderTypeOK'
    BY <1>8, UnchangedTypes DEF logVars, IndInv
  <2>5. GroupTypeOK'
    BY <1>2, <1>8 DEF IndInv, StateTypeOK, GroupTypeOK
  <2> QED
    BY <1>7, <2>1, <2>2, <2>3, <2>4, <2>5 DEF StateTypeOK
<1>9. CASE /\ current_leader' = [current_leader EXCEPT ![n] = n]
           /\ Heartbeats(n, round)
           /\ Send(requests \cup round.packets)
  <2>1. msgs' \in SUBSET Message
    BY <1>4, <1>5, <1>9, TransmitType DEF Send, RoundOK, IndInv, StateTypeOK
  <2>2. LogStep /\ LogTypeOK' /\ LeaderTypeOK' /\ GroupTypeOK'
    BY <1>4, <1>9, HeartbeatsOK
  <2>3. ElectionTypeOK'
    BY <1>1, <1>4, <1>6, <1>9, HeartbeatsOK DEF IndInv, StateTypeOK, ElectionTypeOK
  <2> QED
    BY <1>7, <2>1, <2>2, <2>3 DEF StateTypeOK
<1> QED
  BY <1>8, <1>9 DEF StandForElection, term, group, round, requests

\* The packet r that answers m, if it is a message, keeps the network typed.
LEMMA ReplyType ==
  ASSUME IndInv, NEW m, NEW r \in Message, Reply(m, r)
  PROVE  msgs' \in SUBSET Message
<1>1. msgs \in SUBSET Message /\ {r} \in SUBSET Message
  BY DEF IndInv, StateTypeOK
<1>2. CASE running
  BY <1>1, <1>2 DEF Reply, ReceiveAndSend, Transmit
<1>3. CASE ~ running
  BY <1>1, <1>3 DEF Reply, Receive
<1> QED
  BY <1>2, <1>3

LEMMA ProcessRequestVoteOK ==
  ASSUME IndInv, NEW m \in msgs, NEW n \in Node, ProcessRequestVote(n, m)
  PROVE  StateTypeOK' /\ LogStep
<1>1. m \in ReqVote /\ m.src \in Node /\ m.term \in Int /\ m.last_log_index \in Int
  <2>1. m \in ReqVote
    BY MessageType DEF ProcessRequestVote, IndInv, StateTypeOK
  <2> QED
    BY <2>1 DEF ReqVote
<1>2. LogStep
  BY SameLogs DEF ProcessRequestVote, logVars
<1>3. LogTypeOK' /\ LeaderTypeOK' /\ GroupTypeOK' /\ InputTypeOK'
  BY UnchangedTypes DEF ProcessRequestVote, logVars, IndInv
<1>4. ASSUME NEW term \in Int, NEW granted \in BOOLEAN
      PROVE  VoteAnswer(n, m, term, granted) \in Message
  BY <1>1, AtNode DEF VoteAnswer, Message, AckVote
<1>5. CASE /\ Reply(m, VoteAnswer(n, m, current_term[n], FALSE))
           /\ UNCHANGED electionVars
  <2>1. current_term[n] \in Int
    BY DEF IndInv, StateTypeOK, ElectionTypeOK
  <2>2. msgs' \in SUBSET Message
    BY <1>4, <1>5, <2>1, ReplyType
  <2> QED
    BY <1>2, <1>3, <1>5, <2>2, UnchangedTypes DEF IndInv, StateTypeOK
<1>6. CASE TermIsNew(m, current_term[n])
  <2> DEFINE grant == m.last_log_index >= LastLogIndex(log[n])
  <2>1. grant \in BOOLEAN
    OBVIOUS
  <2>2. /\ current_term' = [current_term EXCEPT ![n] = m.term]
        /\ current_state' = [current_state EXCEPT ![n] = StateAfterNewTerm(n)]
        /\ voted_for' = [voted_for EXCEPT ![n] = IF grant THEN m.src ELSE NoNode]
        /\ Reply(m, VoteAnswer(n, m, m.term, grant))
        /\ UNCHANGED <<current_leader, gathered_votes>>
    BY <1>6 DEF ProcessRequestVote
  <2> HIDE DEF grant
  <2>3. msgs' \in SUBSET Message
    BY <1>1, <1>4, <2>1, <2>2, ReplyType
  <2>4. ElectionTypeOK'
    BY <1>1, <2>2 DEF IndInv, StateTypeOK, ElectionTypeOK, StateAfterNewTerm
  <2> QED
    BY <1>2, <1>3, <2>3, <2>4 DEF StateTypeOK
<1> QED
  BY <1>5, <1>6 DEF ProcessRequestVote

\* Dropping the uncommitted entries of n is a LogStep that keeps the logs typed.
LEMMA RemoveIsLogStep ==
  ASSUME IndInv, NEW n \in Node,
         log' = [log EXCEPT ![n] = RemoveUncommittedEntries(@, commit_index[n])],
         UNCHANGED <<blockpool, commit_index>>
  PROVE  LogStep /\ LogTypeOK'
<1> DEFINE l == RemoveUncommittedEntries(log[n], commit_index[n])
<1>1. /\ l \in Seq(EntriesOver(Hash))
      /\ LastLogIndex(l) = commit_index[n]
      /\ Keeps(log[n], l, commit_index[n])
  BY AtNode, RemoveUncommittedKeeps
<1>2. log' = [log EXCEPT ![n] = l]
  OBVIOUS
<1> HIDE DEF l
<1>3. commit_index' = [commit_index EXCEPT ![n] = commit_index[n]]
  BY DEF IndInv, StateTypeOK, LogTypeOK
<1>4. commit_index[n] \in Int /\ commit_index[n] \in commit_index[n] .. LastLogIndex(l)
  BY <1>1, AtNode
<1>5. LogStep
  BY <1>1, <1>2, <1>3, <1>4, OneLog
<1>6. LogTypeOK'
  BY <1>1, <1>2, LogEntryType DEF IndInv, StateTypeOK, LogTypeOK
<1> QED
  BY <1>5, <1>6

LEMMA ProcessVoteResponseOK ==
  ASSUME IndInv, NEW m \in msgs, NEW n \in Node, ProcessVoteResponse(n, m)
  PROVE  StateTypeOK' /\ LogStep
<1> DEFINE votes == gathered_votes[n] + (IF m.vote_granted THEN 1 ELSE 0)
           round == HeartbeatRound(n, current_term[n], current_group[n],
                                   FirstNext(n), FirstMatch)
<1>1. m.term \in Int
  BY MessageType DEF IndInv, StateTypeOK
<1>2. InputTypeOK'
  BY UnchangedTypes DEF ProcessVoteResponse, IndInv
<1>3. Receive(m) => msgs' \in SUBSET Message
  BY DEF Receive, IndInv, StateTypeOK
<1>4. CASE Receive(m) /\ UNCHANGED <<electionVars, logVars, leaderVars, groupVars>>
  <2>1. LogStep
    BY <1>4, SameLogs DEF logVars
  <2>2. ElectionTypeOK' /\ LogTypeOK' /\ LeaderTypeOK' /\ GroupTypeOK'
    BY <1>4, UnchangedTypes DEF logVars, IndInv
  <2> QED
    BY <1>2, <1>3, <1>4, <2>1, <2>2 DEF StateTypeOK
<1>5. CASE /\ Receive(m)
           /\ current_term' = [current_term EXCEPT ![n] = m.term]
           /\ current_state' = [current_state EXCEPT ![n] = "FOLLOWER"]
           /\ log' = [log EXCEPT ![n] = RemoveUncommittedEntries(@, commit_index[n])]
           /\ UNCHANGED <<voted_for, current_leader, gathered_votes, blockpool,
                          commit_index, delivered, leaderVars, groupVars>>
  <2>1. LogStep /\ LogTypeOK'
    BY <1>5, RemoveIsLogStep
  <2>2. ElectionTypeOK'
    BY <1>1, <1>5 DEF IndInv, StateTypeOK, ElectionTypeOK
  <2>3. LeaderTypeOK' /\ GroupTypeOK'
    BY <1>5, UnchangedTypes DEF IndInv
  <2> QED
    BY <1>2, <1>3, <1>5, <2>1, <2>2, <2>3 DEF StateTypeOK
<1>6. CASE /\ gathered_votes' = [gathered_votes EXCEPT ![n] = votes]
           /\ UNCHANGED <<current_term, voted_for>>
           /\ Receive(m)
           /\ UNCHANGED <<current_state, current_leader, logVars, leaderVars, groupVars>>
  <2>1. LogStep
    BY <1>6, SameLogs DEF logVars
  <2>2. ElectionTypeOK'
    BY <1>6 DEF IndInv, StateTypeOK, ElectionTypeOK
  <2>3. LogTypeOK' /\ LeaderTypeOK' /\ GroupTypeOK'
    BY <1>6, UnchangedTypes DEF logVars, IndInv
  <2> QED
    BY <1>2, <1>3, <1>6, <2>1, <2>2, <2>3 DEF StateTypeOK
<1>7. CASE /\ gathered_votes' = [gathered_votes EXCEPT ![n] = votes]
           /\ UNCHANGED <<current_term, voted_for>>
           /\ current_leader' = [current_leader EXCEPT ![n] = n]
           /\ Heartbeats(n, round)
           /\ ReceiveAndSend(m, round.packets)
  <2>1. FirstNext(n) \in [Node -> Int] /\ FirstMatch \in [Node -> Int]
    BY AtNode DEF FirstNext, FirstMatch
  <2>2. current_term[n] \in Int /\ current_group[n] \in SUBSET Node
    BY DEF IndInv, StateTypeOK, ElectionTypeOK, GroupTypeOK
  <2>3. RoundOK(n, round)
    BY <2>1, <2>2, HeartbeatRoundOK
  <2> HIDE DEF round
  <2>4. msgs' \in SUBSET Message
    BY <1>7, <2>3, TransmitType DEF ReceiveAndSend, RoundOK, IndInv, StateTypeOK
  <2>5. LogStep /\ LogTypeOK' /\ LeaderTypeOK' /\ GroupTypeOK'
    BY <1>7, <2>3, HeartbeatsOK
  <2>6. ElectionTypeOK'
    BY <1>7, <2>3, HeartbeatsOK DEF IndInv, StateTypeOK, ElectionTypeOK
  <2> QED
    BY <1>2, <2>4, <2>5, <2>6 DEF StateTypeOK
<1> HIDE DEF votes, round
<1> QED
  BY <1>4, <1>5, <1>6, <1>7 DEF ProcessVoteResponse, votes, round

\* The registered groups after one node has registered some.
LEMMA GroupsType ==
  ASSUME StateTypeOK, NEW n \in Node, NEW known,
         groups' = [groups EXCEPT ![n] = known],
         DOMAIN known \subseteq GroupId,
         \A id \in DOMAIN known : known[id] \subseteq Node
  PROVE  /\ DOMAIN groups' = Node
         /\ \A p \in Node : /\ DOMAIN groups'[p] \subseteq GroupId
                            /\ \A id \in DOMAIN groups'[p] : groups'[p][id] \subseteq Node
<1>1. DOMAIN groups' = Node
  BY DEF StateTypeOK, GroupTypeOK
<1>2. ASSUME NEW p \in Node
      PROVE  /\ DOMAIN groups'[p] \subseteq GroupId
             /\ \A id \in DOMAIN groups'[p] : groups'[p][id] \subseteq Node
  <2>1. CASE p = n
    BY <2>1 DEF StateTypeOK, GroupTypeOK
  <2>2. CASE p # n
    BY <2>2 DEF StateTypeOK, GroupTypeOK
  <2> QED
    BY <2>1, <2>2
<1> QED
  BY <1>1, <1>2

\* The log an AppendEntries message works on still holds what was committed.
LEMMA PreparedKeeps ==
  ASSUME IndInv, NEW n \in Node, NEW m \in AppendEntry, NEW term \in Int
  PROVE  /\ Trimmed(n, m) \in Seq(EntriesOver(Hash))
         /\ Keeps(log[n], Trimmed(n, m), commit_index[n])
         /\ Prepared(n, m, term) \in Seq(EntriesOver(Hash))
         /\ Keeps(log[n], Prepared(n, m, term), commit_index[n])
<1> DEFINE c == commit_index[n]
           t == Trimmed(n, m)
<1>1. /\ log[n] \in Seq(EntriesOver(Hash))
      /\ c \in -1 .. LastLogIndex(log[n]) /\ c \in Int
  BY AtNode
<1>2. m.prev_log_index \in Int
  BY DEF AppendEntry, AppendOf, Hash
<1>3. t \in Seq(EntriesOver(Hash)) /\ Keeps(log[n], t, c)
  BY <1>1, RemoveUncommittedKeeps, KeepsLog DEF Trimmed
<1> HIDE DEF t
<1>4. c \in -1 .. LastLogIndex(t)
  BY <1>1, <1>3, LastLogIndexType DEF Keeps
<1> DEFINE padded == Padded(t, c, groups[n], term, m.prev_log_index)
<1>5. padded \in Seq(EntriesOver(Hash)) /\ Keeps(t, padded, c)
  BY <1>2, <1>3, <1>4, LogEntryType, PaddedKeeps
<1>6. Keeps(log[n], padded, c)
  BY <1>1, <1>3, <1>5, KeepsTransitive
<1> HIDE DEF padded
<1> QED
  BY <1>3, <1>5, <1>6 DEF Prepared, t, padded

LEMMA EntryAnswerType ==
  ASSUME IndInv, NEW n \in Node, NEW m \in AppendEntry, NEW commit \in Int,
         NEW last \in Int, NEW success \in BOOLEAN
  PROVE  EntryAnswer(n, m, commit, last, success) \in Message
<1>1. m.src \in Node
  BY DEF AppendEntry, AppendOf, Hash
<1>2. current_term[n] \in Int
  BY DEF IndInv, StateTypeOK, ElectionTypeOK
<1> QED
  BY <1>1, <1>2 DEF EntryAnswer, Message, AckEntry

LEMMA RejectEntriesOK ==
  ASSUME IndInv, NEW n \in Node, NEW m \in AppendEntry, NEW term \in Int,
         RejectEntries(n, m, term)
  PROVE  /\ LogStep
         /\ LogTypeOK' /\ LeaderTypeOK' /\ GroupTypeOK'
         /\ msgs' \in SUBSET Message
<1>1. PICK l \in Seq(EntriesOver(Hash)) :
        /\ log' = [log EXCEPT ![n] = l]
        /\ Keeps(log[n], l, commit_index[n])
  BY PreparedKeeps, AtNode, KeepsLog DEF RejectEntries
<1>2. UNCHANGED <<blockpool, commit_index, delivered, leaderVars, groupVars>>
  BY DEF RejectEntries
<1>3. commit_index' = [commit_index EXCEPT ![n] = commit_index[n]]
  BY <1>2 DEF IndInv, StateTypeOK, LogTypeOK
<1>4. commit_index[n] \in Int /\ commit_index[n] \in commit_index[n] .. LastLogIndex(l)
  BY <1>1, AtNode, LastLogIndexType DEF Keeps
<1>5. LogStep
  BY <1>1, <1>3, <1>4, OneLog
<1>6. LogTypeOK'
  BY <1>1, <1>2, LogEntryType DEF IndInv, StateTypeOK, LogTypeOK
<1>7. LeaderTypeOK' /\ GroupTypeOK'
  BY <1>2, UnchangedTypes DEF IndInv
<1>8. EntryAnswer(n, m, commit_index[n], LastLogIndex(log[n]), FALSE) \in Message
  BY AtNode, EntryAnswerType
<1>9. msgs' \in SUBSET Message
  BY <1>8, ReplyType DEF RejectEntries
<1> QED
  BY <1>5, <1>6, <1>7, <1>9

\* The entry goes after the commit index: nothing committed is replaced, and the
\* commit index follows the leader no further than the end of the log.
LEMMA AcceptEntriesOK ==
  ASSUME IndInv, NEW n \in Node, NEW m \in AppendEntry, NEW term \in Int,
         NEW state, AcceptEntries(n, m, term, state)
  PROVE  /\ LogStep
         /\ LogTypeOK' /\ LeaderTypeOK' /\ GroupTypeOK'
         /\ msgs' \in SUBSET Message
<1> DEFINE c == commit_index[n]
           before == Prepared(n, m, term)
           isNew == m.prev_log_index = LastLogIndex(before)
           entry == Entry(TermOfEntry(m, isNew, term), m.hash)
           l == IF m.hash = NoHash THEN before
                ELSE PutAfter(before, m.prev_log_index, entry)
           last == LastLogIndex(l)
           known == IF CarriesConf(m) THEN AssignGroup(groups[n], m.hash, m.members)
                                      ELSE groups[n]
           pool == IF CarriesBlock(m) THEN blockpool[n] \cup {m.hash} ELSE blockpool[n]
           advances == m.leader_commit > commit_index[n]
           commit == IF ~ advances THEN c
                     ELSE IF m.leader_commit < last THEN m.leader_commit ELSE last
           applies == advances /\ pending_groups[n] # <<>>
           newGroup == GetCurrentGroup(l, commit, known)
           asLeader == state = "LEADER" /\ CarriesBlock(m) /\ isNew
<1>1. /\ m.prev_log_index \in Int /\ m.leader_commit \in Int /\ m.entry_term \in Int
      /\ m.hash \in Hash /\ m.members \in SUBSET Node
  BY DEF AppendEntry, AppendOf, Hash
<1>2. c \in Int /\ c >= -1
  BY AtNode
<1>3. before \in Seq(EntriesOver(Hash)) /\ Keeps(log[n], before, c)
  BY PreparedKeeps
<1>4. entry \in EntriesOver(Hash)
  BY <1>1 DEF Entry, EntriesOver, TermOfEntry
<1>5. /\ ~ ModifiesCommitted(m, c)
      /\ m.hash # NoHash => ~ LeavesGap(before, m.prev_log_index)
  BY DEF AcceptEntries
<1>6. LastLogIndex(before) \in Int /\ c <= LastLogIndex(before)
  BY <1>3, LastLogIndexType DEF Keeps
<1> HIDE DEF before, entry
<1>7. l \in Seq(EntriesOver(Hash)) /\ Keeps(log[n], l, c)
  <2>1. CASE m.hash = NoHash
    BY <1>3, <2>1
  <2>2. CASE m.hash # NoHash
    <3>1. m.prev_log_index \in c .. LastLogIndex(before)
      BY <1>1, <1>2, <1>5, <1>6, <2>2 DEF ModifiesCommitted, LeavesGap
    <3>2. c \in -1 .. LastLogIndex(before)
      BY <1>2, <1>6
    <3>3. /\ PutAfter(before, m.prev_log_index, entry) \in Seq(EntriesOver(Hash))
          /\ Keeps(before, PutAfter(before, m.prev_log_index, entry), c)
      BY <1>3, <1>4, <3>1, <3>2, PutAfterKeeps
    <3> QED
      BY <1>2, <1>3, <2>2, <3>3, KeepsTransitive
  <2> QED
    BY <2>1, <2>2
<1> HIDE DEF l
<1>8. last \in Int /\ c <= last
  BY <1>7, LastLogIndexType DEF Keeps
<1>9. commit \in Int /\ commit \in c .. last
  BY <1>1, <1>2, <1>8
<1> HIDE DEF last, known, pool, commit, newGroup, asLeader, applies
<1>10. /\ log' = [log EXCEPT ![n] = l]
       /\ groups' = [groups EXCEPT ![n] = known]
       /\ blockpool' = [blockpool EXCEPT ![n] = pool]
       /\ commit_index' = [commit_index EXCEPT ![n] = commit]
       /\ current_group' = [current_group EXCEPT
                              ![n] = IF applies THEN ApplyGroup(@, known, newGroup) ELSE @]
       /\ pending_groups' = [pending_groups EXCEPT
                               ![n] = IF applies /\ Head(@).id = newGroup
                                      THEN Tail(@) ELSE @]
       /\ match_indexes' = [match_indexes EXCEPT
                              ![n][n] = IF asLeader THEN last ELSE @]
       /\ next_indexes' = [next_indexes EXCEPT
                             ![n][n] = IF asLeader THEN last + 1 ELSE @]
       /\ Reply(m, EntryAnswer(n, m, commit, last, TRUE))
  BY DEF AcceptEntries, before, entry, l, last, known, pool, commit, newGroup,
         asLeader, applies
<1>11. LogStep
  BY <1>7, <1>9, <1>10, OneLog DEF last
<1>12. pool \in SUBSET Block
  BY DEF pool, CarriesBlock, AppendEntry, AppendOf, IndInv, StateTypeOK, LogTypeOK
<1>13. LogTypeOK'
  BY <1>7, <1>9, <1>10, <1>12, LogEntryType DEF IndInv, StateTypeOK, LogTypeOK
<1>14. LeaderTypeOK'
  BY <1>8, <1>10 DEF IndInv, StateTypeOK, LeaderTypeOK
<1>15. GroupTypeOK'
  <2> DEFINE PendingGroup == [id : GroupId, members : SUBSET Node]
             g == IF applies THEN ApplyGroup(current_group[n], known, newGroup)
                             ELSE current_group[n]
             left == IF applies /\ Head(pending_groups[n]).id = newGroup
                     THEN Tail(pending_groups[n]) ELSE pending_groups[n]
  <2>1. /\ DOMAIN known \subseteq GroupId
        /\ \A id \in DOMAIN known : known[id] \subseteq Node
    <3>1. CarriesConf(m) => m.hash \in GroupId
      BY DEF CarriesConf, AppendEntry, AppendOf
    <3> QED
      BY <1>1, <3>1 DEF known, AssignGroup, IndInv, StateTypeOK, GroupTypeOK
  <2>2. g \in SUBSET Node
    BY <2>1 DEF ApplyGroup, IndInv, StateTypeOK, GroupTypeOK
  <2>3. pending_groups[n] \in Seq(PendingGroup)
    BY DEF IndInv, StateTypeOK, GroupTypeOK
  <2>4. left \in Seq(PendingGroup)
    <3>1. applies => pending_groups[n] # <<>>
      BY DEF applies
    <3>2. pending_groups[n] # <<>> => Tail(pending_groups[n]) \in Seq(PendingGroup)
      BY <2>3, HeadTailProperties
    <3> QED
      BY <2>3, <3>1, <3>2
  <2>5. /\ current_group' = [current_group EXCEPT ![n] = g]
        /\ pending_groups' = [pending_groups EXCEPT ![n] = left]
    BY <1>10
  <2> HIDE DEF g, left
  <2>6. current_group' \in [Node -> SUBSET Node]
    BY <2>2, <2>5 DEF IndInv, StateTypeOK, GroupTypeOK
  <2>7. pending_groups' \in [Node -> Seq(PendingGroup)]
    BY <2>4, <2>5 DEF IndInv, StateTypeOK, GroupTypeOK
  <2>8. groups' = [groups EXCEPT ![n] = known]
    BY <1>10
  <2> QED
    BY <2>1, <2>6, <2>7, <2>8, GroupsType DEF GroupTypeOK, IndInv
<1>16. msgs' \in SUBSET Message
  BY <1>8, <1>9, <1>10, EntryAnswerType, ReplyType
<1> QED
  BY <1>11, <1>13, <1>14, <1>15, <1>16

LEMMA ProcessAppendEntriesOK ==
  ASSUME IndInv, NEW m \in msgs, NEW n \in Node, ProcessAppendEntries(n, m)
  PROVE  StateTypeOK' /\ LogStep
<1> DEFINE adopts == AdoptsLeader(n, m)
           term == IF adopts THEN m.term ELSE current_term[n]
           state == IF adopts THEN "FOLLOWER" ELSE current_state[n]
<1>1. m \in AppendEntry /\ m.src \in Node /\ m.term \in Int
  BY MessageType DEF ProcessAppendEntries, IndInv, StateTypeOK
<1>2. /\ term \in Int
      /\ state \in {"LEADER", "FOLLOWER", "CANDIDATE"}
  BY <1>1 DEF IndInv, StateTypeOK, ElectionTypeOK
<1>3. /\ current_term' = [current_term EXCEPT ![n] = term]
      /\ current_state' = [current_state EXCEPT ![n] = state]
      /\ current_leader' = [current_leader EXCEPT
                              ![n] = IF adopts \/ @ = NoNode THEN m.src ELSE @]
      /\ UNCHANGED <<voted_for, gathered_votes>>
      /\ UNCHANGED <<running, inputVars>>
      /\ RejectEntries(n, m, term) \/ AcceptEntries(n, m, term, state)
  BY DEF ProcessAppendEntries
<1> HIDE DEF adopts, term, state
<1>4. ElectionTypeOK'
  BY <1>1, <1>2, <1>3 DEF IndInv, StateTypeOK, ElectionTypeOK
<1>5. InputTypeOK'
  BY <1>3, UnchangedTypes DEF IndInv
<1>6. CASE RejectEntries(n, m, term)
  BY <1>1, <1>2, <1>4, <1>5, <1>6, RejectEntriesOK DEF StateTypeOK
<1>7. CASE AcceptEntries(n, m, term, state)
  BY <1>1, <1>2, <1>4, <1>5, <1>7, AcceptEntriesOK DEF StateTypeOK
<1> QED
  BY <1>3, <1>6, <1>7

LEMMA StepDownOK ==
  ASSUME IndInv, NEW n \in Node, NEW m \in AckEntry, StepDown(n, m),
         UNCHANGED <<voted_for, current_leader, gathered_votes>>
  PROVE  LogStep /\ ElectionTypeOK' /\ LogTypeOK'
<1> DEFINE l == RemoveUncommittedEntries(log[n], commit_index[n])
<1>1. /\ l \in Seq(EntriesOver(Hash))
      /\ LastLogIndex(l) = commit_index[n]
      /\ Keeps(log[n], l, commit_index[n])
  BY AtNode, RemoveUncommittedKeeps
<1>2. m.commit_index \in Int /\ m.term \in Int
  BY DEF AckEntry
<1>3. commit_index[n] \in Int
  BY AtNode
<1> DEFINE reached == IF m.commit_index < LastLogIndex(l) THEN m.commit_index
                                                          ELSE LastLogIndex(l)
           commit == IF reached > commit_index[n] THEN reached ELSE commit_index[n]
<1>4. /\ log' = [log EXCEPT ![n] = l]
      /\ commit_index' = [commit_index EXCEPT ![n] = commit]
      /\ current_term' = [current_term EXCEPT ![n] = m.term]
      /\ current_state' = [current_state EXCEPT ![n] = "FOLLOWER"]
      /\ blockpool' = blockpool
  BY DEF StepDown
<1>5. commit = commit_index[n]
  BY <1>1, <1>2, <1>3
<1>6. commit \in Int /\ commit \in commit_index[n] .. LastLogIndex(l)
  BY <1>1, <1>3, <1>5
<1> HIDE DEF l, commit
<1>7. LogStep
  BY <1>1, <1>4, <1>6, OneLog
<1>8. LogTypeOK'
  BY <1>1, <1>4, <1>6, LogEntryType DEF IndInv, StateTypeOK, LogTypeOK
<1>9. ElectionTypeOK'
  BY <1>2, <1>4 DEF IndInv, StateTypeOK, ElectionTypeOK
<1> QED
  BY <1>7, <1>8, <1>9

LEMMA RecordAckOK ==
  ASSUME IndInv, NEW n \in Node, NEW m \in AckEntry, RecordAck(n, m)
  PROVE  LogStep /\ LogTypeOK' /\ LeaderTypeOK'
<1> DEFINE match == [match_indexes[n] EXCEPT ![m.src] = m.entry_index]
           commit == NewCommitIndex(log[n], commit_index[n], groups[n],
                                    current_group[n], match)
<1>1. m.entry_index \in Int /\ m.src \in Node
  BY DEF AckEntry
<1>2. commit \in commit_index[n] .. LastLogIndex(log[n])
  BY AtNode, NewCommitIndexBounds
<1>3. commit \in Int
  BY <1>2, AtNode
<1>4. match \in [Node -> Int]
  BY <1>1 DEF IndInv, StateTypeOK, LeaderTypeOK
<1>5. /\ match_indexes' = [match_indexes EXCEPT ![n] = match]
      /\ next_indexes' = [next_indexes EXCEPT ![n][m.src] = m.entry_index + 1]
      /\ commit_index' = [commit_index EXCEPT ![n] = commit]
      /\ log' = log /\ blockpool' = blockpool
  BY DEF RecordAck
<1> HIDE DEF match, commit
<1>6. log' = [log EXCEPT ![n] = log[n]]
  BY <1>5 DEF IndInv, StateTypeOK, LogTypeOK
<1>7. LogStep
  BY <1>2, <1>3, <1>5, <1>6, KeepsLog, OneLog
<1>8. LogTypeOK'
  BY <1>3, <1>5 DEF IndInv, StateTypeOK, LogTypeOK
<1>9. LeaderTypeOK'
  BY <1>1, <1>4, <1>5 DEF IndInv, StateTypeOK, LeaderTypeOK
<1> QED
  BY <1>7, <1>8, <1>9

LEMMA ProcessEntriesAckOK ==
  ASSUME IndInv, NEW m \in msgs, NEW n \in Node, ProcessEntriesAck(n, m)
  PROVE  StateTypeOK' /\ LogStep
<1>1. m \in AckEntry
  BY MessageType DEF ProcessEntriesAck, IndInv, StateTypeOK
<1>2. /\ msgs' \in SUBSET Message
      /\ GroupTypeOK' /\ InputTypeOK'
  BY UnchangedTypes DEF ProcessEntriesAck, Receive, IndInv, StateTypeOK
<1>3. UNCHANGED <<voted_for, current_leader, gathered_votes>>
  BY DEF ProcessEntriesAck
<1>4. CASE UNCHANGED <<current_state, current_term, logVars, leaderVars>>
  <2>1. LogStep
    BY <1>4, SameLogs DEF logVars
  <2>2. ElectionTypeOK' /\ LogTypeOK' /\ LeaderTypeOK'
    BY <1>3, <1>4, UnchangedTypes DEF electionVars, logVars, IndInv
  <2> QED
    BY <1>2, <2>1, <2>2 DEF StateTypeOK
<1>5. CASE StepDown(n, m)
  <2>1. LeaderTypeOK'
    BY <1>5, UnchangedTypes DEF StepDown, IndInv
  <2> QED
    BY <1>1, <1>2, <1>3, <1>5, <2>1, StepDownOK DEF StateTypeOK
<1>6. CASE RecordAck(n, m)
  <2>1. ElectionTypeOK'
    BY <1>3, <1>6, UnchangedTypes DEF RecordAck, electionVars, IndInv
  <2> QED
    BY <1>1, <1>2, <1>6, <2>1, RecordAckOK DEF StateTypeOK
<1> QED
  BY <1>4, <1>5, <1>6 DEF ProcessEntriesAck

LEMMA ReceivePacketOK ==
  ASSUME IndInv, NEW m \in msgs, ReceivePacket(m)
  PROVE  StateTypeOK' /\ LogStep
<1>1. m.dst \in Node
  BY MessageType DEF IndInv, StateTypeOK
<1>2. CASE DropForeign(m.dst, m)
  <2>1. LogStep
    BY <1>2, SameLogs DEF DropForeign, logVars
  <2>2. /\ ElectionTypeOK' /\ LogTypeOK' /\ LeaderTypeOK' /\ GroupTypeOK'
        /\ InputTypeOK'
    BY <1>2, UnchangedTypes DEF DropForeign, logVars, IndInv
  <2> QED
    BY <1>2, <2>1, <2>2 DEF DropForeign, Receive, IndInv, StateTypeOK
<1> QED
  BY <1>1, <1>2, ProcessRequestVoteOK, ProcessVoteResponseOK,
     ProcessAppendEntriesOK, ProcessEntriesAckOK DEF ReceivePacket

LEMMA ChangeGroupOK ==
  ASSUME ConstantsAssumption, IndInv, NEW n \in Node, NEW group \in Topologies,
         ChangeGroup(n, group)
  PROVE  StateTypeOK' /\ LogStep
<1> DEFINE PendingGroup == [id : GroupId, members : SUBSET Node]
           sequence == MakeGroupChangeSequence(current_group[n], group)
           first == InsertGroup(groups[n], sequence[1].id, sequence[1].members)
           known == IF Len(sequence) = 1 THEN first
                    ELSE InsertGroup(first, sequence[2].id, sequence[2].members)
           atOnce == AppliesAtOnce(n, sequence)
           g == IF atOnce THEN ApplyGroup(current_group[n], known, sequence[1].id)
                          ELSE current_group[n]
<1>1. LogStep
  BY SameLogs DEF ChangeGroup, logVars
<1>2. LogTypeOK' /\ LeaderTypeOK'
  BY UnchangedTypes DEF ChangeGroup, logVars, IndInv
<1>3. InputTypeOK'
  <2>1. /\ changes[n] < MaxChanges
        /\ changes' = [changes EXCEPT ![n] = @ + 1]
        /\ UNCHANGED <<running, scheduled>>
    BY DEF ChangeGroup
  <2>2. changes \in [Node -> 0 .. MaxChanges] /\ MaxChanges \in Nat
    BY DEF IndInv, StateTypeOK, InputTypeOK, ConstantsAssumption
  <2>3. changes' \in [Node -> 0 .. MaxChanges]
    BY <2>1, <2>2
  <2> QED
    BY <2>1, <2>3 DEF IndInv, StateTypeOK, InputTypeOK
<1>4. msgs' \in SUBSET Message
  BY DEF ChangeGroup, IndInv, StateTypeOK
<1>5. UNCHANGED <<current_term, voted_for, current_leader, gathered_votes>>
  BY DEF ChangeGroup
<1>6. CASE UNCHANGED <<current_state, groupVars>>
  <2>1. ElectionTypeOK' /\ GroupTypeOK'
    BY <1>5, <1>6, UnchangedTypes DEF electionVars, IndInv
  <2> QED
    BY <1>1, <1>2, <1>3, <1>4, <2>1 DEF StateTypeOK
<1>7. CASE /\ pending_groups' = [pending_groups EXCEPT ![n] = sequence]
           /\ groups' = [groups EXCEPT ![n] = known]
           /\ current_group' = [current_group EXCEPT ![n] = g]
           /\ current_state' = [current_state EXCEPT ![n] = IF atOnce THEN "FOLLOWER" ELSE @]
  <2>1. ElectionTypeOK'
    BY <1>5, <1>7 DEF IndInv, StateTypeOK, ElectionTypeOK
  <2>2. current_group[n] \in SUBSET Node /\ group \in SUBSET Node
    BY DEF IndInv, StateTypeOK, GroupTypeOK, ConstantsAssumption
  <2>3. /\ sequence \in Seq(PendingGroup)
        /\ sequence[1] \in PendingGroup
        /\ Len(sequence) # 1 => sequence[2] \in PendingGroup
    <3> DEFINE common == group \cap current_group[n]
               target == [id |-> GroupIdOf(group), members |-> group]
               step == [id |-> SplitIdOf(common), members |-> common]
    <3>1. target \in PendingGroup /\ step \in PendingGroup
      BY <2>2 DEF GroupId
    <3>2. sequence = <<target>> \/ sequence = <<step, target>>
      BY DEF MakeGroupChangeSequence
    <3> HIDE DEF sequence, target, step
    <3>3. CASE sequence = <<target>>
      BY <3>1, <3>3
    <3>4. CASE sequence = <<step, target>>
      BY <3>1, <3>4
    <3> QED
      BY <3>2, <3>3, <3>4
  <2> HIDE DEF sequence
  <2>4. /\ DOMAIN first \subseteq GroupId
        /\ \A id \in DOMAIN first : first[id] \subseteq Node
    BY <2>3 DEF InsertGroup, IndInv, StateTypeOK, GroupTypeOK
  <2> HIDE DEF first
  <2>5. /\ DOMAIN known \subseteq GroupId
        /\ \A id \in DOMAIN known : known[id] \subseteq Node
    BY <2>3, <2>4 DEF InsertGroup
  <2> HIDE DEF known
  <2>6. g \in SUBSET Node
    BY <2>2, <2>5 DEF ApplyGroup
  <2> HIDE DEF g
  <2>7. current_group' \in [Node -> SUBSET Node]
    BY <1>7, <2>6 DEF IndInv, StateTypeOK, GroupTypeOK
  <2>8. pending_groups' \in [Node -> Seq(PendingGroup)]
    BY <1>7, <2>3 DEF IndInv, StateTypeOK, GroupTypeOK
  <2>9. groups' = [groups EXCEPT ![n] = known]
    BY <1>7
  <2>10. GroupTypeOK'
    BY <2>5, <2>7, <2>8, <2>9, GroupsType, ZenonT(60) DEF GroupTypeOK, IndInv
  <2> QED
    BY <1>1, <1>2, <1>3, <1>4, <2>1, <2>10 DEF StateTypeOK
<1> HIDE DEF sequence, known, atOnce
<1> QED
  BY <1>6, <1>7 DEF ChangeGroup, sequence, first, known, atOnce

LEMMA GenerateBlockOK ==
  ASSUME IndInv, NEW n \in Node, NEW b \in Block, GenerateBlock(n, b)
  PROVE  StateTypeOK' /\ LogStep
<1>1. LogStep
  BY SameLogs DEF GenerateBlock, logVars
<1>2. ElectionTypeOK' /\ LogTypeOK' /\ LeaderTypeOK' /\ GroupTypeOK'
  BY UnchangedTypes DEF GenerateBlock, logVars, IndInv
<1>3. InputTypeOK'
  BY DEF GenerateBlock, IndInv, StateTypeOK, InputTypeOK
<1> QED
  BY <1>1, <1>2, <1>3 DEF GenerateBlock, IndInv, StateTypeOK

LEMMA InsertEntryOK ==
  ASSUME IndInv, NEW n \in Node, NEW b \in Block, InsertEntry(n, b)
  PROVE  StateTypeOK' /\ LogStep
<1> DEFINE l == Append(log[n], Entry(-1, b))
           leads == current_state[n] = "LEADER"
<1>1. Entry(-1, b) \in EntriesOver(Hash)
  BY DEF Entry, EntriesOver, Hash
<1>2. /\ l \in Seq(EntriesOver(Hash))
      /\ LastLogIndex(l) = LastLogIndex(log[n]) + 1
      /\ Keeps(log[n], l, commit_index[n])
  BY <1>1, AtNode, AppendKeeps
<1>3. LastLogIndex(l) \in Int
  BY <1>2, LastLogIndexType
<1> HIDE DEF l, leads
<1>4. /\ scheduled' = [scheduled EXCEPT ![n] = @ \ {b}]
      /\ log' = [log EXCEPT ![n] = l]
      /\ blockpool' = [blockpool EXCEPT ![n] = @ \cup {b}]
      /\ match_indexes' = [match_indexes EXCEPT
                             ![n][n] = IF leads THEN LastLogIndex(l) ELSE @]
      /\ next_indexes' = [next_indexes EXCEPT
                            ![n][n] = IF leads THEN LastLogIndex(l) + 1 ELSE @]
      /\ UNCHANGED <<running, electionVars, commit_index, delivered, groupVars,
                     changes, msgs>>
  BY DEF InsertEntry, l, leads
<1>5. commit_index' = [commit_index EXCEPT ![n] = commit_index[n]]
  BY <1>4 DEF IndInv, StateTypeOK, LogTypeOK
<1>6. commit_index[n] \in Int /\ commit_index[n] \in commit_index[n] .. LastLogIndex(l)
  BY <1>2, <1>3, AtNode DEF Keeps
<1>7. LogStep
  BY <1>2, <1>4, <1>5, <1>6, OneLog
<1>8. LogTypeOK'
  BY <1>2, <1>4, LogEntryType DEF IndInv, StateTypeOK, LogTypeOK
<1>9. LeaderTypeOK'
  BY <1>3, <1>4 DEF IndInv, StateTypeOK, LeaderTypeOK
<1>10. InputTypeOK'
  BY <1>4 DEF IndInv, StateTypeOK, InputTypeOK
<1>11. ElectionTypeOK' /\ GroupTypeOK'
  BY <1>4, UnchangedTypes DEF IndInv
<1> QED
  BY <1>4, <1>7, <1>8, <1>9, <1>10, <1>11 DEF IndInv, StateTypeOK

LEMMA StopApplicationOK ==
  ASSUME IndInv, StopApplication
  PROVE  StateTypeOK' /\ LogStep
<1>1. LogStep
  BY SameLogs DEF StopApplication, logVars
<1>2. ElectionTypeOK' /\ LogTypeOK' /\ LeaderTypeOK' /\ GroupTypeOK'
  BY UnchangedTypes DEF StopApplication, logVars, IndInv
<1>3. InputTypeOK'
  BY DEF StopApplication, inputVars, IndInv, StateTypeOK, InputTypeOK
<1> QED
  BY <1>1, <1>2, <1>3 DEF StopApplication, IndInv, StateTypeOK

-----------------------------------------------------------------------------
(* The theorems.                                                           *)

LEMMA InitOK ==
  ASSUME ConstantsAssumption, Init
  PROVE  IndInv
<1>1. ElectionTypeOK
  BY DEF Init, ElectionTypeOK, ConstantsAssumption
<1>2. LogTypeOK /\ LeaderTypeOK
  BY DEF Init, LogTypeOK, LeaderTypeOK
<1>3. GroupTypeOK
  BY DEF Init, GroupTypeOK
<1>4. InputTypeOK
  BY DEF Init, InputTypeOK, ConstantsAssumption
<1>5. CommitIndexInLog
  BY DEF Init, CommitIndexInLog, LastLogIndex
<1>6. msgs \subseteq Message
  BY DEF Init
<1> QED
  BY <1>1, <1>2, <1>3, <1>4, <1>5, <1>6 DEF IndInv, StateTypeOK

LEMMA StepOK ==
  ASSUME ConstantsAssumption, IndInv, [Next]_vars
  PROVE  IndInv' /\ LogStep
<1>1. StateTypeOK' /\ LogStep
  <2>1. CASE Next
    BY <2>1, SendHeartbeatsOK, ElectionTimeoutAfterVoteOK, StandForElectionOK,
       ReceivePacketOK, ChangeGroupOK, GenerateBlockOK, InsertEntryOK,
       StopApplicationOK DEF Next, OtherEvent, TriggerElectionTimeout
  <2>2. CASE UNCHANGED vars
    <3>1. LogStep
      BY <2>2, SameLogs DEF vars, logVars
    <3>2. /\ ElectionTypeOK' /\ LogTypeOK' /\ LeaderTypeOK' /\ GroupTypeOK'
          /\ InputTypeOK'
      BY <2>2, UnchangedTypes DEF vars, logVars, IndInv
    <3> QED
      BY <2>2, <3>1, <3>2 DEF vars, IndInv, StateTypeOK
  <2> QED
    BY <2>1, <2>2
<1>2. CommitIndexInLog'
  <2> SUFFICES ASSUME NEW p \in Node
               PROVE  commit_index'[p] \in -1 .. LastLogIndex(log'[p])
    BY DEF CommitIndexInLog
  <2>1. log'[p] \in Seq(EntriesOver(Hash))
    BY <1>1, LogEntryType DEF StateTypeOK, LogTypeOK
  <2> QED
    BY <1>1, <2>1, AtNode, LastLogIndexType DEF LogStep
<1> QED
  BY <1>1, <1>2 DEF IndInv

\* The inductive invariant: types, and commit indexes inside the logs.
THEOREM Invariance == Spec => []IndInv
<1>1. Init => IndInv
  BY ConstantsAssumption, InitOK
<1>2. IndInv /\ [Next]_vars => IndInv'
  BY ConstantsAssumption, StepOK
<1> QED
  BY <1>1, <1>2, PTL DEF Spec

\* Whatever is lost, reordered or reported, every variable keeps its type.
THEOREM TypesKept == Spec => []StateTypeOK
<1>1. IndInv => StateTypeOK
  BY DEF IndInv
<1> QED
  BY <1>1, Invariance, PTL

\* GetCurrentGroup and LastCommitConfIndex never read past the end of a log.
THEOREM CommitIndexStaysInLog == Spec => []CommitIndexInLog
<1>1. IndInv => CommitIndexInLog
  BY DEF IndInv
<1> QED
  BY <1>1, Invariance, PTL

\* No node ever changes or forgets what it holds as committed.
THEOREM CommittedNeverChanges == Spec => CommittedStable
<1> DEFINE Step == \A n \in Node :
                     /\ commit_index'[n] >= commit_index[n]
                     /\ \A i \in 0 .. commit_index[n] :
                          GetEntry(log'[n], i) = GetEntry(log[n], i)
<1>1. IndInv /\ [Next]_vars => [Step]_vars
  <2> SUFFICES ASSUME IndInv, [Next]_vars PROVE Step
    OBVIOUS
  <2> SUFFICES ASSUME NEW n \in Node
               PROVE  /\ commit_index'[n] >= commit_index[n]
                      /\ \A i \in 0 .. commit_index[n] :
                           GetEntry(log'[n], i) = GetEntry(log[n], i)
    OBVIOUS
  <2>1. LogStep
    BY ConstantsAssumption, StepOK
  <2> QED
    BY <2>1, AtNode DEF LogStep, Keeps
<1>2. [][IndInv /\ [Next]_vars => [Step]_vars]_vars
  BY <1>1, PTL
<1> QED
  BY <1>1, Invariance, PTL DEF Spec, CommittedStable
=============================================================================
