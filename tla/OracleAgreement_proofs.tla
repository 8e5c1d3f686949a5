----------------------- MODULE OracleAgreement_proofs -----------------------
(***************************************************************************)
(* What the consensus hands to the blockgraph.  For every network and      *)
(* every sequence of elections and changes of group no block is handed to  *)
(* a node twice, because a block never changes its place: all the logs and *)
(* all the packets have it at the one position where it was inserted.      *)
(*                                                                         *)
(* And what the first term guarantees, before a change of group: nodes     *)
(* agree on what is committed, because votes of one term elect one leader  *)
(* and all logs follow its log, and all that is committed is handed over.  *)
(***************************************************************************)
EXTENDS OraclePromise_proofs, FiniteSetTheorems

-----------------------------------------------------------------------------
(* A step either hands nothing over to a node or what it has just          *)
(* committed there.                                                        *)

JustCommitted(n) ==
  BlocksBetween(log'[n], commit_index[n], commit_index'[n], blockpool'[n])

DeliveryStep ==
  /\ delivered' = [n \in Node |-> delivered'[n]]
  /\ \A n \in Node : \/ delivered'[n] = delivered[n]
                     \/ delivered'[n] = delivered[n] \o JustCommitted(n)

LEMMA NothingDelivered ==
  ASSUME TypeOK, UNCHANGED delivered
  PROVE  DeliveryStep
BY DEF DeliveryStep, TypeOK

LEMMA AcceptDelivers ==
  ASSUME IndInv, TypeOK, NEW n \in Node, NEW m, NEW term, NEW state,
         AcceptEntries(n, m, term, state)
  PROVE  DeliveryStep
<1>1. PICK l, c, pool :
        /\ log' = [log EXCEPT ![n] = l]
        /\ commit_index' = [commit_index EXCEPT ![n] = c]
        /\ blockpool' = [blockpool EXCEPT ![n] = pool]
        /\ delivered' = [delivered EXCEPT
                           ![n] = @ \o BlocksBetween(l, commit_index[n], c, pool)]
  BY DEF AcceptEntries
<1>2. log'[n] = l /\ commit_index'[n] = c /\ blockpool'[n] = pool
  BY <1>1 DEF IndInv, StateTypeOK, LogTypeOK
<1> QED
  BY <1>1, <1>2 DEF DeliveryStep, JustCommitted, TypeOK

LEMMA RecordAckDelivers ==
  ASSUME IndInv, TypeOK, NEW n \in Node, NEW m, RecordAck(n, m)
  PROVE  DeliveryStep
<1>1. PICK c :
        /\ UNCHANGED <<log, blockpool>>
        /\ commit_index' = [commit_index EXCEPT ![n] = c]
        /\ delivered' = [delivered EXCEPT
                           ![n] = @ \o BlocksBetween(log[n], commit_index[n], c, blockpool[n])]
  BY DEF RecordAck
<1>2. commit_index'[n] = c
  BY <1>1 DEF IndInv, StateTypeOK, LogTypeOK
<1> QED
  BY <1>1, <1>2 DEF DeliveryStep, JustCommitted, TypeOK

LEMMA StepDelivers ==
  ASSUME IndInv, TypeOK, [Next]_vars
  PROVE  DeliveryStep
<1>1. ASSUME NEW m \in msgs, ReceivePacket(m) PROVE DeliveryStep
  <2> DEFINE n == m.dst
  <2>1. n \in Node
    BY MessageType DEF IndInv, StateTypeOK
  <2>2. CASE ProcessAppendEntries(n, m)
    <3>1. PICK term, state : RejectEntries(n, m, term) \/ AcceptEntries(n, m, term, state)
      BY <2>2 DEF ProcessAppendEntries
    <3> QED
      BY <2>1, <3>1, AcceptDelivers, NothingDelivered DEF RejectEntries
  <2>3. CASE ProcessEntriesAck(n, m)
    BY <2>1, <2>3, RecordAckDelivers, NothingDelivered
       DEF ProcessEntriesAck, StepDown, logVars
  <2> HIDE DEF n
  <2>4. CASE ProcessRequestVote(n, m) \/ ProcessVoteResponse(n, m) \/ DropForeign(n, m)
    BY <2>4, NothingDelivered
       DEF ProcessRequestVote, ProcessVoteResponse, DropForeign, Heartbeats, logVars
  <2> QED
    BY <1>1, <2>2, <2>3, <2>4 DEF ReceivePacket, n
<1>2. ASSUME NEW n \in Node, SendHeartbeats(n) \/ TriggerElectionTimeout(n)
      PROVE  DeliveryStep
  BY <1>2, NothingDelivered
     DEF SendHeartbeats, TriggerElectionTimeout, ElectionTimeoutAfterVote,
         StandForElection, Heartbeats, logVars
<1>3. CASE \/ \E n \in Node, group \in Topologies : ChangeGroup(n, group)
           \/ \E n \in Node, b \in Block : GenerateBlock(n, b) \/ InsertEntry(n, b)
           \/ StopApplication \/ UNCHANGED vars
  BY <1>3, NothingDelivered
     DEF ChangeGroup, GenerateBlock, InsertEntry, StopApplication, vars, logVars
<1> QED
  BY <1>1, <1>2, <1>3 DEF Next, OtherEvent

\* What is handed over for a range of entries: an item for each of them.
OneForEach(l, from, to, pool) ==
  /\ BlocksBetween(l, from, to, pool) \in Seq(pool \cup {NoHash})
  /\ from <= to => Len(BlocksBetween(l, from, to, pool)) = to - from
  /\ \A k \in 1 .. (to - from) :
       BlocksBetween(l, from, to, pool)[k] = BlockOf(GetEntry(l, from + k), pool)

LEMMA BlocksBetweenType ==
  ASSUME NEW l, NEW from \in Int, NEW to \in Int, NEW pool
  PROVE  OneForEach(l, from, to, pool)
<1> DEFINE w == [i \in 1 .. (to - from) |-> BlockOf(GetEntry(l, from + i), pool)]
<1>1. \A i : BlockOf(GetEntry(l, from + i), pool) \in pool \cup {NoHash}
  BY DEF BlockOf
<1>2. CASE from <= to
  <2>1. to - from \in Nat
    BY <1>2
  <2>2. w \in [1 .. (to - from) -> pool \cup {NoHash}]
    BY <1>1
  <2> HIDE DEF w
  <2>3. w \in Seq(pool \cup {NoHash}) /\ Len(w) = to - from
    BY <2>1, <2>2
  <2> QED
    BY <2>3 DEF OneForEach, BlocksBetween, w
<1>3. CASE ~ (from <= to)
  <2>1. 1 .. (to - from) = {} /\ 1 .. 0 = {} /\ 0 \in Nat
    BY <1>3
  <2>2. w \in Seq(pool \cup {NoHash})
    BY <1>1, <2>1
  <2> QED
    BY <1>3, <2>1, <2>2 DEF OneForEach, BlocksBetween
<1> QED
  BY <1>2, <1>3

\* Whatever happens to the logs, what the blockgraph is handed is blocks.
THEOREM AllTypesKept == Spec => []TypeOK
<1>1. Init => TypeOK
  <2>1. Init => IndInv
    BY ConstantsAssumption, InitOK
  <2> QED
    BY <2>1 DEF Init, TypeOK, IndInv
<1>2. IndInv /\ IndInv' /\ TypeOK /\ [Next]_vars => TypeOK'
  <2> SUFFICES ASSUME IndInv, IndInv', TypeOK, [Next]_vars
               PROVE  delivered' \in [Node -> Seq(Hash)]
    BY DEF TypeOK, IndInv
  <2>1. DeliveryStep
    BY StepDelivers
  <2>2. ASSUME NEW n \in Node PROVE delivered'[n] \in Seq(Hash)
    <3>1. commit_index[n] \in Int /\ commit_index'[n] \in Int /\ blockpool'[n] \subseteq Block
      BY DEF IndInv, StateTypeOK, LogTypeOK
    <3>2. JustCommitted(n) \in Seq(blockpool'[n] \cup {NoHash})
      <4>1. OneForEach(log'[n], commit_index[n], commit_index'[n], blockpool'[n])
        BY <3>1, BlocksBetweenType
      <4> QED
        BY <4>1 DEF OneForEach, JustCommitted
    <3>3. blockpool'[n] \cup {NoHash} \subseteq Hash
      BY <3>1 DEF Hash
    <3>4. JustCommitted(n) \in Seq(Hash)
      BY <3>2, <3>3, SeqMonotone
    <3>5. delivered[n] \in Seq(Hash) /\ delivered[n] \o JustCommitted(n) \in Seq(Hash)
      BY <3>4, ConcatProperties DEF TypeOK
    <3> QED
      BY <2>1, <3>5 DEF DeliveryStep
  <2>3. delivered' = [n \in Node |-> delivered'[n]]
    BY <2>1 DEF DeliveryStep
  <2> HIDE DEF DeliveryStep
  <2> QED
    BY <2>2, <2>3
<1> QED
  BY <1>1, <1>2, Invariance, PTL DEF Spec
-----------------------------------------------------------------------------
(* Where a block is: a position (from 1, as in TLA+) of a log, or the one  *)
(* for which it is on its way.                                             *)

LogHas(l, b, i) == i \in 1 .. Len(l) /\ l[i].hash = b
Carries(m, b, i) == CarriesBlock(m) /\ m.hash = b /\ m.prev_log_index + 2 = i

Placed(b, i) == \/ \E n \in Node : LogHas(log[n], b, i)
                \/ \E m \in msgs : Carries(m, b, i)

\* A block has one place, which it gets when it is inserted, once.
PlacedOnce ==
  /\ \A b \in Block : \A i, j : Placed(b, i) /\ Placed(b, j) => i = j
  /\ \A n \in Node : \A b \in scheduled[n] :
       /\ \A i : ~ Placed(b, i)
       /\ \A p \in Node : b \in scheduled[p] => p = n

\* Every entry of l1 is in l2, and at the same position.
Follows(l1, l2) == \A i \in 1 .. Len(l1) : LogHas(l2, l1[i].hash, i)

\* Every block of l2 is in l1, and at the same position.
NoNewBlock(l1, l2) == \A b \in Block : \A i : LogHas(l2, b, i) => LogHas(l1, b, i)

NothingPlaced == \A b \in Block : \A i : Placed(b, i)' => Placed(b, i)

LEMMA NoNewBlockTransitive ==
  ASSUME NEW l1, NEW l2, NEW l3, NoNewBlock(l1, l2), NoNewBlock(l2, l3)
  PROVE  NoNewBlock(l1, l3)
BY DEF NoNewBlock

LEMMA AppendPlaces ==
  ASSUME NEW H, NEW l \in Seq(EntriesOver(H)), NEW e \in EntriesOver(H), NEW b, NEW i
  PROVE  LogHas(Append(l, e), b, i) <=>
           LogHas(l, b, i) \/ (b = e.hash /\ i = Len(l) + 1)
<1>1. /\ Len(l) \in Nat
      /\ Len(Append(l, e)) = Len(l) + 1
      /\ \A k \in 1 .. Len(l) : Append(l, e)[k] = l[k]
      /\ Append(l, e)[Len(l) + 1] = e
  BY LenProperties, AppendProperties
<1> QED
  BY <1>1 DEF LogHas

LEMMA RemoveUncommittedPlaces ==
  ASSUME NEW H, NEW l \in Seq(EntriesOver(H)), NEW c \in -1 .. LastLogIndex(l)
  PROVE  /\ NoNewBlock(l, RemoveUncommittedEntries(l, c))
         /\ Follows(RemoveUncommittedEntries(l, c), l)
<1>1. Len(l) \in Nat /\ c + 1 \in 0 .. Len(l)
  BY LenProperties DEF LastLogIndex
<1>2. \A i \in 1 .. (c + 1) : l[i] \in EntriesOver(H)
  BY <1>1, ElementOfSeq
<1>3. /\ Len(SubSeq(l, 1, c + 1)) = c + 1
      /\ \A i \in 1 .. (c + 1) : SubSeq(l, 1, c + 1)[i] = l[i]
  BY <1>1, <1>2, SubSeqProperties
<1>4. NoNewBlock(l, SubSeq(l, 1, c + 1)) /\ Follows(SubSeq(l, 1, c + 1), l)
  BY <1>1, <1>3 DEF NoNewBlock, Follows, LogHas
<1> QED
  BY <1>4 DEF RemoveUncommittedEntries, NoNewBlock, Follows, LogHas

\* The last committed configuration is a group, or there is none.
LEMMA CurrentGroupIsGroup ==
  ASSUME NEW l, NEW c \in Int, NEW known
  PROVE  GetCurrentGroup(l, c, known) \in DOMAIN known \cup {NoHash}
<1> DEFINE confs == {i \in 0 .. c : IsConf(known, GetEntry(l, i))}
<1>1. CASE confs = {}
  <2>1. LastCommitConfIndex(l, c, known) = -1
    BY <1>1 DEF LastCommitConfIndex
  <2>2. -1 \notin 0 .. LastLogIndex(l)
    OBVIOUS
  <2> QED
    BY <2>1, <2>2 DEF GetCurrentGroup, GetEntry, Entry
<1>2. CASE confs # {}
  <2>1. confs \subseteq 0 .. c
    OBVIOUS
  <2> HIDE DEF confs
  <2>2. \E i \in confs : \A j \in confs : j <= i
    BY <1>2, <2>1, 0 \in Int, GreatestExists, Zenon
  <2>3. (CHOOSE i \in confs : \A j \in confs : j <= i) \in confs
    BY <2>2
  <2>4. LastCommitConfIndex(l, c, known) \in confs
    BY <1>2, <2>3 DEF LastCommitConfIndex, confs
  <2> QED
    BY <2>4 DEF confs, IsConf, GetCurrentGroup
<1> QED
  BY <1>1, <1>2

LEMMA PreparedPlaces ==
  ASSUME NamesDistinct, IndInv, NEW n \in Node, NEW m \in AppendEntry, NEW term \in Int
  PROVE  /\ NoNewBlock(log[n], Trimmed(n, m))
         /\ NoNewBlock(log[n], Prepared(n, m, term))
<1> DEFINE c == commit_index[n]
           t == Trimmed(n, m)
           group == GetCurrentGroup(t, c, groups[n])
           k == m.prev_log_index - LastLogIndex(t)
           pad == [i \in 1 .. k |-> Entry(term, group)]
<1>1. c \in -1 .. LastLogIndex(log[n]) /\ c \in Int /\ m.prev_log_index \in Int
  BY AtNode DEF AppendEntry, AppendOf
<1>2. NoNewBlock(log[n], t)
  BY <1>1, AtNode, RemoveUncommittedPlaces DEF Trimmed, NoNewBlock
<1>3. t \in Seq(EntriesOver(Hash))
  BY PreparedKeeps
<1> HIDE DEF t
<1>4. group \in DOMAIN groups[n] \cup {NoHash}
  BY <1>1, CurrentGroupIsGroup
<1>5. group \notin Block /\ group \in Hash
  BY <1>4 DEF NamesDistinct, Hash, IndInv, StateTypeOK, GroupTypeOK
<1> HIDE DEF group
<1>6. CASE Prepared(n, m, term) = t
  BY <1>2, <1>6 DEF t
<1>7. CASE Prepared(n, m, term) # t
  <2>1. Prepared(n, m, term) = t \o pad /\ LastLogIndex(t) < m.prev_log_index
    BY <1>7 DEF Prepared, Padded, t, group
  <2>2. LastLogIndex(t) \in Int
    BY <1>3, LastLogIndexType
  <2>3. k \in Nat
    BY <1>1, <2>1, <2>2
  <2>4. Entry(term, group) \in EntriesOver(Hash) /\ Entry(term, group).hash = group
    BY <1>5 DEF Entry, EntriesOver
  <2>5. pad \in [1 .. k -> EntriesOver(Hash)]
    BY <2>4
  <2>6. \A i \in 1 .. k : pad[i].hash = group
    BY <2>4
  <2> HIDE DEF pad, k
  <2>7. pad \in Seq(EntriesOver(Hash)) /\ Len(pad) = k
    BY <2>3, <2>5
  <2>8. /\ Len(t) \in Nat
        /\ Len(t \o pad) = Len(t) + k
        /\ \A i \in 1 .. Len(t) + k :
             (t \o pad)[i] = IF i <= Len(t) THEN t[i] ELSE pad[i - Len(t)]
    BY <1>3, <2>7, LenProperties, ConcatProperties
  <2>9. NoNewBlock(t, t \o pad)
    <3> SUFFICES ASSUME NEW b \in Block, NEW i, LogHas(t \o pad, b, i)
                 PROVE  LogHas(t, b, i)
      BY DEF NoNewBlock
    <3>1. i \in 1 .. Len(t) + k /\ (t \o pad)[i].hash = b
      BY <2>8 DEF LogHas
    <3>2. CASE i <= Len(t)
      BY <2>8, <3>1, <3>2 DEF LogHas
    <3>3. CASE ~ (i <= Len(t))
      <4>1. i - Len(t) \in 1 .. k /\ (t \o pad)[i] = pad[i - Len(t)]
        BY <2>3, <2>8, <3>1, <3>3
      <4> QED
        BY <1>5, <2>6, <3>1, <4>1
    <3> QED
      BY <3>2, <3>3
  <2> QED
    BY <1>2, <2>1, <2>9, NoNewBlockTransitive DEF t
<1> QED
  BY <1>2, <1>6, <1>7 DEF t

\* The entry that is put in a log is the only one that is new.
LEMMA PutAfterPlaces ==
  ASSUME NEW H, NEW l \in Seq(EntriesOver(H)), NEW e \in EntriesOver(H),
         NEW prev \in -1 .. LastLogIndex(l), NEW b, NEW i, LogHas(PutAfter(l, prev, e), b, i)
  PROVE  LogHas(l, b, i) \/ (b = e.hash /\ i = prev + 2)
<1>1. Len(l) \in Nat /\ prev \in Int
  BY LenProperties DEF LastLogIndex
<1>2. CASE prev = LastLogIndex(l)
  <2>1. LogHas(Append(l, e), b, i)
    BY <1>2 DEF PutAfter
  <2>2. LogHas(l, b, i) \/ (b = e.hash /\ i = Len(l) + 1)
    BY <2>1, AppendPlaces
  <2> QED
    BY <1>1, <1>2, <2>2 DEF LastLogIndex
<1>3. CASE prev # LastLogIndex(l)
  <2> DEFINE l2 == [l EXCEPT ![prev + 2] = e]
  <2>1. prev + 2 \in 1 .. Len(l)
    BY <1>1, <1>3 DEF LastLogIndex
  <2>2. /\ Len(l2) = Len(l)
        /\ \A j \in 1 .. Len(l) : l2[j] = IF j = prev + 2 THEN e ELSE l[j]
    BY <2>1, ExceptSeq
  <2>3. LogHas(l2, b, i)
    BY <1>3 DEF PutAfter
  <2> HIDE DEF l2
  <2> QED
    BY <2>2, <2>3 DEF LogHas
<1> QED
  BY <1>2, <1>3

\* Only the log of n changes.
LEMMA NodePlaces ==
  ASSUME IndInv, NEW n \in Node, NEW l, log' = [log EXCEPT ![n] = l],
         \A b \in Block : \A i : LogHas(l, b, i) => Placed(b, i),
         \A m \in msgs' \ msgs : \A b \in Block : \A i : Carries(m, b, i) => Placed(b, i)
  PROVE  NothingPlaced
<1> SUFFICES ASSUME NEW b \in Block, NEW i, Placed(b, i)' PROVE Placed(b, i)
  BY DEF NothingPlaced
<1>1. CASE \E p \in Node : LogHas(log'[p], b, i)
  <2>1. PICK p \in Node : LogHas(log'[p], b, i)
    BY <1>1
  <2>2. CASE p = n
    BY <2>1, <2>2 DEF IndInv, StateTypeOK, LogTypeOK
  <2>3. CASE p # n
    <3>1. log'[p] = log[p]
      BY <2>3 DEF IndInv, StateTypeOK, LogTypeOK
    <3> QED
      BY <2>1, <3>1 DEF Placed
  <2> QED
    BY <2>2, <2>3
<1>2. CASE \E m \in msgs' : Carries(m, b, i)
  BY <1>2 DEF Placed
<1>3. Placed(b, i)' <=> \/ \E p \in Node : LogHas(log'[p], b, i)
                        \/ \E m \in msgs' : Carries(m, b, i)
  BY DEF Placed, LogHas, Carries, CarriesBlock
<1> QED
  BY <1>1, <1>2, <1>3

LEMMA SameLogPlaces ==
  ASSUME ConstantsAssumption, IndInv, UNCHANGED log,
         \A m \in msgs' \ msgs : \A b \in Block : \A i : Carries(m, b, i) => Placed(b, i)
  PROVE  NothingPlaced
<1>1. PICK n \in Node : TRUE
  BY DEF ConstantsAssumption
<1> DEFINE l == log[n]
<1>2. log' = [log EXCEPT ![n] = l]
  BY DEF IndInv, StateTypeOK, LogTypeOK
<1>3. \A b \in Block : \A i : LogHas(l, b, i) => Placed(b, i)
  BY DEF Placed
<1> HIDE DEF l
<1> QED
  BY <1>2, <1>3, NodePlaces, ZenonT(60)

\* A round of heartbeats sends blocks from where they are in the log, and adds at
\* most a configuration to it.
LEMMA RoundPlaces ==
  ASSUME NamesDistinct, IndInv, NEW n \in Node, NEW term \in Int, NEW group, NEW next,
         NEW match, NEW b \in Block, NEW i
  PROVE  LET round == HeartbeatRound(n, term, group, next, match)
         IN  /\ LogHas(round.log, b, i) => LogHas(log[n], b, i)
             /\ \A m \in round.packets : Carries(m, b, i) => LogHas(log[n], b, i)
<1> DEFINE pending == pending_groups[n]
           conf == Entry(term, Head(pending).id)
           l == IF AddsConfiguration(n) THEN Append(log[n], conf) ELSE log[n]
           round == HeartbeatRound(n, term, group, next, match)
<1>1. log[n] \in Seq(EntriesOver(Hash))
  BY AtNode
<1>2. ASSUME AddsConfiguration(n) PROVE conf \in EntriesOver(Hash) /\ conf.hash \notin Block
  <2>1. pending \in Seq([id : GroupId, members : SUBSET Node]) /\ pending # <<>>
    BY <1>2 DEF AddsConfiguration, IndInv, StateTypeOK, GroupTypeOK
  <2> HIDE DEF pending
  <2>2. Head(pending) \in [id : GroupId, members : SUBSET Node]
    BY <2>1, HeadTailProperties
  <2> QED
    BY <2>2 DEF Entry, EntriesOver, Hash, NamesDistinct
<1>3. LogHas(l, b, i) => LogHas(log[n], b, i)
  BY <1>1, <1>2, AppendPlaces
<1>4. round.log = l
  BY DEF HeartbeatRound
<1>5. Len(l) \in Nat
  <2>1. l \in Seq(EntriesOver(Hash))
    BY <1>1, <1>2
  <2> QED
    BY <2>1, LenProperties
<1>6. ASSUME NEW m \in round.packets, Carries(m, b, i) PROVE LogHas(log[n], b, i)
  <2>1. PICK p, commit, now : m = AppendEntriesTo(n, p, term, l, commit, now)
    BY DEF HeartbeatRound
  <2> DEFINE confIndex == LastCommitConfIndex(l, commit, groups[n])
             next_index == IF now[p] > confIndex THEN now[p] ELSE confIndex + 1
             entry == GetEntry(l, next_index)
             isBlock == entry.hash \in blockpool[n]
             isConf == ~ isBlock /\ IsConf(groups[n], entry)
  <2>2. /\ m.prev_log_index = next_index - 1
        /\ m.hash = IF isBlock \/ isConf THEN entry.hash ELSE NoHash
    BY <2>1 DEF AppendEntriesTo
  <2> HIDE DEF l, next_index, isBlock, isConf
  <2>3. entry.hash = b
    BY <1>6, <2>2 DEF Carries, NamesDistinct
  <2>4. next_index \in 0 .. LastLogIndex(l)
    BY <2>3 DEF GetEntry, Entry, NamesDistinct
  <2>5. next_index + 1 \in 1 .. Len(l) /\ l[next_index + 1].hash = b
    BY <1>5, <2>3, <2>4 DEF LastLogIndex, GetEntry
  <2>6. i = next_index + 1
    BY <1>6, <2>2, <2>4 DEF Carries, LastLogIndex
  <2> QED
    BY <1>3, <2>5, <2>6 DEF LogHas
<1> QED
  BY <1>3, <1>4, <1>6

LEMMA HeartbeatsPlace ==
  ASSUME NamesDistinct, IndInv, NEW n \in Node, NEW term \in Int, NEW group, NEW next,
         NEW match, NEW others,
         Heartbeats(n, HeartbeatRound(n, term, group, next, match)),
         msgs' \subseteq msgs \cup others
                         \cup HeartbeatRound(n, term, group, next, match).packets,
         \A m \in others : ~ CarriesBlock(m)
  PROVE  NothingPlaced
<1> DEFINE round == HeartbeatRound(n, term, group, next, match)
<1>1. log' = [log EXCEPT ![n] = round.log]
  BY DEF Heartbeats
<1>2. \A b \in Block : \A i : /\ LogHas(round.log, b, i) => Placed(b, i)
                              /\ \A m \in round.packets : Carries(m, b, i) => Placed(b, i)
  BY RoundPlaces DEF Placed
<1>3. \A m \in others : \A b, i : ~ Carries(m, b, i)
  BY DEF Carries
<1> HIDE DEF round
<1>4. \A m \in msgs' \ msgs : m \in others \/ m \in round.packets
  BY DEF round
<1> QED
  BY <1>1, <1>2, <1>3, <1>4, NodePlaces

LEMMA OnlyHeartbeatsPlace ==
  ASSUME NamesDistinct, IndInv, NEW n \in Node, NEW term \in Int, NEW group, NEW next,
         NEW match,
         Heartbeats(n, HeartbeatRound(n, term, group, next, match)),
         msgs' \subseteq msgs \cup HeartbeatRound(n, term, group, next, match).packets
  PROVE  NothingPlaced
<1> DEFINE others == {}
<1>1. msgs' \subseteq msgs \cup others \cup HeartbeatRound(n, term, group, next, match).packets
  OBVIOUS
<1>2. \A m \in others : ~ CarriesBlock(m)
  OBVIOUS
<1> HIDE DEF others
<1> QED
  BY <1>1, <1>2, HeartbeatsPlace

\* An append puts the block it carries where it was carried to.
LEMMA AcceptPlaces ==
  ASSUME NamesDistinct, IndInv, NEW n \in Node, NEW m \in AppendEntry, m \in msgs,
         NEW term \in Int, NEW state, AcceptEntries(n, m, term, state)
  PROVE  NothingPlaced
<1> DEFINE before == Prepared(n, m, term)
           isNew == m.prev_log_index = LastLogIndex(before)
           entry == Entry(TermOfEntry(m, isNew, term), m.hash)
           l == IF m.hash = NoHash THEN before
                ELSE PutAfter(before, m.prev_log_index, entry)
<1>1. /\ log' = [log EXCEPT ![n] = l]
      /\ ~ ModifiesCommitted(m, commit_index[n])
      /\ m.hash # NoHash => ~ LeavesGap(before, m.prev_log_index)
  BY DEF AcceptEntries
<1>2. /\ m.prev_log_index \in Int /\ m.entry_term \in Int /\ m.hash \in Hash
      /\ m.hash \in Block => CarriesBlock(m)
  BY DEF AppendEntry, AppendOf, Hash, CarriesBlock, NamesDistinct
<1>3. /\ before \in Seq(EntriesOver(Hash)) /\ NoNewBlock(log[n], before)
      /\ Keeps(log[n], before, commit_index[n])
  BY PreparedKeeps, PreparedPlaces
<1>4. entry \in EntriesOver(Hash) /\ entry.hash = m.hash
  BY <1>2 DEF Entry, EntriesOver, TermOfEntry
<1>5. \A b \in Block : \A i : LogHas(before, b, i) => Placed(b, i)
  BY <1>3 DEF NoNewBlock, Placed
<1> HIDE DEF before, entry
<1>6. ASSUME NEW b \in Block, NEW i, LogHas(l, b, i) PROVE Placed(b, i)
  <2>1. CASE m.hash = NoHash
    BY <1>5, <1>6, <2>1
  <2>2. CASE m.hash # NoHash
    <3>1. LastLogIndex(before) \in Int
      BY <1>3, LastLogIndexType
    <3>2. m.prev_log_index \in -1 .. LastLogIndex(before)
      BY <1>1, <1>2, <2>2, <3>1, AtNode DEF ModifiesCommitted, LeavesGap
    <3>3. LogHas(before, b, i) \/ (b = m.hash /\ i = m.prev_log_index + 2)
      BY <1>3, <1>4, <1>6, <2>2, <3>2, PutAfterPlaces
    <3> QED
      BY <1>2, <1>5, <3>3 DEF Placed, Carries
  <2> QED
    BY <2>1, <2>2
<1>7. \A r \in msgs' \ msgs : \A b, i : ~ Carries(r, b, i)
  <2>1. PICK commit, last : Reply(m, EntryAnswer(n, m, commit, last, TRUE))
    BY DEF AcceptEntries
  <2> QED
    BY <2>1, NewPackets DEF EntryAnswer, Carries, CarriesBlock
<1> HIDE DEF l
<1> QED
  BY <1>1, <1>6, <1>7, NodePlaces

LEMMA RemovePlaces ==
  ASSUME IndInv, NEW n \in Node,
         log' = [log EXCEPT ![n] = RemoveUncommittedEntries(@, commit_index[n])],
         \A m \in msgs' \ msgs : ~ CarriesBlock(m)
  PROVE  NothingPlaced
<1> DEFINE l == RemoveUncommittedEntries(log[n], commit_index[n])
<1>1. NoNewBlock(log[n], l)
  BY AtNode, RemoveUncommittedPlaces
<1>2. log' = [log EXCEPT ![n] = l]
  OBVIOUS
<1>3. \A b \in Block : \A i : LogHas(l, b, i) => Placed(b, i)
  BY <1>1 DEF NoNewBlock, Placed
<1> HIDE DEF l
<1> QED
  BY <1>2, <1>3, NodePlaces DEF Carries

LEMMA PacketPlaces ==
  ASSUME ConstantsAssumption, NamesDistinct, IndInv, NEW m \in msgs, ReceivePacket(m)
  PROVE  NothingPlaced
<1> DEFINE n == m.dst
           empty == \A r \in msgs' \ msgs : ~ CarriesBlock(r)
<1>1. n \in Node
  BY MessageType DEF IndInv, StateTypeOK
<1> HIDE DEF n
<1>2. Receive(m) => empty
  BY NewPackets
<1>3. ASSUME NEW r, Reply(m, r), r.msg_type \in {"ACK_VOTE", "ACK_ENTRY"} PROVE empty
  BY <1>3, NewPackets DEF CarriesBlock
<1>4. ASSUME empty, UNCHANGED log PROVE NothingPlaced
  BY <1>4, SameLogPlaces DEF Carries
<1>5. CASE ProcessRequestVote(n, m)
  <2>1. PICK term, granted : Reply(m, VoteAnswer(n, m, term, granted))
    BY <1>5 DEF ProcessRequestVote
  <2>2. empty
    BY <1>3, <2>1 DEF VoteAnswer
  <2> QED
    BY <1>4, <1>5, <2>2 DEF ProcessRequestVote, logVars
<1>6. CASE ProcessVoteResponse(n, m)
  <2>1. CASE Receive(m) /\ UNCHANGED logVars
    BY <1>2, <1>4, <2>1 DEF logVars
  <2>2. CASE /\ Receive(m)
             /\ log' = [log EXCEPT ![n] = RemoveUncommittedEntries(@, commit_index[n])]
    BY <1>1, <1>2, <2>2, RemovePlaces
  <2>3. CASE LET round == HeartbeatRound(n, current_term[n], current_group[n],
                                         FirstNext(n), FirstMatch)
             IN  Heartbeats(n, round) /\ ReceiveAndSend(m, round.packets)
    <3>1. current_term[n] \in Int
      BY <1>1 DEF IndInv, StateTypeOK, ElectionTypeOK
    <3> DEFINE round == HeartbeatRound(n, current_term[n], current_group[n],
                                       FirstNext(n), FirstMatch)
    <3>2. Heartbeats(n, round) /\ msgs' \subseteq msgs \cup round.packets
      BY <2>3, NewPackets DEF ReceiveAndSend
    <3> QED
      BY <1>1, <3>1, <3>2, OnlyHeartbeatsPlace
  <2> QED
    BY <1>6, <2>1, <2>2, <2>3 DEF ProcessVoteResponse
<1>7. CASE ProcessAppendEntries(n, m)
  <2>1. m \in AppendEntry /\ m.term \in Int
    BY <1>7, MessageType DEF ProcessAppendEntries, IndInv, StateTypeOK
  <2>2. PICK term \in Int : \E state :
          RejectEntries(n, m, term) \/ AcceptEntries(n, m, term, state)
    BY <1>1, <1>7, <2>1 DEF ProcessAppendEntries, IndInv, StateTypeOK, ElectionTypeOK
  <2>3. CASE RejectEntries(n, m, term)
    <3>1. empty
      BY <1>3, <2>3 DEF RejectEntries, EntryAnswer
    <3>2. PICK l \in {log[n], Trimmed(n, m), Prepared(n, m, term)} :
            log' = [log EXCEPT ![n] = l]
      BY <2>3 DEF RejectEntries
    <3>3. NoNewBlock(log[n], l)
      <4>1. NoNewBlock(log[n], log[n])
        BY DEF NoNewBlock
      <4> QED
        BY <1>1, <2>1, <3>2, <4>1, PreparedPlaces
    <3>4. \A b \in Block : \A i : LogHas(l, b, i) => Placed(b, i)
      BY <1>1, <3>3 DEF NoNewBlock, Placed
    <3> QED
      BY <1>1, <3>1, <3>2, <3>4, NodePlaces, ZenonT(60) DEF Carries
  <2> QED
    BY <1>1, <2>1, <2>2, <2>3, AcceptPlaces
<1>8. CASE ProcessEntriesAck(n, m)
  <2>1. empty
    BY <1>2, <1>8 DEF ProcessEntriesAck
  <2>2. CASE UNCHANGED log
    BY <1>4, <2>1, <2>2
  <2>3. CASE StepDown(n, m)
    BY <1>1, <2>1, <2>3, RemovePlaces DEF StepDown
  <2> QED
    BY <1>8, <2>2, <2>3 DEF ProcessEntriesAck, RecordAck, logVars
<1>9. CASE DropForeign(n, m)
  BY <1>2, <1>4, <1>9 DEF DropForeign, logVars
<1> QED
  BY <1>5, <1>6, <1>7, <1>8, <1>9 DEF ReceivePacket, n

\* A block that is placed is in the pool of some node.
LEMMA PlacedIsHeld ==
  ASSUME NamesDistinct, IndInv, Resolved, PayloadsHeld, NEW b \in Block, NEW i, Placed(b, i)
  PROVE  \E p \in Node : b \in blockpool[p]
<1>1. CASE \E n \in Node : LogHas(log[n], b, i)
  <2>1. PICK n \in Node : LogHas(log[n], b, i)
    BY <1>1
  <2>2. log[n] \in Seq(EntriesOver(Resolves(blockpool[n], groups[n])))
    BY DEF Resolved, ResolvedAt
  <2>3. log[n][i] \in EntriesOver(Resolves(blockpool[n], groups[n]))
    BY <2>1, <2>2, ElementOfSeq DEF LogHas
  <2>4. b \in Resolves(blockpool[n], groups[n])
    BY <2>1, <2>3 DEF LogHas, EntriesOver
  <2> QED
    BY <2>4 DEF Resolves, NamesDistinct, IndInv, StateTypeOK, GroupTypeOK
<1>2. CASE \E m \in msgs : Carries(m, b, i)
  BY <1>2, MessageType DEF Carries, PayloadsHeld, HeldBySender, IndInv, StateTypeOK
<1> QED
  BY <1>1, <1>2 DEF Placed

\* Inserting a block is what gives it a place.
LEMMA InsertPlaces ==
  ASSUME IndInv, NEW n \in Node, NEW b \in Block, InsertEntry(n, b),
         NEW x \in Block, NEW i, Placed(x, i)'
  PROVE  Placed(x, i) \/ (x = b /\ i = Len(log[n]) + 1)
<1> DEFINE e == Entry(-1, b)
           l == Append(log[n], e)
<1>1. e \in EntriesOver(Hash) /\ e.hash = b
  BY DEF Entry, EntriesOver, Hash
<1> HIDE DEF e
<1>2. log' = [log EXCEPT ![n] = l] /\ msgs' = msgs
  BY DEF InsertEntry, e
<1>3. LogHas(l, x, i) => LogHas(log[n], x, i) \/ (x = b /\ i = Len(log[n]) + 1)
  BY <1>1, AtNode, AppendPlaces
<1>4. ASSUME NEW p \in Node, LogHas(log'[p], x, i)
      PROVE  Placed(x, i) \/ (x = b /\ i = Len(log[n]) + 1)
  <2>1. CASE p = n
    <3>1. log'[n] = l
      BY <1>2 DEF IndInv, StateTypeOK, LogTypeOK
    <3> QED
      BY <1>3, <1>4, <2>1, <3>1 DEF Placed
  <2>2. CASE p # n
    <3>1. log'[p] = log[p]
      BY <1>2, <2>2 DEF IndInv, StateTypeOK, LogTypeOK
    <3> QED
      BY <1>4, <3>1 DEF Placed
  <2> QED
    BY <2>1, <2>2
<1>5. Placed(x, i)' <=> \/ \E p \in Node : LogHas(log'[p], x, i)
                        \/ \E m \in msgs' : Carries(m, x, i)
  BY DEF Placed, LogHas, Carries, CarriesBlock
<1>6. (\E m \in msgs : Carries(m, x, i)) => Placed(x, i)
  BY DEF Placed
<1> QED
  BY <1>2, <1>4, <1>5, <1>6

LEMMA StepPlaces ==
  ASSUME ConstantsAssumption, NamesDistinct, IndInv, Resolved, PayloadsHeld, PlacedOnce,
         [Next]_vars
  PROVE  PlacedOnce'
<1>1. ASSUME NothingPlaced, UNCHANGED scheduled PROVE PlacedOnce'
  <2>1. \A b \in Block : \A i, j : Placed(b, i)' /\ Placed(b, j)' => i = j
    BY <1>1 DEF NothingPlaced, PlacedOnce
  <2>2. ASSUME NEW n \in Node, NEW b \in scheduled'[n]
        PROVE  /\ \A i : ~ Placed(b, i)'
               /\ \A p \in Node : b \in scheduled'[p] => p = n
    <3>1. b \in Block
      BY <1>1 DEF IndInv, StateTypeOK, InputTypeOK
    <3> QED
      BY <1>1, <3>1 DEF NothingPlaced, PlacedOnce
  <2> QED
    BY <2>1, <2>2 DEF PlacedOnce
<1>2. ASSUME NEW n \in Node, SendHeartbeats(n) PROVE PlacedOnce'
  <2> DEFINE round == HeartbeatRound(n, current_term[n], current_group[n],
                                     next_indexes[n], match_indexes[n])
  <2>1. Heartbeats(n, round) /\ Send(round.packets) /\ UNCHANGED scheduled
    BY <1>2 DEF SendHeartbeats, inputVars
  <2>2. msgs' \subseteq msgs \cup round.packets
    BY <2>1, NewPackets DEF Send
  <2>3. current_term[n] \in Int
    BY DEF IndInv, StateTypeOK, ElectionTypeOK
  <2>4. NothingPlaced
    BY <2>1, <2>2, <2>3, OnlyHeartbeatsPlace
  <2> QED
    BY <1>1, <2>1, <2>4
<1>3. ASSUME NEW n \in Node, TriggerElectionTimeout(n) PROVE PlacedOnce'
  <2>1. CASE ElectionTimeoutAfterVote(n)
    BY <1>1, <2>1, SameLogPlaces DEF ElectionTimeoutAfterVote, logVars, inputVars
  <2>2. CASE StandForElection(n)
    <3> DEFINE term == IF current_state[n] = "CANDIDATE" THEN current_term[n]
                                                        ELSE current_term[n] + 1
               group == SplitApplied(n, current_group[n])
               round == HeartbeatRound(n, term, group, FirstNext(n), FirstMatch)
               requests == VoteRequests(n, term, group)
    <3>1. term \in Int
      BY DEF IndInv, StateTypeOK, ElectionTypeOK
    <3>2. \/ Send(requests) /\ UNCHANGED log
          \/ Heartbeats(n, round) /\ Send(requests \cup round.packets)
      BY <2>2 DEF StandForElection, logVars
    <3> HIDE DEF term, group
    <3>3. \A m \in requests : ~ CarriesBlock(m)
      BY DEF VoteRequests, CarriesBlock
    <3>4. UNCHANGED scheduled
      BY <2>2 DEF StandForElection, inputVars
    <3> HIDE DEF requests
    <3>5. CASE Send(requests) /\ UNCHANGED log
      <4>1. \A m \in msgs' \ msgs : ~ CarriesBlock(m)
        BY <3>3, <3>5, NewPackets DEF Send
      <4> QED
        BY <1>1, <3>4, <3>5, <4>1, SameLogPlaces DEF Carries
    <3>6. CASE Heartbeats(n, round) /\ Send(requests \cup round.packets)
      <4>1. msgs' \subseteq msgs \cup requests \cup round.packets
        BY <3>6, NewPackets DEF Send
      <4> QED
        BY <1>1, <3>1, <3>3, <3>4, <3>6, <4>1, HeartbeatsPlace
    <3> QED
      BY <3>2, <3>5, <3>6
  <2> QED
    BY <1>3, <2>1, <2>2 DEF TriggerElectionTimeout
<1>4. ASSUME NEW m \in msgs, ReceivePacket(m) PROVE PlacedOnce'
  <2>1. UNCHANGED scheduled
    BY <1>4 DEF ReceivePacket, ProcessRequestVote, ProcessVoteResponse,
                ProcessAppendEntries, ProcessEntriesAck, DropForeign, inputVars
  <2> QED
    BY <1>1, <1>4, <2>1, PacketPlaces
<1>5. ASSUME NEW n \in Node, NEW group \in Topologies, ChangeGroup(n, group)
      PROVE  PlacedOnce'
  BY <1>1, <1>5, SameLogPlaces DEF ChangeGroup, logVars
<1>6. ASSUME NEW n \in Node, NEW b \in Block, GenerateBlock(n, b) PROVE PlacedOnce'
  <2>1. /\ NothingPlaced
        /\ scheduled' = [scheduled EXCEPT ![n] = @ \cup {b}]
        /\ \A p \in Node : b \notin scheduled[p] \cup blockpool[p]
    BY <1>6, SameLogPlaces DEF GenerateBlock, logVars
  <2>2. \A i : ~ Placed(b, i)
    BY <2>1, PlacedIsHeld
  <2>3. ASSUME NEW p \in Node
        PROVE  scheduled'[p] = IF p = n THEN scheduled[n] \cup {b} ELSE scheduled[p]
    BY <2>1 DEF IndInv, StateTypeOK, InputTypeOK
  <2>4. \A x \in Block : \A i, j : Placed(x, i)' /\ Placed(x, j)' => i = j
    BY <2>1 DEF NothingPlaced, PlacedOnce
  <2>5. ASSUME NEW p \in Node, NEW x \in scheduled'[p]
        PROVE  /\ \A i : ~ Placed(x, i)'
               /\ \A q \in Node : x \in scheduled'[q] => q = p
    <3>1. x \in Block /\ (x = b \/ x \in scheduled[p])
      BY <2>3 DEF IndInv, StateTypeOK, InputTypeOK
    <3>2. \A i : ~ Placed(x, i)
      BY <2>2, <3>1 DEF PlacedOnce
    <3>3. \A i : ~ Placed(x, i)'
      BY <2>1, <3>1, <3>2 DEF NothingPlaced
    <3>4. \A q \in Node : x \in scheduled'[q] => q = p
      BY <2>1, <2>3 DEF PlacedOnce
    <3> QED
      BY <3>3, <3>4
  <2> QED
    BY <2>4, <2>5 DEF PlacedOnce
<1>7. ASSUME NEW n \in Node, NEW b \in Block, InsertEntry(n, b) PROVE PlacedOnce'
  <2>1. b \in scheduled[n] /\ scheduled' = [scheduled EXCEPT ![n] = @ \ {b}]
    BY <1>7 DEF InsertEntry
  <2>2. \A i : ~ Placed(b, i)
    BY <2>1 DEF PlacedOnce
  <2>3. ASSUME NEW p \in Node
        PROVE  scheduled'[p] = IF p = n THEN scheduled[n] \ {b} ELSE scheduled[p]
    BY <2>1 DEF IndInv, StateTypeOK, InputTypeOK
  <2>4. \A x \in Block : \A i : Placed(x, i)' =>
          Placed(x, i) \/ (x = b /\ i = Len(log[n]) + 1)
    BY <1>7, InsertPlaces
  <2>5. \A x \in Block : \A i, j : Placed(x, i)' /\ Placed(x, j)' => i = j
    BY <2>2, <2>4 DEF PlacedOnce
  <2>6. ASSUME NEW p \in Node, NEW x \in scheduled'[p]
        PROVE  /\ \A i : ~ Placed(x, i)'
               /\ \A q \in Node : x \in scheduled'[q] => q = p
    <3>1. x \in scheduled[p] /\ x \in Block
      BY <2>3 DEF IndInv, StateTypeOK, InputTypeOK
    <3>2. x # b
      BY <2>1, <2>3, <3>1 DEF PlacedOnce
    <3>3. \A i : ~ Placed(x, i)
      BY <3>1 DEF PlacedOnce
    <3>4. \A q \in Node : x \in scheduled'[q] => q = p
      BY <2>3, <3>1 DEF PlacedOnce
    <3> QED
      BY <2>4, <3>1, <3>2, <3>3, <3>4
  <2> QED
    BY <2>5, <2>6 DEF PlacedOnce
<1>8. CASE StopApplication \/ UNCHANGED vars
  BY <1>1, <1>8, SameLogPlaces DEF StopApplication, vars, logVars, inputVars
<1> QED
  BY <1>2, <1>3, <1>4, <1>5, <1>6, <1>7, <1>8 DEF Next, OtherEvent
-----------------------------------------------------------------------------
(* What was handed over to a node is committed there, at its one place.    *)

HandedOver ==
  \A n \in Node : \A k \in DOMAIN delivered[n] :
    delivered[n][k] # NoHash =>
      /\ delivered[n][k] \in Block
      /\ \E i \in 1 .. (commit_index[n] + 1) : LogHas(log[n], delivered[n][k], i)

\* A committed block stays where it is.
LEMMA CommittedStays ==
  ASSUME IndInv, IndInv', LogStep, NEW n \in Node, NEW i \in 1 .. (commit_index[n] + 1)
  PROVE  log'[n][i] = log[n][i] /\ i \in 1 .. Len(log[n]) /\ i \in 1 .. Len(log'[n])
<1>1. /\ Keeps(log[n], log'[n], commit_index[n])
      /\ commit_index[n] \in -1 .. LastLogIndex(log[n])
      /\ Len(log[n]) \in Nat /\ Len(log'[n]) \in Nat
  <2>1. log[n] \in Seq(LogEntry) /\ log'[n] \in Seq(LogEntry)
    BY DEF IndInv, StateTypeOK, LogTypeOK
  <2> QED
    BY <2>1, AtNode, LenProperties DEF LogStep
<1>2. i - 1 \in 0 .. commit_index[n] /\ (i - 1) + 1 = i
  BY <1>1
<1>3. GetEntry(log'[n], i - 1) = GetEntry(log[n], i - 1)
  BY <1>1, <1>2 DEF Keeps
<1>4. i - 1 \in 0 .. LastLogIndex(log[n]) /\ i - 1 \in 0 .. LastLogIndex(log'[n])
  BY <1>1, <1>2 DEF Keeps, LastLogIndex
<1> QED
  BY <1>1, <1>2, <1>3, <1>4 DEF GetEntry, LastLogIndex

\* What a step hands over to a node lies after what was committed there.
LEMMA NewlyCommitted ==
  ASSUME IndInv, IndInv', LogStep, NEW n \in Node
  PROVE  /\ Len(JustCommitted(n)) = commit_index'[n] - commit_index[n]
         /\ JustCommitted(n) \in Seq(Hash)
         /\ \A a \in 1 .. Len(JustCommitted(n)) :
              JustCommitted(n)[a] = BlockOf(log'[n][commit_index[n] + 1 + a], blockpool'[n])
         /\ \A a \in 1 .. Len(JustCommitted(n)) : JustCommitted(n)[a] # NoHash =>
              /\ JustCommitted(n)[a] \in Block
              /\ commit_index[n] + 1 + a \in 1 .. (commit_index'[n] + 1)
              /\ LogHas(log'[n], JustCommitted(n)[a], commit_index[n] + 1 + a)
<1> DEFINE c == commit_index[n]
           d == commit_index'[n]
           new == JustCommitted(n)
<1>1. /\ c \in Int /\ d \in Int /\ -1 <= c /\ c <= d /\ d <= LastLogIndex(log'[n])
      /\ blockpool'[n] \subseteq Block /\ Len(log'[n]) \in Nat
  <2>1. log'[n] \in Seq(LogEntry) /\ c \in Int /\ d \in Int /\ blockpool'[n] \subseteq Block
    BY DEF IndInv, StateTypeOK, LogTypeOK
  <2>2. Len(log'[n]) \in Nat
    BY <2>1, LenProperties
  <2> QED
    BY <2>1, <2>2, AtNode DEF LogStep, LastLogIndex
<1>2. /\ new \in Seq(blockpool'[n] \cup {NoHash})
      /\ Len(new) = d - c
      /\ \A k \in 1 .. (d - c) : new[k] = BlockOf(GetEntry(log'[n], c + k), blockpool'[n])
  <2>1. new = BlocksBetween(log'[n], c, d, blockpool'[n])
    BY DEF JustCommitted
  <2> DEFINE l == log'[n]
             pool == blockpool'[n]
  <2> HIDE DEF new, c, d, l, pool
  <2>2. OneForEach(l, c, d, pool)
    <3>1. c \in Int /\ d \in Int
      BY <1>1
    <3> QED
      BY <3>1, BlocksBetweenType
  <2> QED
    BY <1>1, <2>1, <2>2 DEF OneForEach, l, pool
<1>3. new \in Seq(Hash)
  <2>1. blockpool'[n] \cup {NoHash} \subseteq Hash
    BY <1>1 DEF Hash
  <2> QED
    BY <1>2, <2>1, SeqMonotone
<1> HIDE DEF new, c, d
<1>4. ASSUME NEW a \in 1 .. Len(new)
      PROVE  /\ c + 1 + a \in 1 .. Len(log'[n]) /\ c + 1 + a \in 1 .. (d + 1)
             /\ new[a] = BlockOf(log'[n][c + 1 + a], blockpool'[n])
  <2>1. a \in 1 .. (d - c) /\ a \in Int
    BY <1>1, <1>2
  <2>2. new[a] = BlockOf(GetEntry(log'[n], c + a), blockpool'[n])
    BY <1>2, <2>1
  <2>3. c + a \in 0 .. LastLogIndex(log'[n]) /\ c + a + 1 = c + 1 + a
    BY <1>1, <2>1 DEF LastLogIndex
  <2>4. GetEntry(log'[n], c + a) = log'[n][c + 1 + a]
    BY <2>3 DEF GetEntry
  <2> QED
    BY <1>1, <2>1, <2>2, <2>4 DEF LastLogIndex
<1>5. ASSUME NEW a \in 1 .. Len(new), new[a] # NoHash
      PROVE  new[a] \in Block /\ LogHas(log'[n], new[a], c + 1 + a)
  BY <1>1, <1>4, <1>5 DEF BlockOf, LogHas
<1> QED
  BY <1>2, <1>3, <1>4, <1>5 DEF new, c, d

LEMMA StepHandsOver ==
  ASSUME IndInv, IndInv', TypeOK, LogStep, DeliveryStep, PlacedOnce', HandedOver, DeliveredOnce
  PROVE  HandedOver' /\ DeliveredOnce'
<1> SUFFICES ASSUME NEW n \in Node
             PROVE  /\ \A k \in DOMAIN delivered'[n] : delivered'[n][k] # NoHash =>
                         /\ delivered'[n][k] \in Block
                         /\ \E i \in 1 .. (commit_index'[n] + 1) :
                              LogHas(log'[n], delivered'[n][k], i)
                    /\ \A i, j \in DOMAIN delivered'[n] :
                         delivered'[n][i] = delivered'[n][j] /\ delivered'[n][i] # NoHash
                           => i = j
  BY DEF HandedOver, DeliveredOnce, LogHas
<1> DEFINE old == delivered[n]
           new == JustCommitted(n)
           c == commit_index[n]
           d == commit_index'[n]
<1>1. c \in Int /\ d \in Int /\ c <= d
  BY AtNode DEF LogStep
<1>2. /\ old \in Seq(Hash) /\ DOMAIN old = 1 .. Len(old) /\ Len(old) \in Nat
      /\ new \in Seq(Hash) /\ Len(new) \in Nat
      /\ DOMAIN (old \o new) = 1 .. (Len(old) + Len(new))
      /\ \A i \in 1 .. (Len(old) + Len(new)) :
           (old \o new)[i] = IF i <= Len(old) THEN old[i] ELSE new[i - Len(old)]
  <2>1. old \in Seq(Hash) /\ new \in Seq(Hash)
    BY NewlyCommitted DEF TypeOK
  <2> HIDE DEF old, new
  <2> QED
    BY <2>1, LenProperties, ConcatProperties
<1>3. \A k \in DOMAIN old : old[k] # NoHash =>
        /\ old[k] \in Block
        /\ \E i \in 1 .. (c + 1) : LogHas(log'[n], old[k], i)
  BY CommittedStays DEF HandedOver, LogHas
<1>4. \A a \in 1 .. Len(new) : new[a] # NoHash =>
        /\ new[a] \in Block
        /\ c + 1 + a \in 1 .. (d + 1)
        /\ LogHas(log'[n], new[a], c + 1 + a)
  BY NewlyCommitted
<1>5. \A i, j \in DOMAIN old : old[i] = old[j] /\ old[i] # NoHash => i = j
  BY DEF DeliveredOnce
<1>6. \A b \in Block : \A i, j : LogHas(log'[n], b, i) /\ LogHas(log'[n], b, j) => i = j
  BY DEF PlacedOnce, Placed, LogHas
<1>7. delivered'[n] = old \/ delivered'[n] = old \o new
  BY DEF DeliveryStep
<1> HIDE DEF old, new, c, d
<1>8. \A i \in 1 .. (c + 1) : i \in 1 .. (d + 1)
  BY <1>1
<1>9. CASE delivered'[n] = old
  BY <1>3, <1>5, <1>8, <1>9 DEF d
<1>10. CASE delivered'[n] = old \o new
  <2> DEFINE all == old \o new
  <2>1. ASSUME NEW k \in DOMAIN all, all[k] # NoHash
        PROVE  /\ all[k] \in Block
               /\ \E i \in 1 .. (d + 1) : LogHas(log'[n], all[k], i)
    <3>1. CASE k <= Len(old)
      <4>1. k \in DOMAIN old /\ all[k] = old[k]
        BY <1>2, <2>1, <3>1
      <4> QED
        BY <1>3, <1>8, <2>1, <4>1
    <3>2. CASE ~ (k <= Len(old))
      <4>1. k - Len(old) \in 1 .. Len(new) /\ all[k] = new[k - Len(old)]
        BY <1>2, <2>1, <3>2
      <4> QED
        BY <1>4, <2>1, <4>1
    <3> QED
      BY <3>1, <3>2
  <2>2. ASSUME NEW i \in DOMAIN all, NEW j \in DOMAIN all,
               all[i] = all[j], all[i] # NoHash, i <= Len(old), ~ (j <= Len(old))
        PROVE  FALSE
    <3>1. i \in DOMAIN old /\ all[i] = old[i]
      BY <1>2, <2>2
    <3>2. j - Len(old) \in 1 .. Len(new) /\ all[j] = new[j - Len(old)]
      BY <1>2, <2>2
    <3>3. PICK x \in 1 .. (c + 1) : LogHas(log'[n], old[i], x)
      BY <1>3, <2>2, <3>1
    <3>4. LogHas(log'[n], old[i], c + 1 + (j - Len(old))) /\ old[i] \in Block
      BY <1>4, <2>2, <3>1, <3>2
    <3>5. x = c + 1 + (j - Len(old))
      BY <1>6, <3>3, <3>4
    <3> QED
      BY <1>1, <3>2, <3>5
  <2>3. ASSUME NEW i \in DOMAIN all, NEW j \in DOMAIN all,
               all[i] = all[j], all[i] # NoHash, ~ (i <= Len(old)), ~ (j <= Len(old))
        PROVE  i = j
    <3>1. i - Len(old) \in 1 .. Len(new) /\ all[i] = new[i - Len(old)]
      BY <1>2, <2>3
    <3>2. j - Len(old) \in 1 .. Len(new) /\ all[j] = new[j - Len(old)]
      BY <1>2, <2>3
    <3>3. c + 1 + (i - Len(old)) = c + 1 + (j - Len(old))
      BY <1>4, <1>6, <2>3, <3>1, <3>2
    <3>4. i \in Int /\ j \in Int
      BY <1>2
    <3> QED
      BY <1>1, <1>2, <3>3, <3>4
  <2>4. ASSUME NEW i \in DOMAIN all, NEW j \in DOMAIN all,
               all[i] = all[j], all[i] # NoHash, i <= Len(old), j <= Len(old)
        PROVE  i = j
    <3>1. i \in DOMAIN old /\ all[i] = old[i] /\ j \in DOMAIN old /\ all[j] = old[j]
      BY <1>2, <2>4
    <3> QED
      BY <1>5, <2>4, <3>1
  <2> HIDE DEF all
  <2> QED
    BY <1>10, <2>1, <2>2, <2>3, <2>4 DEF all, d
<1> QED
  BY <1>7, <1>9, <1>10

\* DeliveredOnce: the blockgraph of a node is handed no block twice, whatever the
\* elections, the changes of group and the repeated appends (RecordAck and
\* AcceptEntries hand over what follows the commit index, which never goes back).
THEOREM NothingDeliveredTwice == NamesDistinct => (Spec => []DeliveredOnce)
<1> SUFFICES ASSUME NamesDistinct PROVE Spec => []DeliveredOnce
  OBVIOUS
<1> DEFINE Inv == PayloadsHeld /\ PlacedOnce /\ HandedOver /\ DeliveredOnce
<1>1. Init => Inv
  <2> SUFFICES ASSUME Init PROVE Inv
    OBVIOUS
  <2>1. PayloadsHeld
    BY DEF Init, PayloadsHeld
  <2>2. \A n \in Node : Len(log[n]) = 0 /\ DOMAIN delivered[n] = {} /\ scheduled[n] = {}
    BY DEF Init
  <2>3. \A b, i : ~ Placed(b, i)
    BY <2>2 DEF Placed, LogHas, Init
  <2>4. PlacedOnce
    BY <2>2, <2>3 DEF PlacedOnce
  <2> QED
    BY <2>1, <2>2, <2>4 DEF HandedOver, DeliveredOnce
<1>2. /\ IndInv /\ IndInv' /\ TypeOK /\ Resolved /\ Inv /\ [Next]_vars
      => Inv'
  <2> SUFFICES ASSUME IndInv, IndInv', TypeOK, Resolved, Inv, [Next]_vars PROVE Inv'
    OBVIOUS
  <2>1. LogStep
    BY ConstantsAssumption, StepOK
  <2>2. PayloadsHeld'
    BY ConstantsAssumption, StepKinds
  <2>3. PlacedOnce'
    BY ConstantsAssumption, StepPlaces
  <2>4. DeliveryStep
    BY StepDelivers
  <2> QED
    BY <2>1, <2>2, <2>3, <2>4, StepHandsOver
<1> QED
  BY <1>1, <1>2, Invariance, AllTypesKept, ResolvedHolds, PTL DEF Spec
-----------------------------------------------------------------------------
(* The first term.  Nobody has left it and no group was reported: then at  *)
(* most one node is ever elected, because a vote of the first term cannot  *)
(* be given again, and every log is a copy of a beginning of its log.      *)

FirstTerm == \A n \in Node : current_term[n] <= 1 /\ changes[n] = 0

\* Without a report there are no groups but the network.
Quiet ==
  /\ \A n \in Node : /\ current_group[n] = Node
                     /\ pending_groups[n] = <<>>
                     /\ DOMAIN groups[n] = {}
  /\ \A m \in msgs : m.msg_type # "APPEND_ENTRY_CONF"

\* What the steps of a network of several nodes in its first term start from.
Calm ==
  /\ ConstantsAssumption /\ Cardinality(Node) # 1
  /\ IndInv /\ TypeOK /\ RoleMatchesVote /\ NoClaimBeyondCommit
  /\ Quiet /\ FirstTerm

\* A node that has followed someone into the first term stays where it is.
Spent(p) == current_state[p] = "FOLLOWER" /\ current_term[p] = 1

IsGrant(m) == m.msg_type = "ACK_VOTE" /\ m.vote_granted

\* R[c] is the set of nodes whose vote c has received in the first term and led
\* the node that was elected, or NoNode.
VoterOK(R, led, n, state, term, votes) ==
  /\ term \in {0, 1}
  /\ votes <= 1 + Cardinality(R[n])
  /\ (\E c \in Node : n \in R[c]) => state = "FOLLOWER" /\ term = 1
  /\ n = led => term = 1 /\ state # "CANDIDATE" /\ \A c \in Node : n \notin R[c]
  /\ state = "LEADER" => n = led
  /\ state = "CANDIDATE" => term = 1

\* A vote on its way is the only one of its sender, which is not counted yet.
GrantOK(R, led, m) ==
  /\ Spent(m.src) /\ m.src # led
  /\ \A c \in Node : m.src \notin R[c]
  /\ \A r \in msgs : IsGrant(r) /\ r.src = m.src => r = m

VotesOK(R, led) ==
  /\ \A n \in Node :
       VoterOK(R, led, n, current_state[n], current_term[n], gathered_votes[n])
  /\ \A m \in msgs : m.msg_type = "ACK_VOTE" => m.term \in {0, 1}
  /\ \A m \in msgs : IsGrant(m) => GrantOK(R, led, m)
  /\ \A c, d \in Node : c # d => R[c] \cap R[d] = {}
  /\ led # NoNode => 2 * (1 + Cardinality(R[led])) > Cardinality(Node)

\* The log that all the others copy, and what is committed of it.
LedLog(led) == IF led \in Node THEN log[led] ELSE <<>>
LedCommit(led) == IF led \in Node THEN commit_index[led] ELSE -1

AppendOK(led, l, m) ==
  m.msg_type = "APPEND_ENTRY" =>
    /\ m.src = led /\ m.dst # led
    /\ m.hash # NoHash => LogHas(l, m.hash, m.prev_log_index + 2)

LogsOK(led) ==
  /\ \A n \in Node : /\ Follows(log[n], LedLog(led))
                     /\ commit_index[n] <= LedCommit(led)
                     /\ scheduled[n] # {} => n = led
  /\ \A m \in msgs : AppendOK(led, LedLog(led), m)

OneLeader == \E R \in [Node -> SUBSET Node], led \in Node \cup {NoNode} :
               VotesOK(R, led) /\ LogsOK(led)

\* What is committed is handed over.
CommitDelivers ==
  \A n \in Node : delivered'[n] = delivered[n] \o JustCommitted(n)

LEMMA FollowsItself ==
  ASSUME NEW l
  PROVE  Follows(l, l)
BY DEF Follows, LogHas

LEMMA FollowsTransitive ==
  ASSUME NEW l1, NEW l2, NEW l3, Follows(l1, l2), Follows(l2, l3)
  PROVE  Follows(l1, l3)
BY DEF Follows, LogHas

LEMMA VotesType ==
  ASSUME ConstantsAssumption, NEW R \in [Node -> SUBSET Node], NEW c \in Node
  PROVE  IsFiniteSet(R[c]) /\ Cardinality(R[c]) \in Nat /\ Cardinality(Node) \in Nat
BY FS_Subset, FS_CardinalityType DEF ConstantsAssumption

\* A step that counts no vote and elects nobody.
LEMMA VotesStay ==
  ASSUME IndInv, NEW R, NEW led, VotesOK(R, led),
         \A p \in Node : \/ /\ current_state'[p] = current_state[p]
                            /\ current_term'[p] = current_term[p]
                            /\ gathered_votes'[p] = gathered_votes[p]
                         \/ /\ VoterOK(R, led, p, current_state'[p], current_term'[p],
                                       gathered_votes'[p])
                            /\ Spent(p) => Spent(p)',
         \A m \in msgs' \ msgs :
           m.msg_type = "ACK_VOTE" => ~ m.vote_granted /\ m.term \in {0, 1}
  PROVE  VotesOK(R, led)'
<1>1. \A p \in Node : /\ VoterOK(R, led, p, current_state'[p], current_term'[p],
                                 gathered_votes'[p])
                      /\ Spent(p) => Spent(p)'
  BY DEF VotesOK, Spent
<1>2. \A m \in msgs' : m.msg_type = "ACK_VOTE" => m.term \in {0, 1}
  BY DEF VotesOK
<1>3. ASSUME NEW m \in msgs', IsGrant(m) PROVE GrantOK(R, led, m)'
  <2>1. \A r \in msgs' : IsGrant(r) => r \in msgs
    BY DEF IsGrant
  <2>2. m \in msgs /\ GrantOK(R, led, m) /\ m.src \in Node
    BY <1>3, <2>1, MessageType DEF VotesOK, IndInv, StateTypeOK
  <2> QED
    BY <1>1, <2>1, <2>2 DEF GrantOK, IsGrant
<1>4. /\ \A c, d \in Node : c # d => R[c] \cap R[d] = {}
      /\ led # NoNode => 2 * (1 + Cardinality(R[led])) > Cardinality(Node)
  BY DEF VotesOK
<1>5. \A p \in Node : VoterOK(R, led, p, current_state[p], current_term[p],
                              gathered_votes[p])'
  BY <1>1 DEF VoterOK
<1>6. \A m \in msgs' : IsGrant(m)' => GrantOK(R, led, m)'
  BY <1>3 DEF IsGrant
<1> QED
  BY <1>2, <1>4, <1>5, <1>6 DEF VotesOK

\* The log of the leader only grows, and the others follow.
LEMMA LogsStay ==
  ASSUME NEW led, LogsOK(led),
         Follows(LedLog(led), LedLog(led)'),
         \A p \in Node : /\ Follows(log'[p], LedLog(led)')
                         /\ commit_index'[p] <= LedCommit(led)'
                         /\ scheduled'[p] # {} => p = led,
         \A m \in msgs' \ msgs : AppendOK(led, LedLog(led)', m)
  PROVE  LogsOK(led)'
<1>1. ASSUME NEW m \in msgs' PROVE AppendOK(led, LedLog(led)', m)
  <2>1. CASE m \in msgs
    <3>1. AppendOK(led, LedLog(led), m)
      BY <2>1 DEF LogsOK
    <3>2. \A b, i : LogHas(LedLog(led), b, i) => LogHas(LedLog(led)', b, i)
      BY DEF Follows, LogHas
    <3> QED
      BY <3>1, <3>2 DEF AppendOK
  <2> QED
    BY <1>1, <2>1
<1>2. \A p \in Node : Follows(log'[p], LedLog(led)') <=> Follows(log[p], LedLog(led))'
  BY DEF Follows, LogHas
<1>3. \A m \in msgs' : AppendOK(led, LedLog(led), m)'
  BY <1>1 DEF AppendOK, LogHas
<1> QED
  BY <1>2, <1>3 DEF LogsOK

LEMMA SameLogsStay ==
  ASSUME NEW led, LogsOK(led), UNCHANGED <<log, commit_index>>,
         \A p \in Node : scheduled'[p] # {} => p = led \/ scheduled[p] # {},
         \A m \in msgs' \ msgs : AppendOK(led, LedLog(led), m)
  PROVE  LogsOK(led)'
<1>1. LedLog(led)' = LedLog(led) /\ LedCommit(led)' = LedCommit(led)
  BY DEF LedLog, LedCommit
<1>2. \A p \in Node : /\ Follows(log'[p], LedLog(led)')
                      /\ commit_index'[p] <= LedCommit(led)'
                      /\ scheduled'[p] # {} => p = led
  BY <1>1 DEF LogsOK
<1> QED
  BY <1>1, <1>2, FollowsItself, LogsStay

\* Only the log and the commit index of a node that follows change.
LEMMA FollowerLogStays ==
  ASSUME IndInv, NEW led, LogsOK(led), NEW n \in Node, n # led, NEW l, NEW c,
         log' = [log EXCEPT ![n] = l], commit_index' = [commit_index EXCEPT ![n] = c],
         Follows(l, LedLog(led)), c <= LedCommit(led), UNCHANGED scheduled,
         \A m \in msgs' \ msgs : m.msg_type # "APPEND_ENTRY"
  PROVE  LogsOK(led)'
<1>1. \A p \in Node : /\ log'[p] = IF p = n THEN l ELSE log[p]
                      /\ commit_index'[p] = IF p = n THEN c ELSE commit_index[p]
  BY DEF IndInv, StateTypeOK, LogTypeOK
<1>2. LedLog(led)' = LedLog(led) /\ LedCommit(led)' = LedCommit(led)
  BY <1>1 DEF LedLog, LedCommit
<1>3. \A p \in Node : /\ Follows(log'[p], LedLog(led)')
                      /\ commit_index'[p] <= LedCommit(led)'
                      /\ scheduled'[p] # {} => p = led
  BY <1>1, <1>2 DEF LogsOK
<1>4. \A m \in msgs' \ msgs : AppendOK(led, LedLog(led)', m)
  BY DEF AppendOK
<1> QED
  BY <1>2, <1>3, <1>4, FollowsItself, LogsStay

LEMMA CalmIsQuiet ==
  ASSUME Calm, NEW n \in Node
  PROVE  /\ current_group[n] = Node /\ pending_groups[n] = <<>> /\ DOMAIN groups[n] = {}
         /\ Cardinality(Node) # 1
BY DEF Calm, Quiet

\* In a calm network a round of heartbeats only sends.
LEMMA CalmSplit ==
  ASSUME Calm, NEW n \in Node
  PROVE  SplitApplied(n, current_group[n]) = current_group[n] /\ ~ AddsConfiguration(n)
BY CalmIsQuiet DEF SplitApplied, AddsConfiguration

LEMMA CalmRound ==
  ASSUME Calm, NEW n \in Node, NEW term, NEW next, NEW match
  PROVE  LET round == HeartbeatRound(n, term, current_group[n], next, match)
         IN  /\ round.log = log[n] /\ round.commit_index = commit_index[n]
             /\ round.group = current_group[n] /\ round.pending = pending_groups[n]
             /\ round.state = "LEADER"
BY CalmIsQuiet, CalmSplit DEF HeartbeatRound

LEMMA CalmAppends ==
  ASSUME Calm, NEW n \in Node, NEW term, NEW next, NEW match,
         NEW m \in HeartbeatRound(n, term, current_group[n], next, match).packets
  PROVE  m.msg_type = "APPEND_ENTRY" /\ AppendOK(n, log[n], m)
<1>1. PICK p \in Node \ {n} :
        m = AppendEntriesTo(n, p, term, log[n], commit_index[n], next)
  BY CalmIsQuiet, CalmSplit DEF HeartbeatRound
<1> DEFINE confIndex == LastCommitConfIndex(log[n], commit_index[n], groups[n])
           next_index == IF next[p] > confIndex THEN next[p] ELSE confIndex + 1
           entry == GetEntry(log[n], next_index)
           isBlock == entry.hash \in blockpool[n]
           isConf == ~ isBlock /\ IsConf(groups[n], entry)
<1>2. ~ isConf
  BY CalmIsQuiet DEF IsConf
<1>3. /\ m.msg_type = IF isConf THEN "APPEND_ENTRY_CONF" ELSE "APPEND_ENTRY"
      /\ m.src = n /\ m.dst = p
      /\ m.prev_log_index = next_index - 1
      /\ m.hash = IF isBlock \/ isConf THEN entry.hash ELSE NoHash
  BY <1>1 DEF AppendEntriesTo
<1> HIDE DEF isConf, isBlock, next_index
<1>4. ASSUME m.hash # NoHash PROVE LogHas(log[n], m.hash, m.prev_log_index + 2)
  <2>1. m.hash = entry.hash
    BY <1>3, <1>4
  <2>2. next_index \in 0 .. LastLogIndex(log[n]) /\ entry = log[n][next_index + 1]
    BY <1>4, <2>1 DEF GetEntry, Entry
  <2>3. next_index + 1 \in 1 .. Len(log[n])
    <3>1. Len(log[n]) \in Nat
      BY AtNode, LenProperties DEF Calm
    <3> QED
      BY <2>2, <3>1 DEF LastLogIndex
  <2>4. m.prev_log_index + 2 = next_index + 1
    BY <1>3, <2>2
  <2> QED
    BY <2>1, <2>2, <2>3, <2>4 DEF LogHas
<1> QED
  BY <1>2, <1>3, <1>4 DEF AppendOK

\* What is shown of every step of a calm network.
CalmStep == OneLeader' /\ Quiet' /\ CommitDelivers

LEMMA NothingCommitted ==
  ASSUME IndInv, IndInv', TypeOK, LogStep, DeliveryStep, UNCHANGED commit_index
  PROVE  CommitDelivers
<1> SUFFICES ASSUME NEW n \in Node PROVE delivered'[n] = delivered[n] \o JustCommitted(n)
  BY DEF CommitDelivers
<1>1. JustCommitted(n) \in Seq(Hash) /\ Len(JustCommitted(n)) = 0
  BY AtNode, NewlyCommitted
<1>2. JustCommitted(n) = <<>>
  BY <1>1, EmptySeq
<1>3. delivered[n] \o JustCommitted(n) = delivered[n]
  BY <1>2, ConcatEmptySeq DEF TypeOK
<1> QED
  BY <1>3 DEF DeliveryStep

LEMMA QuietStays ==
  ASSUME Quiet, UNCHANGED groupVars,
         \A m \in msgs' \ msgs : m.msg_type # "APPEND_ENTRY_CONF"
  PROVE  Quiet'
BY DEF Quiet, groupVars

\* A step that commits nothing and tells of no group.
LEMMA CalmStepOf ==
  ASSUME Calm, IndInv', LogStep, DeliveryStep,
         NEW R \in [Node -> SUBSET Node], NEW led \in Node \cup {NoNode},
         VotesOK(R, led)', LogsOK(led)',
         UNCHANGED groupVars,
         \A m \in msgs' \ msgs : m.msg_type # "APPEND_ENTRY_CONF",
         UNCHANGED commit_index
  PROVE  CalmStep
<1>1. OneLeader'
  BY DEF OneLeader
<1>2. Quiet' /\ CommitDelivers
  BY QuietStays, NothingCommitted DEF Calm
<1> QED
  BY <1>1, <1>2 DEF CalmStep

LEMMA CalmHeartbeats ==
  ASSUME Calm, NEW n \in Node, NEW term, NEW next, NEW match, NEW round,
         round = HeartbeatRound(n, term, current_group[n], next, match),
         Heartbeats(n, round)
  PROVE  /\ UNCHANGED <<log, commit_index, groupVars>>
         /\ current_state' = [current_state EXCEPT ![n] = "LEADER"]
<1>1. /\ round.log = log[n] /\ round.commit_index = commit_index[n]
      /\ round.group = current_group[n] /\ round.pending = pending_groups[n]
      /\ round.state = "LEADER"
  BY CalmRound
<1>3. /\ log' = [log EXCEPT ![n] = log[n]]
      /\ commit_index' = [commit_index EXCEPT ![n] = commit_index[n]]
      /\ current_group' = [current_group EXCEPT ![n] = current_group[n]]
      /\ pending_groups' = [pending_groups EXCEPT ![n] = pending_groups[n]]
      /\ current_state' = [current_state EXCEPT ![n] = "LEADER"]
      /\ UNCHANGED groups
  BY <1>1 DEF Heartbeats
<1> QED
  BY <1>3 DEF groupVars, Calm, IndInv, StateTypeOK, LogTypeOK, GroupTypeOK

\* A leader is the elected node, and only leaders have blocks of their own.
LEMMA SendHeartbeatsCalm ==
  ASSUME Calm, IndInv', LogStep, DeliveryStep,
         NEW R \in [Node -> SUBSET Node], NEW led \in Node \cup {NoNode},
         VotesOK(R, led), LogsOK(led),
         NEW n \in Node, SendHeartbeats(n)
  PROVE  CalmStep
<1> DEFINE round == HeartbeatRound(n, current_term[n], current_group[n],
                                   next_indexes[n], match_indexes[n])
<1>1. /\ current_state[n] = "LEADER" /\ Heartbeats(n, round) /\ Send(round.packets)
      /\ UNCHANGED <<current_term, gathered_votes, scheduled>>
  BY DEF SendHeartbeats, inputVars
<1>2. /\ UNCHANGED <<log, commit_index, groupVars>>
      /\ current_state' = [current_state EXCEPT ![n] = "LEADER"]
  BY <1>1, CalmHeartbeats
<1>3. \A m \in round.packets : m.msg_type = "APPEND_ENTRY" /\ AppendOK(n, log[n], m)
  BY CalmAppends
<1>4. n = led
  BY <1>1 DEF VotesOK, VoterOK
<1> HIDE DEF round
<1>5. \A m \in msgs' \ msgs : m \in round.packets
  BY <1>1, NewPackets DEF Send
<1>6. UNCHANGED current_state
  BY <1>1, <1>2 DEF Calm, IndInv, StateTypeOK, ElectionTypeOK
<1>7. VotesOK(R, led)'
  BY <1>1, <1>3, <1>5, <1>6, VotesStay DEF Calm
<1>8. LogsOK(led)'
  BY <1>1, <1>2, <1>3, <1>4, <1>5, SameLogsStay DEF LedLog
<1> QED
  BY <1>2, <1>3, <1>5, <1>7, <1>8, CalmStepOf

LEMMA ElectionTimeoutAfterVoteCalm ==
  ASSUME Calm, IndInv', LogStep, DeliveryStep,
         NEW R \in [Node -> SUBSET Node], NEW led \in Node \cup {NoNode},
         VotesOK(R, led), LogsOK(led),
         NEW n \in Node, ElectionTimeoutAfterVote(n)
  PROVE  CalmStep
<1>1. /\ UNCHANGED <<log, commit_index, scheduled, groupVars, msgs>>
      /\ current_state' = [current_state EXCEPT ![n] = "FOLLOWER"]
      /\ current_term' = [current_term EXCEPT
                            ![n] = IF current_state[n] = "CANDIDATE" THEN @ - 1 ELSE @]
      /\ gathered_votes' = [gathered_votes EXCEPT ![n] = 0]
  BY DEF ElectionTimeoutAfterVote, logVars, inputVars
<1>2. /\ current_state'[n] = "FOLLOWER" /\ gathered_votes'[n] = 0
      /\ current_term'[n] = IF current_state[n] = "CANDIDATE" THEN current_term[n] - 1
                                                              ELSE current_term[n]
      /\ \A p \in Node \ {n} : /\ current_state'[p] = current_state[p]
                               /\ current_term'[p] = current_term[p]
                               /\ gathered_votes'[p] = gathered_votes[p]
  BY <1>1 DEF Calm, IndInv, StateTypeOK, ElectionTypeOK
<1>3. VoterOK(R, led, n, current_state[n], current_term[n], gathered_votes[n])
  BY DEF VotesOK
<1>4. Cardinality(R[n]) \in Nat
  BY VotesType DEF Calm
<1>5. VoterOK(R, led, n, current_state'[n], current_term'[n], gathered_votes'[n])
  BY <1>2, <1>3, <1>4 DEF VoterOK
<1>6. Spent(n) => Spent(n)'
  BY <1>2 DEF Spent
<1>7. VotesOK(R, led)'
  BY <1>1, <1>2, <1>5, <1>6, VotesStay DEF Calm
<1>8. LogsOK(led)'
  BY <1>1, SameLogsStay
<1> QED
  BY <1>1, <1>7, <1>8, CalmStepOf

\* Only a node that has not reached the first term stands for election.
LEMMA StandForElectionCalm ==
  ASSUME Calm, FirstTerm', IndInv', LogStep, DeliveryStep,
         NEW R \in [Node -> SUBSET Node], NEW led \in Node \cup {NoNode},
         VotesOK(R, led), LogsOK(led),
         NEW n \in Node, StandForElection(n)
  PROVE  CalmStep
<1> DEFINE group == SplitApplied(n, current_group[n])
           requests == VoteRequests(n, IF current_state[n] = "CANDIDATE"
                                       THEN current_term[n] ELSE current_term[n] + 1, group)
<1>1. group = current_group[n] /\ Cardinality(group) # 1
  <2>1. group = current_group[n]
    BY CalmSplit
  <2> QED
    BY <2>1 DEF Calm, Quiet
<1>2. current_state[n] = "FOLLOWER"
  BY DEF StandForElection, Calm, RoleMatchesVote, ConstantsAssumption
<1>3. /\ current_term' = [current_term EXCEPT ![n] = @ + 1]
      /\ gathered_votes' = [gathered_votes EXCEPT ![n] = 1]
      /\ current_state' = [current_state EXCEPT ![n] = "CANDIDATE"]
      /\ current_group' = [current_group EXCEPT ![n] = current_group[n]]
      /\ Send(requests)
      /\ UNCHANGED <<log, commit_index, pending_groups, groups, scheduled>>
  BY <1>1, <1>2 DEF StandForElection, logVars, inputVars
<1>4. \A m \in msgs' \ msgs : m.msg_type = "REQ_VOTE"
  BY <1>3, NewPackets DEF Send, VoteRequests
<1>5. UNCHANGED groupVars
  BY <1>3 DEF groupVars, Calm, IndInv, StateTypeOK, GroupTypeOK
<1>6. /\ current_state'[n] = "CANDIDATE" /\ gathered_votes'[n] = 1
      /\ current_term'[n] = current_term[n] + 1
      /\ \A p \in Node \ {n} : /\ current_state'[p] = current_state[p]
                               /\ current_term'[p] = current_term[p]
                               /\ gathered_votes'[p] = gathered_votes[p]
  BY <1>3 DEF Calm, IndInv, StateTypeOK, ElectionTypeOK
<1>7. VoterOK(R, led, n, current_state[n], current_term[n], gathered_votes[n])
  BY DEF VotesOK
<1>8. current_term[n] = 0 /\ current_term'[n] = 1
  <2>1. current_term'[n] <= 1
    BY DEF FirstTerm
  <2> QED
    BY <1>6, <1>7, <2>1 DEF VoterOK
<1>9. Cardinality(R[n]) \in Nat
  BY VotesType DEF Calm
<1>10. VoterOK(R, led, n, current_state'[n], current_term'[n], gathered_votes'[n])
  BY <1>6, <1>7, <1>8, <1>9 DEF VoterOK
<1>11. ~ Spent(n)
  BY <1>8 DEF Spent
<1>12. VotesOK(R, led)'
  BY <1>4, <1>6, <1>10, <1>11, VotesStay DEF Calm
<1>13. LogsOK(led)'
  BY <1>3, <1>4, SameLogsStay DEF AppendOK
<1> QED
  BY <1>3, <1>4, <1>5, <1>12, <1>13, CalmStepOf

LEMMA PutAfterFollows ==
  ASSUME NEW H, NEW l \in Seq(EntriesOver(H)), NEW e \in EntriesOver(H),
         NEW prev \in -1 .. LastLogIndex(l), NEW l2, Follows(l, l2), LogHas(l2, e.hash, prev + 2)
  PROVE  Follows(PutAfter(l, prev, e), l2)
<1> SUFFICES ASSUME NEW i \in 1 .. Len(PutAfter(l, prev, e))
             PROVE  LogHas(l2, PutAfter(l, prev, e)[i].hash, i)
  BY DEF Follows
<1> DEFINE b == PutAfter(l, prev, e)[i].hash
<1>1. LogHas(PutAfter(l, prev, e), b, i)
  BY DEF LogHas
<1> HIDE DEF b
<1>2. LogHas(l, b, i) \/ (b = e.hash /\ i = prev + 2)
  BY <1>1, PutAfterPlaces
<1>3. LogHas(l, b, i) => LogHas(l2, b, i)
  BY DEF Follows, LogHas
<1>4. LogHas(l2, b, i)
  BY <1>2, <1>3
<1> QED
  BY <1>4 DEF b

\* Two majorities have a node in common.
LEMMA MajoritiesMeet ==
  ASSUME ConstantsAssumption, NEW A \in SUBSET Node, NEW B \in SUBSET Node, A \cap B = {}
  PROVE  Cardinality(A) + Cardinality(B) <= Cardinality(Node)
<1>1. IsFiniteSet(A) /\ IsFiniteSet(B) /\ IsFiniteSet(Node)
  BY FS_Subset DEF ConstantsAssumption
<1>2. Cardinality(A \cup B) = Cardinality(A) + Cardinality(B) - Cardinality(A \cap B)
  BY <1>1, FS_Union
<1>3. Cardinality(A \cap B) = 0
  BY FS_EmptySet
<1>4. Cardinality(A \cup B) <= Cardinality(Node)
  BY <1>1, FS_Subset
<1>5. Cardinality(A) \in Nat /\ Cardinality(B) \in Nat /\ Cardinality(A \cup B) \in Nat
  BY <1>1, FS_Union, FS_CardinalityType
<1> QED
  BY <1>2, <1>3, <1>4, <1>5

\* A node is elected once.
LEMMA NobodyElected ==
  ASSUME ConstantsAssumption, NEW R \in [Node -> SUBSET Node], NEW led \in Node \cup {NoNode},
         VotesOK(R, led), NEW n \in Node, current_state[n] = "CANDIDATE",
         NEW Q \in SUBSET Node, n \notin Q, led \notin Q,
         \A c \in Node \ {n} : R[c] \cap Q = {},
         2 * (1 + Cardinality(Q)) > Cardinality(Node)
  PROVE  led = NoNode
<1> SUFFICES ASSUME led \in Node PROVE FALSE
  OBVIOUS
<1>1. led # NoNode /\ 2 * (1 + Cardinality(R[led])) > Cardinality(Node)
  BY DEF VotesOK, ConstantsAssumption
<1>2. led # n /\ n \notin R[led] /\ led \notin R[led]
  <2>1. VoterOK(R, led, n, current_state[n], current_term[n], gathered_votes[n])
    BY DEF VotesOK
  <2>2. VoterOK(R, led, led, current_state[led], current_term[led], gathered_votes[led])
    BY DEF VotesOK
  <2> QED
    BY <2>1, <2>2 DEF VoterOK
<1>3. /\ IsFiniteSet(Q) /\ Cardinality(Q) \in Nat
      /\ IsFiniteSet(R[led]) /\ Cardinality(R[led]) \in Nat /\ Cardinality(Node) \in Nat
  BY VotesType, FS_Subset, FS_CardinalityType DEF ConstantsAssumption
<1>4. /\ Cardinality(Q \cup {n}) = Cardinality(Q) + 1
      /\ Cardinality(R[led] \cup {led}) = Cardinality(R[led]) + 1
  BY <1>2, <1>3, FS_AddElement
<1>5. (Q \cup {n}) \cap (R[led] \cup {led}) = {}
  BY <1>2
<1>6. Cardinality(Q \cup {n}) + Cardinality(R[led] \cup {led}) <= Cardinality(Node)
  BY <1>5, MajoritiesMeet
<1> QED
  BY <1>1, <1>3, <1>4, <1>6

\* A vote is given, and never again in the term.
LEMMA VoteGiven ==
  ASSUME Calm, NEW R \in [Node -> SUBSET Node], NEW led \in Node \cup {NoNode},
         VotesOK(R, led), NEW n \in Node,
         current_term[n] = 0, current_term' = [current_term EXCEPT ![n] = 1],
         current_state' = [current_state EXCEPT ![n] = "FOLLOWER"],
         UNCHANGED gathered_votes,
         NEW g, msgs' \subseteq msgs \cup {g},
         g.msg_type = "ACK_VOTE", g.term = 1, g.src = n
  PROVE  VotesOK(R, led)'
<1>1. /\ current_state'[n] = "FOLLOWER" /\ current_term'[n] = 1
      /\ \A p \in Node \ {n} : /\ current_state'[p] = current_state[p]
                               /\ current_term'[p] = current_term[p]
  BY DEF Calm, IndInv, StateTypeOK, ElectionTypeOK
<1>2. VoterOK(R, led, n, current_state[n], current_term[n], gathered_votes[n])
  BY DEF VotesOK
<1>3. /\ n # led /\ \A c \in Node : n \notin R[c]
      /\ VoterOK(R, led, n, current_state'[n], current_term'[n], gathered_votes'[n])
  BY <1>1, <1>2 DEF VoterOK
<1>4. \A p \in Node : /\ VoterOK(R, led, p, current_state[p], current_term[p],
                                 gathered_votes[p])'
                      /\ Spent(p) => Spent(p)'
  BY <1>1, <1>3 DEF VotesOK, VoterOK, Spent
<1>5. ~ Spent(n) /\ Spent(n)'
  BY <1>1 DEF Spent
<1>6. \A m \in msgs' : m.msg_type = "ACK_VOTE" => m.term \in {0, 1}
  BY DEF VotesOK
<1>7. ASSUME NEW m \in msgs', IsGrant(m) PROVE GrantOK(R, led, m)'
  <2>1. \A r \in msgs : IsGrant(r) => r.src \in Node /\ r.src # n /\ GrantOK(R, led, r)
    BY <1>5, MessageType DEF VotesOK, GrantOK, Calm, IndInv, StateTypeOK
  <2>2. CASE m \in msgs
    BY <1>4, <1>7, <2>1, <2>2 DEF GrantOK, IsGrant
  <2>3. CASE m = g /\ m \notin msgs
    BY <1>3, <1>5, <2>1, <2>3 DEF GrantOK, IsGrant
  <2> QED
    BY <2>2, <2>3
<1>8. \A m \in msgs' : IsGrant(m)' => GrantOK(R, led, m)'
  BY <1>7 DEF IsGrant
<1>9. /\ \A c, d \in Node : c # d => R[c] \cap R[d] = {}
      /\ led # NoNode => 2 * (1 + Cardinality(R[led])) > Cardinality(Node)
  BY DEF VotesOK
<1> QED
  BY <1>4, <1>6, <1>8, <1>9 DEF VotesOK

\* A vote is received by a candidate, which counts it and may be elected by it.
LEMMA VoteReceived ==
  ASSUME Calm, NEW R \in [Node -> SUBSET Node], NEW led \in Node \cup {NoNode},
         VotesOK(R, led), NEW n \in Node, current_state[n] = "CANDIDATE",
         NEW m \in msgs, m.msg_type = "ACK_VOTE", m \notin msgs',
         \A r \in msgs' \ msgs : r.msg_type # "ACK_VOTE",
         NEW votes, votes = gathered_votes[n] + (IF m.vote_granted THEN 1 ELSE 0),
         gathered_votes' = [gathered_votes EXCEPT ![n] = votes],
         UNCHANGED current_term,
         NEW state, current_state' = [current_state EXCEPT ![n] = state],
         NEW won \in BOOLEAN, state = IF won THEN "LEADER" ELSE "CANDIDATE",
         won => 2 * votes > Cardinality(Node)
  PROVE  \E R2 \in [Node -> SUBSET Node] :
           IF won THEN led = NoNode /\ VotesOK(R2, n)' ELSE VotesOK(R2, led)'
<1> DEFINE Q == IF m.vote_granted THEN R[n] \cup {m.src} ELSE R[n]
           R2 == [R EXCEPT ![n] = Q]
           led2 == IF won THEN n ELSE led
<1>1. m.src \in Node /\ m.dst \in Node /\ m.vote_granted \in BOOLEAN
  BY MessageType DEF Calm, IndInv, StateTypeOK, AckVote
<1>2. R2 \in [Node -> SUBSET Node]
  BY <1>1
<1>3. /\ R2[n] = Q /\ \A c \in Node \ {n} : R2[c] = R[c]
      /\ \A c \in Node : R[c] \subseteq R2[c]
  OBVIOUS
<1>4. m.vote_granted => /\ Spent(m.src) /\ m.src # led
                        /\ \A c \in Node : m.src \notin R[c]
                        /\ \A r \in msgs : IsGrant(r) /\ r.src = m.src => r = m
  BY DEF VotesOK, GrantOK, IsGrant
<1>5. VoterOK(R, led, n, current_state[n], current_term[n], gathered_votes[n])
  BY DEF VotesOK
<1>6. n \notin Q /\ led \notin Q /\ \A c \in Node \ {n} : R[c] \cap Q = {}
  <2>1. \A c \in Node : n \notin R[c] /\ led \notin R[c]
    <3>1. led \in Node =>
            VoterOK(R, led, led, current_state[led], current_term[led], gathered_votes[led])
      BY DEF VotesOK
    <3> QED
      BY <1>5, <3>1 DEF VoterOK, Calm, ConstantsAssumption
  <2>2. m.vote_granted => m.src # n
    BY <1>4 DEF Spent
  <2> QED
    BY <1>4, <2>1, <2>2 DEF VotesOK
<1>7. votes \in Int /\ Cardinality(Q) \in Nat /\ votes <= 1 + Cardinality(Q)
  <2>1. gathered_votes[n] \in Int
    BY DEF Calm, IndInv, StateTypeOK, ElectionTypeOK
  <2>2. IsFiniteSet(R[n]) /\ Cardinality(R[n]) \in Nat
    BY VotesType DEF Calm
  <2>3. Cardinality(Q) = Cardinality(R[n]) + (IF m.vote_granted THEN 1 ELSE 0)
    <3>1. m.src \notin R[n] => Cardinality(R[n] \cup {m.src}) = Cardinality(R[n]) + 1
      BY <2>2, FS_AddElement
    <3> QED
      BY <1>1, <1>4, <2>2, <3>1
  <2> HIDE DEF Q
  <2> QED
    BY <1>1, <1>5, <2>1, <2>2, <2>3 DEF VoterOK
<1> HIDE DEF Q
<1>8. won => led = NoNode /\ 2 * (1 + Cardinality(Q)) > Cardinality(Node)
  <2> SUFFICES ASSUME won PROVE led = NoNode /\ 2 * (1 + Cardinality(Q)) > Cardinality(Node)
    OBVIOUS
  <2>1. Cardinality(Node) \in Nat
    BY VotesType DEF Calm
  <2>2. 2 * (1 + Cardinality(Q)) > Cardinality(Node)
    BY <1>7, <2>1
  <2>3. Q \in SUBSET Node
    BY <1>2, <1>3
  <2> QED
    BY <1>6, <2>2, <2>3, NobodyElected DEF Calm
<1>9. /\ current_state'[n] = state /\ gathered_votes'[n] = votes
      /\ \A p \in Node \ {n} : /\ current_state'[p] = current_state[p]
                               /\ gathered_votes'[p] = gathered_votes[p]
      /\ current_term' = current_term
  BY DEF Calm, IndInv, StateTypeOK, ElectionTypeOK
<1> HIDE DEF R2
<1>10. VoterOK(R2, led2, n, current_state'[n], current_term'[n], gathered_votes'[n])
  BY <1>3, <1>5, <1>6, <1>7, <1>9 DEF VoterOK
<1>11. ASSUME NEW p \in Node \ {n}
       PROVE  VoterOK(R2, led2, p, current_state'[p], current_term'[p], gathered_votes'[p])
  <2>1. VoterOK(R, led, p, current_state[p], current_term[p], gathered_votes[p])
    BY DEF VotesOK
  <2>2. (\E c \in Node : p \in R2[c]) => (\E c \in Node : p \in R[c]) \/ p \in Q
    BY <1>3
  <2>3. p \in Q => p \in R[n] \/ (Spent(p) /\ p # led)
    BY <1>4 DEF Q
  <2>4. led = p => ~ won /\ \A c \in Node : p \notin R2[c]
    BY <1>3, <1>6, <1>8, <2>1 DEF VoterOK, Calm, ConstantsAssumption
  <2>5. current_state[p] = "LEADER" => ~ won
    BY <1>8, <2>1 DEF VoterOK, Calm, ConstantsAssumption
  <2> QED
    BY <1>3, <1>9, <2>1, <2>2, <2>3, <2>4, <2>5 DEF VoterOK, Spent
<1>12. \A r \in msgs' : r.msg_type = "ACK_VOTE" => r.term \in {0, 1} /\ r \in msgs /\ r # m
  BY DEF VotesOK
<1>13. ASSUME NEW r \in msgs', IsGrant(r) PROVE GrantOK(R2, led2, r)'
  <2>1. r \in msgs /\ r # m /\ GrantOK(R, led, r) /\ r.src \in Node
    BY <1>12, <1>13, MessageType DEF VotesOK, IsGrant, Calm, IndInv, StateTypeOK
  <2>2. r.src # n
    BY <2>1 DEF GrantOK, Spent
  <2>3. Spent(r.src)'
    BY <1>9, <2>1, <2>2 DEF GrantOK, Spent
  <2>4. r.src # led2
    BY <2>1, <2>2 DEF GrantOK
  <2>5. r.src \notin Q
    BY <1>4, <1>13, <2>1 DEF GrantOK, Q
  <2>6. \A c \in Node : r.src \notin R2[c]
    BY <1>3, <2>1, <2>5 DEF GrantOK
  <2>7. \A s \in msgs' : IsGrant(s) => s \in msgs
    BY <1>12 DEF IsGrant
  <2> QED
    BY <2>1, <2>3, <2>4, <2>6, <2>7 DEF GrantOK, IsGrant
<1>14. \A c, d \in Node : c # d => R2[c] \cap R2[d] = {}
  BY <1>3, <1>6 DEF VotesOK
<1>15. led2 # NoNode => 2 * (1 + Cardinality(R2[led2])) > Cardinality(Node)
  <2>1. CASE won
    BY <1>3, <1>8, <2>1
  <2>2. CASE ~ won /\ led # NoNode
    <3>1. led # n /\ 2 * (1 + Cardinality(R[led])) > Cardinality(Node)
      BY <1>5, <2>2 DEF VotesOK, VoterOK
    <3> QED
      BY <1>3, <2>2, <3>1
  <2> QED
    BY <2>1, <2>2
<1>16. VotesOK(R2, led2)'
  <2>1. \A p \in Node :
          VoterOK(R2, led2, p, current_state[p], current_term[p], gathered_votes[p])'
    BY <1>10, <1>11 DEF VoterOK
  <2>2. \A r \in msgs' : IsGrant(r)' => GrantOK(R2, led2, r)'
    BY <1>13 DEF IsGrant
  <2> QED
    BY <1>12, <1>14, <1>15, <2>1, <2>2 DEF VotesOK
<1> QED
  BY <1>2, <1>8, <1>16

LEMMA RequestVoteCalm ==
  ASSUME Calm, FirstTerm', IndInv', LogStep, DeliveryStep,
         NEW R \in [Node -> SUBSET Node], NEW led \in Node \cup {NoNode},
         VotesOK(R, led), LogsOK(led),
         NEW n \in Node, NEW m \in msgs, m.term \in Int, ProcessRequestVote(n, m)
  PROVE  CalmStep
<1>1. UNCHANGED <<log, commit_index, scheduled, groupVars, gathered_votes>>
  BY DEF ProcessRequestVote, logVars, inputVars, electionVars
<1>2. PICK term, granted : /\ Reply(m, VoteAnswer(n, m, term, granted))
                           /\ \/ ~ granted /\ term = current_term[n] /\ UNCHANGED electionVars
                              \/ /\ m.term > current_term[n] /\ term = m.term
                                 /\ current_term' = [current_term EXCEPT ![n] = m.term]
                                 /\ current_state' = [current_state EXCEPT ![n] = "FOLLOWER"]
  BY DEF ProcessRequestVote, TermIsNew, StateAfterNewTerm
<1> DEFINE g == VoteAnswer(n, m, term, granted)
<1>3. /\ g.msg_type = "ACK_VOTE" /\ g.src = n /\ g.term = term /\ g.vote_granted = granted
      /\ msgs' \subseteq msgs \cup {g}
  BY <1>2, NewPackets DEF VoteAnswer
<1> HIDE DEF g
<1>4. LogsOK(led)'
  BY <1>1, <1>3, SameLogsStay DEF AppendOK
<1>5. current_term[n] \in {0, 1}
  BY DEF VotesOK, VoterOK
<1>6. CASE ~ granted /\ term = current_term[n] /\ UNCHANGED electionVars
  <2>1. VotesOK(R, led)'
    BY <1>3, <1>5, <1>6, VotesStay DEF electionVars, Calm
  <2> QED
    BY <1>1, <1>3, <1>4, <2>1, CalmStepOf
<1>7. CASE /\ m.term > current_term[n] /\ term = m.term
           /\ current_term' = [current_term EXCEPT ![n] = m.term]
           /\ current_state' = [current_state EXCEPT ![n] = "FOLLOWER"]
  <2>1. current_term'[n] = m.term /\ current_term'[n] <= 1
    BY <1>7 DEF Calm, IndInv, StateTypeOK, ElectionTypeOK, FirstTerm
  <2>2. current_term[n] = 0 /\ m.term = 1
    BY <1>5, <1>7, <2>1
  <2>3. VotesOK(R, led)'
    BY <1>1, <1>3, <1>7, <2>2, VoteGiven
  <2> QED
    BY <1>1, <1>3, <1>4, <2>3, CalmStepOf
<1> QED
  BY <1>2, <1>6, <1>7

\* Nobody is ahead of the node that was elected.
LEMMA NobodyIsAhead ==
  ASSUME Calm, NEW led \in Node, LogsOK(led), NEW m \in msgs,
         m.msg_type \in {"ACK_VOTE", "ACK_ENTRY"}, AheadOf(led, m)
  PROVE  m.term > current_term[led]
<1>1. m.src \in Node /\ m.commit_index \in Int
  BY MessageType DEF Calm, IndInv, StateTypeOK, AckVote, AckEntry
<1>2. m.commit_index <= commit_index[m.src] /\ commit_index[m.src] <= commit_index[led]
  BY <1>1 DEF Calm, NoClaimBeyondCommit, LogsOK, LedCommit
<1>3. commit_index[m.src] \in Int /\ commit_index[led] \in Int
  BY <1>1, AtNode DEF Calm
<1> QED
  BY <1>1, <1>2, <1>3 DEF AheadOf

\* The first node that is elected finds all the logs empty.
LEMMA ElectedLogs ==
  ASSUME Calm, LogsOK(NoNode), NEW n \in Node
  PROVE  LogsOK(n)
<1>1. \A p \in Node : log[p] = <<>> /\ commit_index[p] = -1
  <2> TAKE p \in Node
  <2>1. Follows(log[p], <<>>) /\ commit_index[p] <= -1
    BY DEF LogsOK, LedLog, LedCommit, Calm, ConstantsAssumption
  <2>2. log[p] \in Seq(LogEntry) /\ Len(log[p]) \in Nat
    BY LenProperties DEF Calm, IndInv, StateTypeOK, LogTypeOK
  <2>3. Len(log[p]) = 0
    BY <2>1, <2>2 DEF Follows, LogHas
  <2>4. log[p] = <<>>
    BY <2>2, <2>3, EmptySeq
  <2>5. commit_index[p] \in Int /\ commit_index[p] >= -1
    BY AtNode DEF Calm
  <2> QED
    BY <2>1, <2>4, <2>5
<1>2. \A m \in msgs : m.msg_type # "APPEND_ENTRY"
  BY MessageType DEF LogsOK, AppendOK, Calm, IndInv, StateTypeOK, ConstantsAssumption
<1>3. \A p \in Node : scheduled[p] = {}
  BY DEF LogsOK, Calm, ConstantsAssumption
<1>4. LedLog(n) = <<>> /\ LedCommit(n) = -1
  BY <1>1 DEF LedLog, LedCommit
<1> QED
  BY <1>1, <1>2, <1>3, <1>4, FollowsItself DEF LogsOK, AppendOK

LEMMA VoteResponseCalm ==
  ASSUME Calm, FirstTerm', IndInv', LogStep, DeliveryStep,
         NEW R \in [Node -> SUBSET Node], NEW led \in Node \cup {NoNode},
         VotesOK(R, led), LogsOK(led),
         NEW n \in Node, NEW m \in msgs, ProcessVoteResponse(n, m)
  PROVE  CalmStep
<1> DEFINE votes == gathered_votes[n] + (IF m.vote_granted THEN 1 ELSE 0)
           elected == votes > Cardinality(current_group[n]) \div 2
           round == HeartbeatRound(n, current_term[n], current_group[n],
                                   FirstNext(n), FirstMatch)
<1>1. m.msg_type = "ACK_VOTE" /\ UNCHANGED scheduled /\ m.term \in {0, 1}
  BY DEF ProcessVoteResponse, inputVars, VotesOK
<1>2. VoterOK(R, led, n, current_state[n], current_term[n], gathered_votes[n])
  BY DEF VotesOK
<1>3. CASE Receive(m) /\ UNCHANGED <<electionVars, logVars, leaderVars, groupVars>>
  <2>1. UNCHANGED <<log, commit_index, groupVars, current_state, current_term,
                    gathered_votes>> /\ msgs' \subseteq msgs
    BY <1>3, NewPackets DEF logVars, electionVars
  <2>2. VotesOK(R, led)'
    BY <2>1, VotesStay DEF Calm
  <2>3. LogsOK(led)'
    BY <1>1, <2>1, SameLogsStay
  <2> QED
    BY <2>1, <2>2, <2>3, CalmStepOf
<1>4. CASE /\ current_state[n] # "FOLLOWER"
           /\ AheadOf(n, m)
           /\ Receive(m)
           /\ current_term' = [current_term EXCEPT ![n] = m.term]
           /\ current_state' = [current_state EXCEPT ![n] = "FOLLOWER"]
           /\ log' = [log EXCEPT ![n] = RemoveUncommittedEntries(@, commit_index[n])]
           /\ UNCHANGED <<gathered_votes, commit_index, groupVars>>
  <2>1. msgs' \subseteq msgs
    BY <1>4, NewPackets
  <2>2. n # led
    BY <1>1, <1>2, <1>4, NobodyIsAhead DEF VoterOK
  <2>3. /\ current_state'[n] = "FOLLOWER" /\ current_term'[n] = m.term
        /\ \A p \in Node \ {n} : /\ current_state'[p] = current_state[p]
                                 /\ current_term'[p] = current_term[p]
    BY <1>4 DEF Calm, IndInv, StateTypeOK, ElectionTypeOK
  <2>4. VoterOK(R, led, n, current_state'[n], current_term'[n], gathered_votes'[n])
    BY <1>1, <1>2, <1>4, <2>2, <2>3 DEF VoterOK
  <2>5. ~ Spent(n)
    BY <1>4 DEF Spent
  <2>6. VotesOK(R, led)'
    BY <1>4, <2>1, <2>3, <2>4, <2>5, VotesStay DEF Calm
  <2> DEFINE l == RemoveUncommittedEntries(log[n], commit_index[n])
  <2>7. Follows(l, LedLog(led)) /\ commit_index[n] <= LedCommit(led)
    <3>1. Follows(l, log[n])
      BY AtNode, RemoveUncommittedPlaces DEF Calm
    <3>2. Follows(log[n], LedLog(led)) /\ commit_index[n] <= LedCommit(led)
      BY DEF LogsOK
    <3> QED
      BY <3>1, <3>2, FollowsTransitive
  <2>8. /\ log' = [log EXCEPT ![n] = l]
        /\ commit_index' = [commit_index EXCEPT ![n] = commit_index[n]]
    BY <1>4 DEF Calm, IndInv, StateTypeOK, LogTypeOK
  <2> HIDE DEF l
  <2>9. LogsOK(led)'
    BY <1>1, <2>1, <2>2, <2>7, <2>8, FollowerLogStays DEF Calm
  <2> QED
    BY <1>4, <2>1, <2>6, <2>9, CalmStepOf
<1>5. ASSUME NEW won \in BOOLEAN, NEW state, state = IF won THEN "LEADER" ELSE "CANDIDATE",
             current_state[n] = "CANDIDATE",
             current_state' = [current_state EXCEPT ![n] = state],
             gathered_votes' = [gathered_votes EXCEPT ![n] = votes],
             UNCHANGED <<current_term, log, commit_index, groupVars>>,
             won => elected, m \notin msgs',
             \A r \in msgs' \ msgs : won /\ r.msg_type = "APPEND_ENTRY" /\ AppendOK(n, log[n], r)
      PROVE  CalmStep
  <2>1. won => 2 * votes > Cardinality(Node)
    <3>1. votes \in Int /\ Cardinality(Node) \in Nat
      BY VotesType DEF Calm, IndInv, StateTypeOK, ElectionTypeOK
    <3>2. won => votes > Cardinality(Node) \div 2
      BY <1>5, CalmIsQuiet
    <3> HIDE DEF votes
    <3> QED
      BY <3>1, <3>2
  <2>2. \A r \in msgs' \ msgs : r.msg_type # "ACK_VOTE" /\ r.msg_type # "APPEND_ENTRY_CONF"
    BY <1>5
  <2>3. PICK R2 \in [Node -> SUBSET Node] :
          IF won THEN led = NoNode /\ VotesOK(R2, n)' ELSE VotesOK(R2, led)'
    BY <1>1, <1>5, <2>1, <2>2, VoteReceived
  <2>4. CASE won
    <3>1. LogsOK(n)
      BY <2>3, <2>4, ElectedLogs
    <3>2. LogsOK(n)'
      BY <1>1, <1>5, <3>1, SameLogsStay DEF LedLog
    <3> QED
      BY <1>5, <2>2, <2>3, <2>4, <3>2, CalmStepOf
  <2>5. CASE ~ won
    <3>1. LogsOK(led)'
      BY <1>1, <1>5, <2>5, SameLogsStay
    <3> QED
      BY <1>5, <2>2, <2>3, <2>5, <3>1, CalmStepOf
  <2> QED
    BY <2>4, <2>5
<1>6. CASE /\ current_state[n] = "CANDIDATE"
           /\ gathered_votes' = [gathered_votes EXCEPT ![n] = votes]
           /\ UNCHANGED current_term
           /\ Receive(m)
           /\ UNCHANGED <<current_state, logVars, groupVars>>
  <2>1. current_state' = [current_state EXCEPT ![n] = "CANDIDATE"]
    BY <1>6 DEF Calm, IndInv, StateTypeOK, ElectionTypeOK
  <2>2. UNCHANGED <<current_term, log, commit_index, groupVars>>
    BY <1>6 DEF logVars
  <2>3. m \notin msgs' /\ msgs' \subseteq msgs
    BY <1>6 DEF Receive
  <2> HIDE DEF votes
  <2> QED
    BY <1>5, <1>6, <2>1, <2>2, <2>3
<1>7. CASE /\ current_state[n] = "CANDIDATE"
           /\ gathered_votes' = [gathered_votes EXCEPT ![n] = votes]
           /\ UNCHANGED current_term
           /\ elected
           /\ Heartbeats(n, round)
           /\ ReceiveAndSend(m, round.packets)
  <2>1. /\ UNCHANGED <<log, commit_index, groupVars>>
        /\ current_state' = [current_state EXCEPT ![n] = "LEADER"]
    BY <1>7, CalmHeartbeats
  <2>2. \A r \in round.packets : r.msg_type = "APPEND_ENTRY" /\ AppendOK(n, log[n], r)
    BY CalmAppends
  <2>3. msgs' \subseteq (msgs \ {m}) \cup round.packets
    BY <1>7, NewPackets DEF ReceiveAndSend
  <2> HIDE DEF votes, elected, round
  <2>4. m \notin msgs'
    BY <1>1, <2>2, <2>3
  <2> QED
    BY <1>5, <1>7, <2>1, <2>2, <2>3, <2>4
<1> QED
  BY <1>3, <1>4, <1>6, <1>7 DEF ProcessVoteResponse

\* Without groups an append leaves the log alone before it puts its entry.
LEMMA CalmPrepared ==
  ASSUME Calm, NEW n \in Node, NEW m, NEW term
  PROVE  Trimmed(n, m) = log[n] /\ Prepared(n, m, term) = log[n]
<1>1. DOMAIN groups[n] = {}
  BY CalmIsQuiet
<1>2. Trimmed(n, m) = log[n]
  BY <1>1 DEF Trimmed, Discontinuity, IsConf
<1> QED
  BY <1>1, <1>2 DEF Prepared, Padded, IsConf

LEMMA AcceptCalm ==
  ASSUME Calm, IndInv', LogStep, NEW led \in Node \cup {NoNode}, LogsOK(led),
         NEW n \in Node, n # led, NEW m \in AppendEntry, m \in msgs,
         m.msg_type = "APPEND_ENTRY", NEW term \in Int, NEW state,
         AcceptEntries(n, m, term, state), UNCHANGED scheduled,
         \A r \in msgs' \ msgs : r.msg_type = "ACK_ENTRY"
  PROVE  LogsOK(led)' /\ Quiet' /\ CommitDelivers
<1> DEFINE isNew == m.prev_log_index = LastLogIndex(log[n])
           e == Entry(TermOfEntry(m, isNew, term), m.hash)
           l == IF m.hash = NoHash THEN log[n] ELSE PutAfter(log[n], m.prev_log_index, e)
           pool == IF CarriesBlock(m) THEN blockpool[n] \cup {m.hash} ELSE blockpool[n]
           c == IF ~ (m.leader_commit > commit_index[n]) THEN commit_index[n]
                ELSE IF m.leader_commit < LastLogIndex(l) THEN m.leader_commit
                ELSE LastLogIndex(l)
<1>1. /\ Prepared(n, m, term) = log[n] /\ ~ CarriesConf(m) /\ pending_groups[n] = <<>>
      /\ m.prev_log_index \in Int /\ m.leader_commit \in Int /\ m.entry_term \in Int
      /\ m.hash \in Hash /\ m.src \in Node
  BY CalmPrepared, CalmIsQuiet DEF CarriesConf, AppendEntry, AppendOf, Hash
<1>2. /\ ~ ModifiesCommitted(m, commit_index[n])
      /\ m.hash # NoHash => ~ LeavesGap(log[n], m.prev_log_index)
      /\ log' = [log EXCEPT ![n] = l]
      /\ commit_index' = [commit_index EXCEPT ![n] = c]
      /\ blockpool' = [blockpool EXCEPT ![n] = pool]
      /\ delivered' = [delivered EXCEPT ![n] = @ \o BlocksBetween(l, commit_index[n], c, pool)]
  BY <1>1 DEF AcceptEntries
<1>3. Quiet'
  <2>1. /\ groups' = [groups EXCEPT ![n] = groups[n]]
        /\ current_group' = [current_group EXCEPT ![n] = current_group[n]]
        /\ pending_groups' = [pending_groups EXCEPT ![n] = pending_groups[n]]
    BY <1>1 DEF AcceptEntries
  <2>2. /\ DOMAIN groups = Node /\ current_group' = current_group
        /\ pending_groups' = pending_groups
    BY <2>1 DEF Calm, IndInv, StateTypeOK, GroupTypeOK
  <2>3. \A p \in Node : groups'[p] = groups[p]
    BY <2>1, <2>2
  <2>4. \A r \in msgs' : r.msg_type # "APPEND_ENTRY_CONF"
    BY DEF Calm, Quiet
  <2> QED
    BY <2>2, <2>3, <2>4 DEF Calm, Quiet
<1>4. /\ log[n] \in Seq(EntriesOver(Hash)) /\ commit_index[n] \in Int
      /\ commit_index[n] >= -1 /\ LastLogIndex(log[n]) \in Int
      /\ Follows(log[n], LedLog(led)) /\ commit_index[n] <= LedCommit(led)
  BY AtNode DEF LogsOK, Calm
<1>5. m.src = led /\ led \in Node
      /\ (m.hash # NoHash => LogHas(LedLog(led), m.hash, m.prev_log_index + 2))
  BY <1>1 DEF LogsOK, AppendOK
<1> HIDE DEF isNew
<1>6. Follows(l, LedLog(led))
  <2>1. CASE m.hash = NoHash
    BY <1>4, <2>1
  <2>2. CASE m.hash # NoHash
    <3>1. m.prev_log_index \in -1 .. LastLogIndex(log[n])
      BY <1>1, <1>2, <1>4, <2>2 DEF ModifiesCommitted, LeavesGap
    <3>2. e \in EntriesOver(Hash) /\ e.hash = m.hash
      BY <1>1 DEF Entry, EntriesOver, TermOfEntry, Calm, IndInv, StateTypeOK
    <3> HIDE DEF e
    <3>3. Follows(PutAfter(log[n], m.prev_log_index, e), LedLog(led))
      BY <1>4, <1>5, <2>2, <3>1, <3>2, PutAfterFollows
    <3> QED
      BY <2>2, <3>3
  <2> QED
    BY <2>1, <2>2
<1> HIDE DEF l
<1>7. c <= LedCommit(led)
  <2>1. m.leader_commit <= commit_index[led] /\ LedCommit(led) = commit_index[led]
    BY <1>5 DEF Calm, NoClaimBeyondCommit, LedCommit
  <2>2. commit_index'[n] = c /\ commit_index'[n] \in Int /\ commit_index[led] \in Int
    BY <1>2, <1>5 DEF Calm, IndInv, StateTypeOK, LogTypeOK
  <2>3. LastLogIndex(l) \in Int
    <3>1. log'[n] = l
      BY <1>2 DEF Calm, IndInv, StateTypeOK, LogTypeOK
    <3>2. log'[n] \in Seq(LogEntry)
      BY DEF IndInv, StateTypeOK, LogTypeOK
    <3> QED
      BY <3>1, <3>2, LenProperties DEF LastLogIndex
  <2> QED
    BY <1>1, <1>4, <2>1, <2>2, <2>3
<1> HIDE DEF c, pool
<1>8. LogsOK(led)'
  BY <1>2, <1>6, <1>7, FollowerLogStays DEF Calm
<1>9. CommitDelivers
  <2>1. log'[n] = l /\ commit_index'[n] = c /\ blockpool'[n] = pool
    BY <1>2 DEF Calm, IndInv, StateTypeOK, LogTypeOK
  <2>2. delivered'[n] = delivered[n] \o JustCommitted(n)
    BY <1>2, <2>1 DEF JustCommitted, Calm, TypeOK
  <2>3. ASSUME NEW p \in Node \ {n} PROVE delivered'[p] = delivered[p] \o JustCommitted(p)
    <3>1. delivered'[p] = delivered[p] /\ commit_index'[p] = commit_index[p]
      BY <1>2 DEF Calm, TypeOK, IndInv, StateTypeOK, LogTypeOK
    <3>2. JustCommitted(p) \in Seq(Hash) /\ Len(JustCommitted(p)) = 0
      BY <3>1, AtNode, NewlyCommitted DEF Calm
    <3>3. JustCommitted(p) = <<>>
      BY <3>2, EmptySeq
    <3> QED
      BY <3>1, <3>3, ConcatEmptySeq DEF Calm, TypeOK
  <2> QED
    BY <2>2, <2>3 DEF CommitDelivers
<1> QED
  BY <1>3, <1>8, <1>9

LEMMA AppendEntriesCalm ==
  ASSUME Calm, FirstTerm', IndInv', LogStep, DeliveryStep,
         NEW R \in [Node -> SUBSET Node], NEW led \in Node \cup {NoNode},
         VotesOK(R, led), LogsOK(led),
         NEW n \in Node, NEW m \in msgs, n = m.dst, m \in AppendEntry, m.term \in Int,
         ProcessAppendEntries(n, m)
  PROVE  CalmStep
<1> DEFINE adopts == AdoptsLeader(n, m)
           term == IF adopts THEN m.term ELSE current_term[n]
           state == IF adopts THEN "FOLLOWER" ELSE current_state[n]
<1>1. /\ current_term' = [current_term EXCEPT ![n] = term]
      /\ current_state' = [current_state EXCEPT ![n] = state]
      /\ RejectEntries(n, m, term) \/ AcceptEntries(n, m, term, state)
      /\ UNCHANGED <<gathered_votes, scheduled>>
  BY DEF ProcessAppendEntries, inputVars
<1>2. m.msg_type = "APPEND_ENTRY"
  BY DEF ProcessAppendEntries, Calm, Quiet
<1>3. n # led
  BY <1>2 DEF LogsOK, AppendOK
<1>4. VoterOK(R, led, n, current_state[n], current_term[n], gathered_votes[n])
  BY DEF VotesOK
<1>5. /\ current_term'[n] = term /\ current_state'[n] = state
      /\ \A p \in Node \ {n} : /\ current_state'[p] = current_state[p]
                               /\ current_term'[p] = current_term[p]
      /\ term <= 1 /\ term \in Int
  BY <1>1 DEF FirstTerm, Calm, IndInv, StateTypeOK, ElectionTypeOK
<1>6. /\ VoterOK(R, led, n, current_state'[n], current_term'[n], gathered_votes'[n])
      /\ Spent(n) => Spent(n)'
  <2>1. CASE adopts
    <3>1. m.term > current_term[n] /\ term = m.term /\ state = "FOLLOWER"
      BY <2>1 DEF AdoptsLeader
    <3>2. term = 1 /\ current_term[n] = 0
      BY <1>4, <1>5, <3>1 DEF VoterOK
    <3> QED
      BY <1>1, <1>3, <1>4, <1>5, <3>1, <3>2 DEF VoterOK, Spent
  <2>2. CASE ~ adopts
    BY <1>1, <1>4, <1>5, <2>2 DEF VoterOK, Spent
  <2> QED
    BY <2>1, <2>2
<1> HIDE DEF term, state
<1>7. \A r \in msgs' \ msgs : r.msg_type = "ACK_ENTRY"
  <2>1. PICK commit, last, success : Reply(m, EntryAnswer(n, m, commit, last, success))
    <3>1. CASE RejectEntries(n, m, term)
      BY <3>1 DEF RejectEntries
    <3>2. CASE AcceptEntries(n, m, term, state)
      BY <3>2 DEF AcceptEntries
    <3> QED
      BY <1>1, <3>1, <3>2
  <2> QED
    BY <2>1, NewPackets DEF EntryAnswer
<1>8. VotesOK(R, led)'
  BY <1>1, <1>5, <1>6, <1>7, VotesStay DEF Calm
<1>9. CASE RejectEntries(n, m, term)
  <2>1. PICK l \in {log[n], Trimmed(n, m), Prepared(n, m, term)} :
          log' = [log EXCEPT ![n] = l]
    BY <1>9 DEF RejectEntries
  <2>2. l = log[n]
    BY <2>1, CalmPrepared
  <2>3. UNCHANGED <<log, commit_index, groupVars>>
    BY <1>9, <2>1, <2>2 DEF RejectEntries, Calm, IndInv, StateTypeOK, LogTypeOK
  <2>4. LogsOK(led)'
    BY <1>1, <1>7, <2>3, SameLogsStay DEF AppendOK
  <2> QED
    BY <1>7, <1>8, <2>3, <2>4, CalmStepOf
<1>10. CASE AcceptEntries(n, m, term, state)
  <2>1. LogsOK(led)' /\ Quiet' /\ CommitDelivers
    BY <1>1, <1>2, <1>3, <1>5, <1>7, <1>10, AcceptCalm
  <2> QED
    BY <1>8, <2>1 DEF CalmStep, OneLeader
<1> QED
  BY <1>1, <1>9, <1>10

LEMMA EntriesAckCalm ==
  ASSUME Calm, FirstTerm', IndInv', LogStep, DeliveryStep,
         NEW R \in [Node -> SUBSET Node], NEW led \in Node \cup {NoNode},
         VotesOK(R, led), LogsOK(led),
         NEW n \in Node, NEW m \in msgs, m.term \in Int, ProcessEntriesAck(n, m)
  PROVE  CalmStep
<1>1. /\ m.msg_type = "ACK_ENTRY" /\ msgs' \subseteq msgs
      /\ UNCHANGED <<gathered_votes, groupVars, scheduled>>
  BY NewPackets DEF ProcessEntriesAck, inputVars
<1>2. ASSUME UNCHANGED <<current_state, current_term>> PROVE VotesOK(R, led)'
  BY <1>1, <1>2, VotesStay DEF Calm
<1>3. CASE UNCHANGED <<current_state, current_term, logVars>>
  <2>1. LogsOK(led)'
    BY <1>1, <1>3, SameLogsStay DEF logVars
  <2> QED
    BY <1>1, <1>2, <1>3, <2>1, CalmStepOf DEF logVars
<1>4. CASE current_state[n] = "LEADER" /\ StepDown(n, m)
  <2>1. n = led
    BY <1>4 DEF VotesOK, VoterOK
  <2>2. m.term > current_term[n] /\ current_term[n] = 1
    BY <1>1, <1>4, <2>1, NobodyIsAhead DEF StepDown, VotesOK, VoterOK
  <2>3. current_term'[n] = m.term
    BY <1>4 DEF StepDown, Calm, IndInv, StateTypeOK, ElectionTypeOK
  <2> QED
    BY <2>2, <2>3 DEF FirstTerm
<1>5. CASE current_state[n] = "LEADER" /\ RecordAck(n, m)
  <2>1. n = led
    BY <1>5 DEF VotesOK, VoterOK
  <2>2. /\ UNCHANGED <<current_state, current_term, log, blockpool>>
        /\ \E c : /\ commit_index' = [commit_index EXCEPT ![n] = c]
                  /\ delivered' = [delivered EXCEPT
                       ![n] = @ \o BlocksBetween(log[n], commit_index[n], c, blockpool[n])]
    BY <1>5 DEF RecordAck
  <2>3. \A p \in Node : /\ commit_index[p] \in Int /\ commit_index'[p] \in Int
                        /\ commit_index[p] <= commit_index'[p]
                        /\ p # n => commit_index'[p] = commit_index[p]
    BY <2>2, AtNode DEF LogStep, Calm, IndInv, StateTypeOK, LogTypeOK
  <2>4. LogsOK(led)'
    <3>1. LedLog(led)' = LedLog(led) /\ LedCommit(led) = commit_index[n]
          /\ LedCommit(led)' = commit_index'[n]
      BY <2>1, <2>2 DEF LedLog, LedCommit
    <3>2. \A p \in Node : /\ Follows(log'[p], LedLog(led)')
                          /\ scheduled'[p] # {} => p = led
                          /\ commit_index[p] <= commit_index[n]
      BY <1>1, <2>2, <3>1 DEF LogsOK
    <3>3. \A p \in Node : commit_index'[p] <= LedCommit(led)'
      BY <2>3, <3>1, <3>2
    <3> QED
      BY <1>1, <3>1, <3>2, <3>3, FollowsItself, LogsStay
  <2>5. CommitDelivers
    <3>1. delivered'[n] = delivered[n] \o JustCommitted(n)
      BY <2>2 DEF JustCommitted, Calm, TypeOK, IndInv, StateTypeOK, LogTypeOK
    <3>2. ASSUME NEW p \in Node \ {n} PROVE delivered'[p] = delivered[p] \o JustCommitted(p)
      <4>1. delivered'[p] = delivered[p] /\ commit_index'[p] = commit_index[p]
        BY <2>2, <2>3 DEF Calm, TypeOK
      <4>2. JustCommitted(p) \in Seq(Hash) /\ Len(JustCommitted(p)) = 0
        BY <2>3, <4>1, NewlyCommitted DEF Calm
      <4>3. JustCommitted(p) = <<>>
        BY <4>2, EmptySeq
      <4> QED
        BY <4>1, <4>3, ConcatEmptySeq DEF Calm, TypeOK
    <3> QED
      BY <3>1, <3>2 DEF CommitDelivers
  <2>6. Quiet'
    BY <1>1, QuietStays DEF Calm
  <2> QED
    BY <1>2, <2>2, <2>4, <2>5, <2>6 DEF CalmStep, OneLeader
<1> QED
  BY <1>3, <1>4, <1>5 DEF ProcessEntriesAck

LEMMA PacketCalm ==
  ASSUME Calm, FirstTerm', IndInv', LogStep, DeliveryStep,
         NEW R \in [Node -> SUBSET Node], NEW led \in Node \cup {NoNode},
         VotesOK(R, led), LogsOK(led), NEW m \in msgs, ReceivePacket(m)
  PROVE  CalmStep
<1> DEFINE n == m.dst
<1>1. n \in Node /\ m.term \in Int
  BY MessageType DEF Calm, IndInv, StateTypeOK
<1>2. CASE ProcessAppendEntries(n, m)
  <2>1. m \in AppendEntry
    BY <1>2, MessageType DEF ProcessAppendEntries, Calm, IndInv, StateTypeOK
  <2> QED
    BY <1>1, <1>2, <2>1, AppendEntriesCalm
<1>3. CASE DropForeign(n, m)
  <2>1. UNCHANGED <<log, commit_index, groupVars, current_state, current_term,
                    gathered_votes, scheduled>> /\ msgs' \subseteq msgs
    BY <1>3, NewPackets DEF DropForeign, logVars, electionVars, inputVars
  <2>2. VotesOK(R, led)' /\ LogsOK(led)'
    BY <2>1, VotesStay, SameLogsStay DEF Calm
  <2> QED
    BY <2>1, <2>2, CalmStepOf
<1> QED
  BY <1>1, <1>2, <1>3, RequestVoteCalm, VoteResponseCalm, EntriesAckCalm
     DEF ReceivePacket

LEMMA InsertEntryCalm ==
  ASSUME Calm, IndInv', LogStep, DeliveryStep,
         NEW R \in [Node -> SUBSET Node], NEW led \in Node \cup {NoNode},
         VotesOK(R, led), LogsOK(led), NEW n \in Node, NEW b \in Block, InsertEntry(n, b)
  PROVE  CalmStep
<1> DEFINE e == Entry(-1, b)
           l == Append(log[n], e)
<1>1. /\ b \in scheduled[n] /\ log' = [log EXCEPT ![n] = l]
      /\ scheduled' = [scheduled EXCEPT ![n] = @ \ {b}]
      /\ UNCHANGED <<electionVars, commit_index, groupVars, msgs>>
  BY DEF InsertEntry
<1>2. n = led
  BY <1>1 DEF LogsOK
<1>3. VotesOK(R, led)'
  BY <1>1, VotesStay DEF electionVars, Calm
<1>4. e \in EntriesOver(Hash)
  BY DEF Entry, EntriesOver, Hash
<1>5. Follows(log[n], l)
  BY <1>4, AtNode, AppendPlaces DEF Follows, LogHas, Calm
<1>6. /\ \A p \in Node : log'[p] = IF p = n THEN l ELSE log[p]
      /\ LedLog(led) = log[n] /\ LedLog(led)' = l
      /\ LedCommit(led)' = LedCommit(led)
      /\ \A p \in Node : scheduled'[p] \subseteq scheduled[p]
  BY <1>1, <1>2 DEF LedLog, LedCommit, Calm, IndInv, StateTypeOK, LogTypeOK, InputTypeOK
<1> HIDE DEF l
<1>7. \A p \in Node : /\ Follows(log'[p], LedLog(led)')
                      /\ commit_index'[p] <= LedCommit(led)'
                      /\ scheduled'[p] # {} => p = led
  <2> TAKE p \in Node
  <2>1. Follows(log[p], log[n]) /\ commit_index[p] <= LedCommit(led)
    BY <1>6 DEF LogsOK
  <2>2. Follows(log[p], l) /\ Follows(l, l)
    BY <1>5, <2>1, FollowsTransitive, FollowsItself
  <2> QED
    BY <1>1, <1>6, <2>1, <2>2 DEF LogsOK
<1>8. LogsOK(led)'
  BY <1>1, <1>5, <1>6, <1>7, LogsStay
<1> QED
  BY <1>1, <1>3, <1>8, CalmStepOf

LEMMA StepCalm ==
  ASSUME Calm, FirstTerm', IndInv', LogStep, DeliveryStep,
         NEW R \in [Node -> SUBSET Node], NEW led \in Node \cup {NoNode},
         VotesOK(R, led), LogsOK(led), [Next]_vars
  PROVE  CalmStep
<1>1. ASSUME NEW n \in Node, TriggerElectionTimeout(n) PROVE CalmStep
  BY <1>1, ElectionTimeoutAfterVoteCalm, StandForElectionCalm DEF TriggerElectionTimeout
<1>2. ASSUME NEW n \in Node, NEW group \in Topologies, ChangeGroup(n, group)
      PROVE  CalmStep
  <2>1. changes'[n] = changes[n] + 1 /\ changes[n] \in Nat
    BY <1>2 DEF ChangeGroup, Calm, IndInv, StateTypeOK, InputTypeOK
  <2> QED
    BY <2>1 DEF Calm, FirstTerm
<1>3. ASSUME UNCHANGED <<electionVars, log, commit_index, groupVars, msgs>>,
             \A p \in Node : scheduled'[p] # {} => p = led \/ scheduled[p] # {}
      PROVE  CalmStep
  <2>1. VotesOK(R, led)' /\ LogsOK(led)'
    BY <1>3, VotesStay, SameLogsStay DEF Calm, electionVars
  <2> QED
    BY <1>3, <2>1, CalmStepOf
<1>4. ASSUME NEW n \in Node, NEW b \in Block, GenerateBlock(n, b) PROVE CalmStep
  <2>1. n = led
    BY <1>4 DEF GenerateBlock, VotesOK, VoterOK
  <2>2. \A p \in Node \ {n} : scheduled'[p] = scheduled[p]
    BY <1>4 DEF GenerateBlock, Calm, IndInv, StateTypeOK, InputTypeOK
  <2> QED
    BY <1>3, <1>4, <2>1, <2>2 DEF GenerateBlock, logVars
<1>5. CASE StopApplication \/ UNCHANGED vars
  BY <1>3, <1>5 DEF StopApplication, vars, logVars, inputVars
<1> QED
  BY <1>1, <1>2, <1>4, <1>5, SendHeartbeatsCalm, PacketCalm, InsertEntryCalm
     DEF Next, OtherEvent

LEMMA InitCalm ==
  ASSUME ConstantsAssumption, Init
  PROVE  Quiet /\ OneLeader
<1> DEFINE R == [c \in Node |-> {}]
<1>1. Quiet
  BY DEF Init, Quiet
<1>2. \A p \in Node : Cardinality(R[p]) = 0 /\ \A c \in Node : p \notin R[c]
  BY FS_EmptySet
<1>3. R \in [Node -> SUBSET Node]
  OBVIOUS
<1>4. \A c, d \in Node : c # d => R[c] \cap R[d] = {}
  OBVIOUS
<1> HIDE DEF R
<1>5. VotesOK(R, NoNode)
  BY <1>2, <1>4 DEF Init, VotesOK, VoterOK, ConstantsAssumption
<1>6. \A p \in Node : log[p] = <<>> /\ commit_index[p] = -1 /\ scheduled[p] = {} /\ msgs = {}
  BY DEF Init
<1>7. LedLog(NoNode) = <<>> /\ LedCommit(NoNode) = -1
  BY DEF LedLog, LedCommit, ConstantsAssumption
<1>8. LogsOK(NoNode)
  BY <1>6, <1>7, FollowsItself DEF LogsOK, Init
<1> QED
  BY <1>1, <1>3, <1>5, <1>8 DEF OneLeader

\* Two logs that are copies of beginnings of one log do not disagree.
LEMMA OneLeaderAgrees ==
  ASSUME IndInv, OneLeader
  PROVE  FirstTermAgreement
<1> SUFFICES ASSUME NEW n \in Node, NEW p \in Node, NEW i \in 0 .. commit_index[n],
                    i <= commit_index[p]
             PROVE  GetEntry(log[n], i).hash = GetEntry(log[p], i).hash
  BY DEF FirstTermAgreement
<1>1. PICK led \in Node \cup {NoNode} : LogsOK(led)
  BY DEF OneLeader
<1>2. /\ i \in 0 .. LastLogIndex(log[n]) /\ i \in 0 .. LastLogIndex(log[p])
      /\ i + 1 \in 1 .. Len(log[n]) /\ i + 1 \in 1 .. Len(log[p])
  <2>1. Len(log[n]) \in Nat /\ Len(log[p]) \in Nat
    BY AtNode, LenProperties
  <2> QED
    BY <2>1, AtNode DEF LastLogIndex
<1>3. /\ LogHas(LedLog(led), log[n][i + 1].hash, i + 1)
      /\ LogHas(LedLog(led), log[p][i + 1].hash, i + 1)
  BY <1>1, <1>2 DEF LogsOK, Follows
<1> QED
  BY <1>2, <1>3 DEF GetEntry, LogHas

\* What is committed resolves to the same block before and after a step.
LEMMA StepKeepsDelivered ==
  ASSUME IndInv, IndInv', TypeOK, LogStep, CommitDelivers, Quiet, Quiet',
         EntriesResolvable, EntriesResolvable', DeliveredIsCommitted
  PROVE  DeliveredIsCommitted'
<1> SUFFICES ASSUME NEW n \in Node
             PROVE  delivered'[n] = [i \in 1 .. (commit_index'[n] + 1) |->
                                       BlockOf(log'[n][i], blockpool'[n])]
  BY DEF DeliveredIsCommitted
<1> DEFINE c == commit_index[n]
           d == commit_index'[n]
           all == [i \in 1 .. (d + 1) |-> BlockOf(log'[n][i], blockpool'[n])]
           old == delivered[n]
           new == JustCommitted(n)
<1>1. /\ c \in Int /\ d \in Int /\ -1 <= c /\ c <= d /\ d <= LastLogIndex(log'[n])
      /\ Len(log'[n]) \in Nat /\ blockpool'[n] \subseteq Block
  <2>1. log'[n] \in Seq(LogEntry) /\ blockpool'[n] \subseteq Block /\ d \in Int
    BY DEF IndInv, StateTypeOK, LogTypeOK
  <2>2. Len(log'[n]) \in Nat
    BY <2>1, LenProperties
  <2> QED
    BY <2>1, <2>2, AtNode DEF LogStep, LastLogIndex
<1>2. /\ old \in Seq(Hash) /\ Len(old) = c + 1
      /\ \A i \in 1 .. (c + 1) : old[i] = BlockOf(log[n][i], blockpool[n])
  <2>1. old \in Seq(Hash) /\ old = [i \in 1 .. (c + 1) |-> BlockOf(log[n][i], blockpool[n])]
    BY DEF TypeOK, DeliveredIsCommitted
  <2>2. DOMAIN old = 1 .. (c + 1) /\ c + 1 \in Nat
    BY <1>1, <2>1
  <2>3. Len(old) = c + 1
    BY <2>1, <2>2, LenProperties
  <2> HIDE DEF old
  <2> QED
    BY <2>1, <2>3
<1>3. /\ new \in Seq(Hash) /\ Len(new) = d - c
      /\ \A k \in 1 .. (d - c) : new[k] = BlockOf(log'[n][c + 1 + k], blockpool'[n])
  BY NewlyCommitted
<1>4. \A i \in 1 .. (c + 1) : old[i] = BlockOf(log'[n][i], blockpool'[n])
  <2> TAKE i \in 1 .. (c + 1)
  <2>1. /\ log'[n][i] = log[n][i] /\ i \in 1 .. Len(log[n]) /\ i \in 1 .. Len(log'[n])
    BY CommittedStays
  <2>2. DOMAIN log[n] = 1 .. Len(log[n]) /\ DOMAIN log'[n] = 1 .. Len(log'[n])
    <3>1. log[n] \in Seq(LogEntry) /\ log'[n] \in Seq(LogEntry)
      BY DEF IndInv, StateTypeOK, LogTypeOK
    <3> QED
      BY <3>1, LenProperties
  <2>3. log[n][i].hash \in blockpool[n] \cup {NoHash}
    BY <2>1, <2>2 DEF EntriesResolvable, Quiet
  <2>4. log'[n][i].hash \in blockpool'[n] \cup {NoHash}
    BY <2>1, <2>2 DEF EntriesResolvable, Quiet
  <2> QED
    BY <1>2, <2>1, <2>3, <2>4 DEF BlockOf
<1>5. delivered'[n] = old \o new
  BY DEF CommitDelivers
<1> HIDE DEF old, new, c, d
<1>6. /\ old \o new \in Seq(Hash) /\ Len(old \o new) = d + 1
      /\ \A i \in 1 .. (d + 1) : (old \o new)[i] = BlockOf(log'[n][i], blockpool'[n])
  <2>1. /\ old \o new \in Seq(Hash) /\ Len(old \o new) = Len(old) + Len(new)
        /\ \A i \in 1 .. (Len(old) + Len(new)) :
             (old \o new)[i] = IF i <= Len(old) THEN old[i] ELSE new[i - Len(old)]
    BY <1>2, <1>3, ConcatProperties
  <2>2. ASSUME NEW i \in 1 .. (d + 1)
        PROVE  (old \o new)[i] = BlockOf(log'[n][i], blockpool'[n])
    <3>1. i \in 1 .. (Len(old) + Len(new)) /\ i \in Int
      BY <1>1, <1>2, <1>3
    <3>2. CASE i <= c + 1
      BY <1>1, <1>2, <1>4, <2>1, <3>1, <3>2
    <3>3. CASE ~ (i <= c + 1)
      <4>1. i - (c + 1) \in 1 .. (d - c) /\ c + 1 + (i - (c + 1)) = i
        BY <1>1, <3>1, <3>3
      <4>2. new[i - (c + 1)] = BlockOf(log'[n][i], blockpool'[n])
        BY <1>3, <4>1
      <4> QED
        BY <1>2, <2>1, <3>1, <3>3, <4>2
    <3> QED
      BY <3>2, <3>3
  <2> QED
    BY <1>1, <1>2, <1>3, <2>1, <2>2
<1>7. DOMAIN (old \o new) = 1 .. (d + 1)
  BY <1>6, LenProperties
<1>8. old \o new = [i \in 1 .. (d + 1) |-> (old \o new)[i]]
  <2> DEFINE s == old \o new
  <2>1. s \in Seq(Hash) /\ DOMAIN s = 1 .. (d + 1)
    BY <1>6, <1>7
  <2> HIDE DEF s
  <2>2. s = [i \in DOMAIN s |-> s[i]]
    BY <2>1, LenProperties
  <2> QED
    BY <2>1, <2>2 DEF s
<1> QED
  BY <1>5, <1>6, <1>8 DEF d

\* FirstTermAgreement: while nobody goes beyond the first term and no change of group
\* is reported, two nodes do not hold different entries committed at one position.
\* Every beginning of an execution that stays there is covered: it may stutter on.
THEOREM FirstTermAgrees == Spec /\ []FirstTerm => []FirstTermAgreement
<1>1. CASE Cardinality(Node) = 1
  <2>1. FirstTermAgreement
    BY <1>1, FS_Singleton, ConstantsAssumption DEF FirstTermAgreement, ConstantsAssumption
  <2> QED
    BY <2>1, PTL
<1>2. CASE Cardinality(Node) # 1
  <2>1. Init => Quiet /\ OneLeader
    BY ConstantsAssumption, InitCalm
  <2>2. /\ IndInv /\ IndInv' /\ TypeOK /\ RoleMatchesVote /\ NoClaimBeyondCommit
        /\ FirstTerm /\ FirstTerm' /\ Quiet /\ OneLeader /\ [Next]_vars
        => Quiet' /\ OneLeader'
    BY <1>2, ConstantsAssumption, StepOK, StepDelivers, StepCalm
       DEF Calm, CalmStep, OneLeader
  <2>3. IndInv /\ OneLeader => FirstTermAgreement
    BY OneLeaderAgrees
  <2> QED
    BY <2>1, <2>2, <2>3, Invariance, AllTypesKept, RolesMatchVotes, ClaimsStayTrue, PTL
       DEF Spec
<1> QED
  BY <1>1, <1>2

\* DeliveredIsCommitted: in the first term of a network of several nodes, without
\* changes of group, a node hands over every entry it has committed, once and in
\* order.  A single node commits what it inserts and hands over nothing.
THEOREM CommittedIsDelivered ==
  Cardinality(Node) # 1 => (Spec /\ []FirstTerm => []DeliveredIsCommitted)
<1> SUFFICES ASSUME Cardinality(Node) # 1
             PROVE  Spec /\ []FirstTerm => []DeliveredIsCommitted
  OBVIOUS
<1>1. Init => Quiet /\ OneLeader
  BY ConstantsAssumption, InitCalm
<1>2. Init => DeliveredIsCommitted
  <2> SUFFICES ASSUME Init, NEW n \in Node
               PROVE  delivered[n] = [i \in 1 .. (commit_index[n] + 1) |->
                                        BlockOf(log[n][i], blockpool[n])]
    BY DEF DeliveredIsCommitted
  <2>1. delivered[n] = <<>> /\ commit_index[n] = -1
    BY DEF Init
  <2>2. 1 .. (commit_index[n] + 1) = {}
    BY <2>1
  <2> QED
    BY <2>1, <2>2
<1>3. /\ IndInv /\ IndInv' /\ TypeOK /\ RoleMatchesVote /\ NoClaimBeyondCommit
      /\ FirstTerm /\ FirstTerm' /\ Quiet /\ OneLeader /\ [Next]_vars
      => Quiet' /\ OneLeader' /\ LogStep /\ CommitDelivers
  BY ConstantsAssumption, StepOK, StepDelivers, StepCalm DEF Calm, CalmStep, OneLeader
<1>4. /\ IndInv /\ IndInv' /\ TypeOK /\ LogStep /\ CommitDelivers /\ Quiet /\ Quiet'
      /\ EntriesResolvable /\ EntriesResolvable' /\ DeliveredIsCommitted
      => DeliveredIsCommitted'
  BY StepKeepsDelivered
<1> QED
  BY <1>1, <1>2, <1>3, <1>4, Invariance, AllTypesKept, RolesMatchVotes, ClaimsStayTrue,
     EntriesStayResolvable, PTL DEF Spec
=============================================================================
