------------------------ MODULE OraclePromise_proofs ------------------------
(***************************************************************************)
(* The oracles implement CommittedLogs, for every network and every bound. *)
(* A step changes the committed entries of one node at most, keeps the     *)
(* blocks and the identifiers known to the network unless it makes a block *)
(* or reports a group, and every entry of a log stays resolved: so each    *)
(* step is one of the actions of CommittedLogs or changes nothing there.   *)
(***************************************************************************)
EXTENDS OracleInvariants_proofs

\* The payload of an append in flight is known to the node that sent it.
HeldBySender(m) ==
  /\ CarriesBlock(m) => m.hash \in blockpool[m.src]
  /\ CarriesConf(m) => m.hash \in DOMAIN groups[m.src]

PayloadsHeld == \A m \in msgs : HeldBySender(m)

\* Only the log and the commit index of n change.
OnlyLogOf(n) ==
  \A p \in Node \ {n} : log'[p] = log[p] /\ commit_index'[p] = commit_index[p]

\* No node forgets a block of its pool or a group.
PoolsGrow ==
  \A p \in Node : /\ blockpool[p] \subseteq blockpool'[p]
                  /\ DOMAIN groups[p] \subseteq DOMAIN groups'[p]

\* What the network as a whole knows.
SameKnowledge == Made' = Made /\ Reported' = Reported

\* What a step that neither makes a block nor reports a group does.
QuietStep(n) == OnlyLogOf(n) /\ PoolsGrow /\ SameKnowledge

-----------------------------------------------------------------------------
(* Payloads.                                                               *)

LEMMA PayloadsStay ==
  ASSUME IndInv, PayloadsHeld, PoolsGrow,
         \A m \in msgs' \ msgs : m.src \in Node /\ HeldBySender(m)
  PROVE  PayloadsHeld'
<1> SUFFICES ASSUME NEW m \in msgs' PROVE HeldBySender(m)'
  BY DEF PayloadsHeld
<1>1. m.src \in Node /\ HeldBySender(m)
  BY MessageType DEF PayloadsHeld, IndInv, StateTypeOK
<1> QED
  BY <1>1 DEF HeldBySender, PoolsGrow, CarriesBlock, CarriesConf

\* A packet other than an append carries nothing.
LEMMA OthersCarryNothing ==
  ASSUME NEW m, m.msg_type \notin {"APPEND_ENTRY", "APPEND_ENTRY_CONF"}
  PROVE  HeldBySender(m)
BY DEF HeldBySender, CarriesBlock, CarriesConf

\* A leader sends blocks of its pool and groups it has registered.
LEMMA AppendsHeld ==
  ASSUME NEW n \in Node, NEW term, NEW group, NEW next, NEW match,
         NEW m \in HeartbeatRound(n, term, group, next, match).packets
  PROVE  m.src \in Node /\ HeldBySender(m)
<1>1. PICK p, l, commit, now : m = AppendEntriesTo(n, p, term, l, commit, now)
  BY DEF HeartbeatRound
<1> DEFINE confIndex == LastCommitConfIndex(l, commit, groups[n])
           next_index == IF now[p] > confIndex THEN now[p] ELSE confIndex + 1
           entry == GetEntry(l, next_index)
           isBlock == entry.hash \in blockpool[n]
           isConf == ~ isBlock /\ IsConf(groups[n], entry)
<1>2. /\ m.src = n
      /\ m.msg_type = IF isConf THEN "APPEND_ENTRY_CONF" ELSE "APPEND_ENTRY"
      /\ m.hash = IF isBlock \/ isConf THEN entry.hash ELSE NoHash
  BY <1>1 DEF AppendEntriesTo
<1> HIDE DEF entry
<1> QED
  BY <1>2 DEF HeldBySender, CarriesBlock, CarriesConf, IsConf

LEMMA RequestsHeld ==
  ASSUME NEW n \in Node, NEW term, NEW group, NEW m \in VoteRequests(n, term, group)
  PROVE  m.src \in Node /\ HeldBySender(m)
<1>1. m.src = n /\ m.msg_type = "REQ_VOTE"
  BY DEF VoteRequests
<1> QED
  BY <1>1, OthersCarryNothing

LEMMA AnswersHeld ==
  ASSUME NEW n \in Node, NEW m, NEW a, NEW b, NEW c
  PROVE  /\ HeldBySender(VoteAnswer(n, m, a, b)) /\ VoteAnswer(n, m, a, b).src \in Node
         /\ HeldBySender(EntryAnswer(n, m, a, b, c)) /\ EntryAnswer(n, m, a, b, c).src \in Node
<1>1. /\ VoteAnswer(n, m, a, b).src = n
      /\ VoteAnswer(n, m, a, b).msg_type = "ACK_VOTE"
      /\ EntryAnswer(n, m, a, b, c).src = n
      /\ EntryAnswer(n, m, a, b, c).msg_type = "ACK_ENTRY"
  BY DEF VoteAnswer, EntryAnswer
<1> QED
  BY <1>1, OthersCarryNothing

-----------------------------------------------------------------------------
(* Steps that make no block and report no group.                           *)

LEMMA SamePools ==
  ASSUME UNCHANGED <<blockpool, groups, scheduled>>
  PROVE  PoolsGrow /\ SameKnowledge
BY DEF PoolsGrow, SameKnowledge, Made, Reported

LEMMA SameLogsQuiet ==
  ASSUME NEW n, UNCHANGED <<log, commit_index>>
  PROVE  OnlyLogOf(n)
BY DEF OnlyLogOf

LEMMA ChangedLogQuiet ==
  ASSUME IndInv, NEW n \in Node, NEW l, NEW c, log' = [log EXCEPT ![n] = l],
         commit_index' = [commit_index EXCEPT ![n] = c]
  PROVE  OnlyLogOf(n)
BY DEF OnlyLogOf, IndInv, StateTypeOK, LogTypeOK

LEMMA HeartbeatsQuiet ==
  ASSUME IndInv, NEW n \in Node, NEW round, Heartbeats(n, round), UNCHANGED scheduled
  PROVE  QuietStep(n)
<1>1. OnlyLogOf(n)
  BY ChangedLogQuiet DEF Heartbeats
<1>2. PoolsGrow /\ SameKnowledge
  BY SamePools DEF Heartbeats
<1> QED
  BY <1>1, <1>2 DEF QuietStep

\* What enters the pool or the groups of a receiver, the sender had.
LEMMA AcceptQuiet ==
  ASSUME IndInv, PayloadsHeld, NEW n \in Node, NEW m \in msgs, NEW term, NEW state,
         AcceptEntries(n, m, term, state), UNCHANGED scheduled
  PROVE  QuietStep(n)
<1> DEFINE known == IF CarriesConf(m) THEN AssignGroup(groups[n], m.hash, m.members)
                                      ELSE groups[n]
           pool == IF CarriesBlock(m) THEN blockpool[n] \cup {m.hash} ELSE blockpool[n]
<1>1. OnlyLogOf(n)
  <2>1. PICK l, c : /\ log' = [log EXCEPT ![n] = l]
                    /\ commit_index' = [commit_index EXCEPT ![n] = c]
    BY DEF AcceptEntries
  <2> QED
    BY <2>1, ChangedLogQuiet
<1>2. /\ blockpool' = [blockpool EXCEPT ![n] = pool]
      /\ groups' = [groups EXCEPT ![n] = known]
  BY DEF AcceptEntries
<1>3. m.src \in Node /\ HeldBySender(m)
  BY MessageType DEF PayloadsHeld, IndInv, StateTypeOK
<1>4. /\ blockpool[n] \subseteq pool
      /\ pool \subseteq blockpool[n] \cup blockpool[m.src]
      /\ DOMAIN groups[n] \subseteq DOMAIN known
      /\ DOMAIN known \subseteq DOMAIN groups[n] \cup DOMAIN groups[m.src]
  BY <1>3 DEF HeldBySender, AssignGroup
<1> HIDE DEF known, pool
<1>5. ASSUME NEW p \in Node
      PROVE  /\ blockpool'[p] = IF p = n THEN pool ELSE blockpool[p]
             /\ groups'[p] = IF p = n THEN known ELSE groups[p]
  BY <1>2 DEF IndInv, StateTypeOK, LogTypeOK, GroupTypeOK
<1>6. PoolsGrow
  BY <1>4, <1>5 DEF PoolsGrow
<1>7. Made' = Made
  <2>1. \A b : b \in Made' => b \in Made
    BY <1>3, <1>4, <1>5 DEF Made
  <2>2. \A b : b \in Made => b \in Made'
    BY <1>4, <1>5 DEF Made
  <2> QED
    BY <2>1, <2>2
<1>8. Reported' = Reported
  <2>1. \A id : id \in Reported' => id \in Reported
    BY <1>3, <1>4, <1>5 DEF Reported
  <2>2. \A id : id \in Reported => id \in Reported'
    BY <1>4, <1>5 DEF Reported
  <2> QED
    BY <2>1, <2>2
<1> QED
  BY <1>1, <1>6, <1>7, <1>8 DEF QuietStep, SameKnowledge

LEMMA PacketQuiet ==
  ASSUME IndInv, PayloadsHeld, NEW m \in msgs, ReceivePacket(m)
  PROVE  /\ QuietStep(m.dst)
         /\ \A r \in msgs' \ msgs : r.src \in Node /\ HeldBySender(r)
<1> DEFINE n == m.dst
           held == \A r \in msgs' \ msgs : r.src \in Node /\ HeldBySender(r)
<1>1. n \in Node
  BY MessageType DEF IndInv, StateTypeOK
<1> HIDE DEF n
<1>2. Receive(m) => held
  BY NewPackets
<1>3. \A r : Reply(m, r) /\ r.src \in Node /\ HeldBySender(r) => held
  BY NewPackets
<1> HIDE DEF held
<1>4. ASSUME NEW l, log' = [log EXCEPT ![n] = l],
             \/ UNCHANGED commit_index
             \/ \E c : commit_index' = [commit_index EXCEPT ![n] = c],
             UNCHANGED <<blockpool, groups, scheduled>>
      PROVE  QuietStep(n)
  <2>1. OnlyLogOf(n)
    BY <1>1, <1>4 DEF OnlyLogOf, IndInv, StateTypeOK, LogTypeOK
  <2> QED
    BY <1>4, <2>1, SamePools DEF QuietStep
<1>5. ASSUME UNCHANGED <<log, commit_index, blockpool, groups, scheduled>>
      PROVE  QuietStep(n)
  BY <1>5, SamePools, SameLogsQuiet DEF QuietStep
<1>6. CASE ProcessRequestVote(n, m)
  <2>1. held
    BY <1>1, <1>3, <1>6, AnswersHeld DEF ProcessRequestVote
  <2>2. QuietStep(n)
    BY <1>5, <1>6 DEF ProcessRequestVote, logVars, groupVars, inputVars
  <2> QED
    BY <2>1, <2>2 DEF n, held
<1>7. CASE ProcessVoteResponse(n, m)
  <2>1. UNCHANGED scheduled
    BY <1>7 DEF ProcessVoteResponse, inputVars
  <2>2. CASE Receive(m) /\ UNCHANGED <<logVars, groupVars>>
    BY <1>2, <1>5, <2>1, <2>2 DEF logVars, groupVars, n, held
  <2>3. CASE /\ Receive(m)
             /\ log' = [log EXCEPT ![n] = RemoveUncommittedEntries(@, commit_index[n])]
             /\ UNCHANGED <<blockpool, commit_index, groupVars>>
    BY <1>2, <1>4, <2>1, <2>3 DEF groupVars, n, held
  <2>4. CASE LET round == HeartbeatRound(n, current_term[n], current_group[n],
                                         FirstNext(n), FirstMatch)
             IN  Heartbeats(n, round) /\ ReceiveAndSend(m, round.packets)
    <3>1. held
      BY <1>1, <2>4, NewPackets, AppendsHeld DEF ReceiveAndSend, held
    <3>2. QuietStep(n)
      BY <1>1, <2>1, <2>4, HeartbeatsQuiet
    <3> QED
      BY <3>1, <3>2 DEF n, held
  <2> QED
    BY <1>7, <2>2, <2>3, <2>4 DEF ProcessVoteResponse
<1>8. CASE ProcessAppendEntries(n, m)
  <2>1. PICK term, state : RejectEntries(n, m, term) \/ AcceptEntries(n, m, term, state)
    BY <1>8 DEF ProcessAppendEntries
  <2>2. UNCHANGED scheduled
    BY <1>8 DEF ProcessAppendEntries, inputVars
  <2>3. CASE RejectEntries(n, m, term)
    <3>1. held
      BY <1>1, <1>3, <2>3, AnswersHeld DEF RejectEntries
    <3>2. PICK l : log' = [log EXCEPT ![n] = l]
      BY <2>3 DEF RejectEntries
    <3>3. UNCHANGED <<blockpool, commit_index, groups>>
      BY <2>3 DEF RejectEntries, groupVars
    <3>4. QuietStep(n)
      BY <1>4, <2>2, <3>2, <3>3
    <3> QED
      BY <3>1, <3>4 DEF n, held
  <2>4. CASE AcceptEntries(n, m, term, state)
    <3>1. PICK commit, last : Reply(m, EntryAnswer(n, m, commit, last, TRUE))
      BY <2>4 DEF AcceptEntries
    <3>2. held
      BY <1>1, <1>3, <3>1, AnswersHeld
    <3>3. QuietStep(n)
      BY <1>1, <2>2, <2>4, AcceptQuiet
    <3> QED
      BY <3>2, <3>3 DEF n, held
  <2> QED
    BY <2>1, <2>3, <2>4
<1>9. CASE ProcessEntriesAck(n, m)
  <2>1. held /\ UNCHANGED <<groups, scheduled>>
    BY <1>2, <1>9 DEF ProcessEntriesAck, groupVars, inputVars
  <2>2. CASE UNCHANGED logVars
    BY <1>5, <2>1, <2>2 DEF logVars, n, held
  <2>3. CASE StepDown(n, m)
    <3>1. QuietStep(n)
      BY <1>4, <2>1, <2>3 DEF StepDown
    <3> QED
      BY <2>1, <3>1 DEF n, held
  <2>4. CASE RecordAck(n, m)
    <3>1. UNCHANGED <<log, blockpool>>
      BY <2>4 DEF RecordAck
    <3>2. PICK c : commit_index' = [commit_index EXCEPT ![n] = c]
      BY <2>4 DEF RecordAck
    <3>3. OnlyLogOf(n)
      BY <1>1, <3>1, <3>2 DEF OnlyLogOf, IndInv, StateTypeOK, LogTypeOK
    <3>4. QuietStep(n)
      BY <2>1, <3>1, <3>3, SamePools DEF QuietStep
    <3> QED
      BY <2>1, <3>4 DEF n, held
  <2> QED
    BY <1>9, <2>2, <2>3, <2>4 DEF ProcessEntriesAck
<1>10. CASE DropForeign(n, m)
  BY <1>2, <1>5, <1>10 DEF DropForeign, logVars, groupVars, inputVars, n, held
<1> QED
  BY <1>6, <1>7, <1>8, <1>9, <1>10 DEF ReceivePacket, n

\* The leader that makes a block is alone to have it.
LEMMA GenerateMakes ==
  ASSUME IndInv, NEW n \in Node, NEW b \in Block, GenerateBlock(n, b)
  PROVE  b \notin Made /\ Made' = Made \cup {b}
<1>1. b \notin Made
  BY DEF GenerateBlock, Made
<1>2. UNCHANGED blockpool /\ scheduled' = [scheduled EXCEPT ![n] = @ \cup {b}]
  BY DEF GenerateBlock, logVars
<1>3. ASSUME NEW p \in Node
      PROVE  scheduled'[p] = IF p = n THEN scheduled[n] \cup {b} ELSE scheduled[p]
  BY <1>2 DEF IndInv, StateTypeOK, InputTypeOK
<1>4. \A x : x \in Made' <=> x \in Made \/ x = b
  BY <1>2, <1>3 DEF Made
<1> QED
  BY <1>1, <1>4

\* A block passes from the blocks scheduled to the pool, leader or not.
LEMMA InsertQuiet ==
  ASSUME IndInv, NEW n \in Node, NEW b \in Block, InsertEntry(n, b)
  PROVE  QuietStep(n)
<1>1. /\ b \in scheduled[n]
      /\ scheduled' = [scheduled EXCEPT ![n] = @ \ {b}]
      /\ blockpool' = [blockpool EXCEPT ![n] = @ \cup {b}]
      /\ UNCHANGED <<groups, commit_index>>
  BY DEF InsertEntry, groupVars
<1>2. ASSUME NEW p \in Node
      PROVE  /\ scheduled'[p] = IF p = n THEN scheduled[n] \ {b} ELSE scheduled[p]
             /\ blockpool'[p] = IF p = n THEN blockpool[n] \cup {b} ELSE blockpool[p]
  BY <1>1 DEF IndInv, StateTypeOK, LogTypeOK, InputTypeOK
<1>3. \A x : x \in Made' <=> x \in Made
  BY <1>1, <1>2 DEF Made
<1>4. PoolsGrow /\ SameKnowledge
  BY <1>1, <1>2, <1>3 DEF PoolsGrow, SameKnowledge, Reported
<1>5. OnlyLogOf(n)
  BY DEF InsertEntry, OnlyLogOf, IndInv, StateTypeOK, LogTypeOK
<1> QED
  BY <1>4, <1>5 DEF QuietStep

\* A change of group is registered: identifiers are added, none is dropped.
LEMMA ChangeReports ==
  ASSUME IndInv, NEW n \in Node, NEW group \in Topologies, ChangeGroup(n, group)
  PROVE  PoolsGrow /\ Made' = Made /\ Reported \subseteq Reported'
<1>1. UNCHANGED <<blockpool, scheduled>>
  BY DEF ChangeGroup, logVars
<1>2. PoolsGrow
  <2>1. CASE UNCHANGED groupVars
    BY <1>1, <2>1 DEF PoolsGrow, groupVars
  <2>2. CASE \E known : /\ groups' = [groups EXCEPT ![n] = known]
                        /\ DOMAIN groups[n] \subseteq DOMAIN known
    <3>1. PICK known : /\ groups' = [groups EXCEPT ![n] = known]
                       /\ DOMAIN groups[n] \subseteq DOMAIN known
      BY <2>2
    <3>2. \A p \in Node : groups'[p] = IF p = n THEN known ELSE groups[p]
      BY <3>1 DEF IndInv, StateTypeOK, GroupTypeOK
    <3> QED
      BY <1>1, <3>1, <3>2 DEF PoolsGrow
  <2>3. \A g, id, members : DOMAIN g \subseteq DOMAIN InsertGroup(g, id, members)
    BY DEF InsertGroup
  <2> QED
    BY <2>1, <2>2, <2>3 DEF ChangeGroup
<1> QED
  BY <1>1, <1>2 DEF PoolsGrow, Made, Reported

-----------------------------------------------------------------------------
(* Every event is quiet, makes a block or reports a group.                 *)

LEMMA StepKinds ==
  ASSUME ConstantsAssumption, IndInv, PayloadsHeld, [Next]_vars
  PROVE  /\ PayloadsHeld'
         /\ \/ \E n \in Node : QuietStep(n)
            \/ /\ UNCHANGED <<log, commit_index, groups>>
               /\ \E b : b \notin Made /\ Made' = Made \cup {b}
            \/ /\ UNCHANGED <<log, commit_index>>
               /\ Made' = Made /\ Reported \subseteq Reported'
<1> DEFINE quiet == \E n \in Node : QuietStep(n)
<1>1. ASSUME UNCHANGED <<log, commit_index, blockpool, groups, scheduled>>, msgs' \subseteq msgs
      PROVE  PayloadsHeld' /\ quiet
  <2>1. PICK n \in Node : TRUE
    BY DEF ConstantsAssumption
  <2> QED
    BY <1>1, <2>1, SamePools, SameLogsQuiet, PayloadsStay DEF QuietStep
<1>2. ASSUME NEW n \in Node, SendHeartbeats(n)
      PROVE  PayloadsHeld' /\ quiet
  <2>1. PICK term, group, next, match :
          LET round == HeartbeatRound(n, term, group, next, match)
          IN  Heartbeats(n, round) /\ Send(round.packets)
    BY <1>2 DEF SendHeartbeats
  <2>2. QuietStep(n)
    BY <1>2, <2>1, HeartbeatsQuiet DEF SendHeartbeats, inputVars
  <2>3. \A m \in msgs' \ msgs : m.src \in Node /\ HeldBySender(m)
    BY <2>1, NewPackets, AppendsHeld DEF Send
  <2> QED
    BY <2>2, <2>3, PayloadsStay DEF QuietStep
<1>3. ASSUME NEW n \in Node, TriggerElectionTimeout(n)
      PROVE  PayloadsHeld' /\ quiet
  <2>1. CASE ElectionTimeoutAfterVote(n)
    BY <1>1, <2>1 DEF ElectionTimeoutAfterVote, logVars, groupVars, inputVars
  <2>2. CASE StandForElection(n)
    <3>1. PICK term, group :
            LET round == HeartbeatRound(n, term, group, FirstNext(n), FirstMatch)
                requests == VoteRequests(n, term, group)
            IN  \/ Send(requests) /\ UNCHANGED <<logVars, groups>>
                \/ Heartbeats(n, round) /\ Send(requests \cup round.packets)
      BY <2>2 DEF StandForElection
    <3>2. UNCHANGED scheduled
      BY <2>2 DEF StandForElection, inputVars
    <3>3. QuietStep(n)
      <4>1. CASE UNCHANGED <<logVars, groups>>
        BY <3>2, <4>1, SamePools, SameLogsQuiet DEF QuietStep, logVars
      <4>2. CASE Heartbeats(n, HeartbeatRound(n, term, group, FirstNext(n), FirstMatch))
        BY <3>2, <4>2, HeartbeatsQuiet
      <4> QED
        BY <3>1, <4>1, <4>2
    <3>4. \A m \in msgs' \ msgs : m.src \in Node /\ HeldBySender(m)
      BY <3>1, NewPackets, AppendsHeld, RequestsHeld DEF Send
    <3> QED
      BY <3>3, <3>4, PayloadsStay DEF QuietStep
  <2> QED
    BY <1>3, <2>1, <2>2 DEF TriggerElectionTimeout
<1>4. ASSUME NEW m \in msgs, ReceivePacket(m)
      PROVE  PayloadsHeld' /\ quiet
  <2>1. m.dst \in Node
    BY MessageType DEF IndInv, StateTypeOK
  <2>2. QuietStep(m.dst) /\ \A r \in msgs' \ msgs : r.src \in Node /\ HeldBySender(r)
    BY <1>4, PacketQuiet
  <2> QED
    BY <2>1, <2>2, PayloadsStay DEF QuietStep
<1>5. ASSUME NEW n \in Node, NEW group \in Topologies, ChangeGroup(n, group)
      PROVE  /\ PayloadsHeld'
             /\ UNCHANGED <<log, commit_index>>
             /\ Made' = Made /\ Reported \subseteq Reported'
  BY <1>5, ChangeReports, PayloadsStay DEF ChangeGroup, logVars
<1>6. ASSUME NEW n \in Node, NEW b \in Block, GenerateBlock(n, b)
      PROVE  /\ PayloadsHeld'
             /\ UNCHANGED <<log, commit_index, groups>>
             /\ b \notin Made /\ Made' = Made \cup {b}
  <2>1. UNCHANGED <<log, commit_index, blockpool, groups, msgs>>
    BY <1>6 DEF GenerateBlock, logVars, groupVars
  <2>2. PoolsGrow
    BY <2>1 DEF PoolsGrow
  <2> QED
    BY <1>6, <2>1, <2>2, GenerateMakes, PayloadsStay
<1>7. ASSUME NEW n \in Node, NEW b \in Block, InsertEntry(n, b)
      PROVE  PayloadsHeld' /\ quiet
  <2>1. UNCHANGED msgs
    BY <1>7 DEF InsertEntry
  <2> QED
    BY <1>7, <2>1, InsertQuiet, PayloadsStay DEF QuietStep
<1>8. CASE StopApplication \/ UNCHANGED vars
  BY <1>1, <1>8 DEF StopApplication, vars, logVars, groupVars, inputVars
<1> HIDE DEF quiet
<1>9. CASE Next
  BY <1>2, <1>3, <1>4, <1>5, <1>6, <1>7, <1>8, <1>9 DEF Next, OtherEvent, quiet
<1> QED
  BY <1>8, <1>9 DEF quiet

\* A commit of CommittedLogs, or nothing.
LEMMA QuietCommits ==
  ASSUME IndInv, IndInv', LogStep, Resolved', NEW n \in Node, QuietStep(n)
  PROVE  Promise!Commit(n)
<1> DEFINE old == [i \in 1 .. (commit_index[n] + 1) |-> GetEntry(log[n], i - 1).hash]
           new == [i \in 1 .. (commit_index'[n] + 1) |-> GetEntry(log'[n], i - 1).hash]
<1>1. /\ commit_index[n] \in Int /\ commit_index'[n] \in Int /\ commit_index[n] >= -1
      /\ commit_index[n] <= commit_index'[n]
      /\ commit_index'[n] <= LastLogIndex(log'[n])
      /\ Keeps(log[n], log'[n], commit_index[n])
  BY AtNode DEF LogStep, IndInv, StateTypeOK, LogTypeOK
<1>2. Committed[n] = old /\ Committed'[n] = new
  BY DEF Committed
<1>3. DOMAIN old \subseteq DOMAIN new
  BY <1>1
<1>4. \A i \in DOMAIN old : new[i] = old[i]
  BY <1>1 DEF Keeps
<1>5. \A i \in DOMAIN new : 1 .. i \subseteq DOMAIN new
  BY <1>1
<1>6. ASSUME NEW i \in DOMAIN new PROVE new[i] \in Made \cup Reported \cup {NoHash}
  <2>1. log'[n] \in Seq(EntriesOver(Resolves(blockpool'[n], groups'[n])))
    BY DEF Resolved, ResolvedAt
  <2>2. GetEntry(log'[n], i - 1) \in EntriesOver(Resolves(blockpool'[n], groups'[n]))
    BY <2>1, GetEntryType DEF Resolves
  <2>3. new[i] \in Resolves(blockpool'[n], groups'[n])
    BY <2>2 DEF EntriesOver
  <2>4. blockpool'[n] \subseteq Made' /\ DOMAIN groups'[n] \subseteq Reported'
    BY DEF Made, Reported
  <2> QED
    BY <2>3, <2>4 DEF Resolves, QuietStep, SameKnowledge
<1>7. \A p \in Node \ {n} : Committed'[p] = Committed[p]
  BY DEF Committed, QuietStep, OnlyLogOf
<1>8. UNCHANGED <<Made, Reported>>
  BY DEF QuietStep, SameKnowledge
<1> HIDE DEF old, new
<1> QED
  BY <1>2, <1>3, <1>4, <1>5, <1>6, <1>7, <1>8 DEF Promise!Commit, Promise!Proposed

LEMMA StepPromised ==
  ASSUME ConstantsAssumption, IndInv, IndInv', Resolved', PayloadsHeld, [Next]_vars
  PROVE  Promise!Next
<1>1. LogStep
  BY StepOK
<1>2. CASE \E n \in Node : QuietStep(n)
  BY <1>1, <1>2, QuietCommits DEF Promise!Next
<1>3. CASE /\ UNCHANGED <<log, commit_index, groups>>
           /\ \E b : b \notin Made /\ Made' = Made \cup {b}
  BY <1>3 DEF Promise!Next, Promise!Make, Committed, Reported
<1>4. CASE /\ UNCHANGED <<log, commit_index>>
           /\ Made' = Made /\ Reported \subseteq Reported'
  BY <1>4 DEF Promise!Next, Promise!Report, Committed
<1> QED
  BY <1>2, <1>3, <1>4, StepKinds

\* The oracles of any network keep the promise: each node commits a list that only
\* grows, of blocks that were made and groups that were reported, and blocks that were
\* made stay in block pools, whatever packets are lost and whoever leads or steps down.
THEOREM OraclesKeepPromise == Spec => KeepsPromise
<1>1. Init => Promise!Init
  <2> SUFFICES ASSUME Init PROVE Promise!Init
    OBVIOUS
  <2>1. Made = {}
    BY DEF Init, Made
  <2>2. Reported = {}
    BY DEF Init, Reported
  <2>3. ASSUME NEW n \in Node PROVE DOMAIN Committed[n] = {}
    <3>1. commit_index[n] = -1
      BY DEF Init
    <3> QED
      BY <3>1 DEF Committed
  <2> QED
    BY <2>1, <2>2, <2>3 DEF Promise!Init
<1>2. Init => PayloadsHeld
  BY DEF Init, PayloadsHeld
<1>3. IndInv /\ PayloadsHeld /\ [Next]_vars => PayloadsHeld'
  BY ConstantsAssumption, StepKinds
<1>4. /\ IndInv /\ IndInv' /\ Resolved' /\ PayloadsHeld /\ [Next]_vars
      => [Promise!Next]_<<Made, Reported, Committed>>
  BY ConstantsAssumption, StepPromised
<1> QED
  BY <1>1, <1>2, <1>3, <1>4, Invariance, ResolvedHolds, PTL
     DEF Spec, KeepsPromise, Promise!Spec
=============================================================================
