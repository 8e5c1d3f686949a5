---------------------------- MODULE B4MeshOracle ----------------------------
(***************************************************************************)
(* The C4M consensus of one B4Mesh network (b4mesh-oracle.cc): the oracles *)
(* of all the nodes and the UDP messages between them.  Every action is    *)
(* one event of the simulator: a timer, a packet, or a call from the       *)
(* mobility module (ChangeGroup) or the blockgraph module (InsertEntry).   *)
(***************************************************************************)
EXTENDS OracleRules

CONSTANTS
  Node,             \* the nodes of the network
  NoNode,           \* the value -1 of voted_for and current_leader
  Unset,            \* an indeterminate value of voted_for or current_leader
  InitialIds,       \* what the two uninitialised members may hold at start
  Block,            \* the blocks that may be created
  Topologies,       \* the groups the mobility module may report
  GroupIdOf(_),     \* the identifier the mobility module gives to a group
  SplitIdOf(_),     \* the identifier of the split step of a compound change
  MaxTerm,          \* bound: no election beyond this term
  MaxChanges,       \* bound: topology changes reported to one node
  MaxMsgs,          \* bound: messages in flight
  MayStop           \* whether the applications stop before the end

ASSUME ConstantsAssumption ==
  /\ Node # {} /\ IsFiniteSet(Node)
  /\ NoNode \notin Node /\ Unset \notin Node
  /\ InitialIds \subseteq {NoNode, Unset} /\ InitialIds # {}
  /\ Topologies \subseteq SUBSET Node
  /\ MaxTerm \in Nat /\ MaxChanges \in Nat /\ MaxMsgs \in Nat /\ MayStop \in BOOLEAN

VARIABLES
  running,          \* the applications have not been stopped
  current_state, current_term, voted_for, current_leader, gathered_votes,
  log, blockpool, commit_index,
  next_indexes, match_indexes,
  current_group, pending_groups, groups,
  delivered,        \* what was handed to the blockgraph, an item per commitment
  scheduled,        \* blocks generated by the blockgraph, not yet inserted
  changes,          \* topology changes reported so far
  msgs              \* messages in flight

electionVars == <<current_state, current_term, voted_for, current_leader,
                  gathered_votes>>
logVars == <<log, blockpool, commit_index, delivered>>
leaderVars == <<next_indexes, match_indexes>>
groupVars == <<current_group, pending_groups, groups>>
inputVars == <<scheduled, changes>>
vars == <<running, electionVars, logVars, leaderVars, groupVars, inputVars, msgs>>

GroupId == {GroupIdOf(g) : g \in SUBSET Node} \cup {SplitIdOf(g) : g \in SUBSET Node}
Hash == Block \cup GroupId \cup {NoHash}
LogEntry == [term : Int, hash : Hash]

-----------------------------------------------------------------------------
(* Messages.                                                               *)

ReqVote == [msg_type : {"REQ_VOTE"}, src : Node, dst : Node, term : Int,
            last_log_index : Int, last_log_term : Int]
AckVote == [msg_type : {"ACK_VOTE"}, src : Node, dst : Node, term : Int,
            commit_index : Int, vote_granted : BOOLEAN]
\* The payload is the block or the group behind `hash`; a heartbeat has none.
AppendOf(type, hashes) ==
  [msg_type : {type}, src : Node, dst : Node, term : Int, prev_log_index : Int,
   prev_log_term : Int, leader_commit : Int, entry_term : Int,
   hash : hashes, members : SUBSET Node]
AppendEntry == AppendOf("APPEND_ENTRY", Block \cup {NoHash})
               \cup AppendOf("APPEND_ENTRY_CONF", GroupId)
AckEntry == [msg_type : {"ACK_ENTRY"}, src : Node, dst : Node, term : Int,
             commit_index : Int, entry_index : Int, success : BOOLEAN]
Message == ReqVote \cup AckVote \cup AppendEntry \cup AckEntry

\* UDP: each packet handed to the network enters it or is lost.
Transmit(left, packets) ==
  \E sent \in SUBSET packets :
    /\ msgs' = left \cup sent
    /\ Cardinality(msgs') <= MaxMsgs

Send(packets) == Transmit(msgs, packets)
Receive(m) == msgs' = msgs \ {m}
ReceiveAndSend(m, packets) == Transmit(msgs \ {m}, packets)

\* m is received and answered by r; an application that stopped sends nothing.
Reply(m, r) == IF running THEN ReceiveAndSend(m, {r}) ELSE Receive(m)

-----------------------------------------------------------------------------
(* The state after SetUp and StartApplication.                             *)

Init ==
  /\ running = TRUE
  /\ current_state = [n \in Node |-> "FOLLOWER"]
  /\ current_term = [n \in Node |-> 0]
  /\ voted_for \in [Node -> InitialIds]
  /\ current_leader \in [Node -> InitialIds]
  /\ gathered_votes = [n \in Node |-> 0]
  /\ log = [n \in Node |-> <<>>]
  /\ blockpool = [n \in Node |-> {}]
  /\ commit_index = [n \in Node |-> -1]
  /\ delivered = [n \in Node |-> <<>>]
  /\ next_indexes = [n \in Node |-> [p \in Node |-> 0]]
  /\ match_indexes = [n \in Node |-> [p \in Node |-> 0]]
  /\ current_group = [n \in Node |-> Node]
  /\ pending_groups = [n \in Node |-> <<>>]
  /\ groups = [n \in Node |-> [id \in {} |-> {}]]
  /\ scheduled = [n \in Node |-> {}]
  /\ changes = [n \in Node |-> 0]
  /\ msgs = {}

-----------------------------------------------------------------------------
(* SendHeartbeats, called by the timer of a leader and by a node that just *)
(* became one: `term`, `group`, `next` and `match` are the values of the   *)
(* call.                                                                   *)

\* A pending group that is a split is applied before anything is sent.
SplitApplied(n, group) ==
  IF /\ pending_groups[n] # <<>>
     /\ DetectGroupChange(group, Head(pending_groups[n]).members) = "SPLIT"
  THEN ApplyGroup(group, groups[n], Head(pending_groups[n]).id)
  ELSE group

\* Once every entry is committed the first pending group enters the log.
AddsConfiguration(n) ==
  /\ LastLogIndex(log[n]) = commit_index[n]
  /\ pending_groups[n] # <<>>
  /\ \/ log[n] = <<>>
     \/ Head(pending_groups[n]).id # GetEntry(log[n], LastLogIndex(log[n])).hash

\* What the leader n sends to p: the next entry, or a heartbeat.
AppendEntriesTo(n, p, term, l, commit, next) ==
  LET confIndex == LastCommitConfIndex(l, commit, groups[n])
      next_index == IF next[p] > confIndex THEN next[p] ELSE confIndex + 1
      entry == GetEntry(l, next_index)
      isBlock == entry.hash \in blockpool[n]
      isConf == ~ isBlock /\ IsConf(groups[n], entry)
  IN [msg_type |-> IF isConf THEN "APPEND_ENTRY_CONF" ELSE "APPEND_ENTRY",
      src |-> n, dst |-> p, term |-> term,
      prev_log_index |-> next_index - 1,
      prev_log_term |-> GetEntry(l, next_index - 1).term,
      leader_commit |-> commit_index[n],
      entry_term |-> IF isBlock \/ isConf THEN entry.term ELSE NoTerm,
      hash |-> IF isBlock \/ isConf THEN entry.hash ELSE NoHash,
      members |-> IF isConf THEN groups[n][entry.hash] ELSE {}]

\* The effect of one call: the new values of the sender and what it sends.
HeartbeatRound(n, term, group, next, match) ==
  LET g == SplitApplied(n, group)
      pending == pending_groups[n]
      adds == AddsConfiguration(n)
      l == IF adds THEN Append(log[n], Entry(term, Head(pending).id)) ELSE log[n]
      commit == IF Cardinality(g) = 1 THEN LastLogIndex(l) ELSE commit_index[n]
      nextNow == IF adds THEN [next EXCEPT ![n] = LastLogIndex(l) + 1] ELSE next
      finishing == commit = LastLogIndex(l) /\ pending # <<>>
      newGroup == GetCurrentGroup(l, commit, groups[n])
      left == IF finishing /\ Head(pending).id = newGroup THEN Tail(pending)
                                                          ELSE pending
  IN [log |-> l,
      commit_index |-> commit,
      next |-> nextNow,
      match |-> IF adds THEN [match EXCEPT ![n] = LastLogIndex(l)] ELSE match,
      group |-> IF finishing THEN ApplyGroup(g, groups[n], newGroup) ELSE g,
      pending |-> left,
      state |-> IF finishing /\ left = <<>> THEN "FOLLOWER" ELSE "LEADER",
      packets |-> {AppendEntriesTo(n, p, term, l, commit, nextNow) : p \in g \ {n}}]

Heartbeats(n, round) ==
  /\ log' = [log EXCEPT ![n] = round.log]
  /\ commit_index' = [commit_index EXCEPT ![n] = round.commit_index]
  /\ next_indexes' = [next_indexes EXCEPT ![n] = round.next]
  /\ match_indexes' = [match_indexes EXCEPT ![n] = round.match]
  /\ current_group' = [current_group EXCEPT ![n] = round.group]
  /\ pending_groups' = [pending_groups EXCEPT ![n] = round.pending]
  /\ current_state' = [current_state EXCEPT ![n] = round.state]
  /\ UNCHANGED <<blockpool, delivered, groups>>

SendHeartbeats(n) ==
  LET round == HeartbeatRound(n, current_term[n], current_group[n],
                              next_indexes[n], match_indexes[n])
  IN /\ running
     /\ current_state[n] = "LEADER"
     /\ Heartbeats(n, round)
     /\ Send(round.packets)
     /\ UNCHANGED <<running, current_term, voted_for, current_leader,
                    gathered_votes, inputVars>>

\* A node that becomes leader starts again from its own commit index.
FirstNext(n) == [p \in Node |-> commit_index[n] + 1]
FirstMatch == [p \in Node |-> 0]

-----------------------------------------------------------------------------
(* Elections.                                                              *)

\* A node that has voted forgets its vote and waits for the next timeout.
ElectionTimeoutAfterVote(n) ==
  /\ running
  /\ voted_for[n] # NoNode
  /\ current_term' = [current_term EXCEPT
                        ![n] = IF current_state[n] = "CANDIDATE" THEN @ - 1 ELSE @]
  /\ voted_for' = [voted_for EXCEPT ![n] = NoNode]
  /\ gathered_votes' = [gathered_votes EXCEPT ![n] = 0]
  /\ current_state' = [current_state EXCEPT ![n] = "FOLLOWER"]
  /\ current_leader' = [current_leader EXCEPT ![n] = NoNode]
  /\ UNCHANGED <<running, logVars, leaderVars, groupVars, inputVars, msgs>>

VoteRequests(n, term, group) ==
  {[msg_type |-> "REQ_VOTE", src |-> n, dst |-> p, term |-> term,
    last_log_index |-> LastLogIndex(log[n]),
    last_log_term |-> IF commit_index[n] >= 0
                      THEN GetEntry(log[n], LastLogIndex(log[n])).term
                      ELSE NoTerm] : p \in group \ {n}}

\* A node that has not voted stands for election; alone, it is leader at once.
StandForElection(n) ==
  LET term == IF current_state[n] = "CANDIDATE" THEN current_term[n]
                                                ELSE current_term[n] + 1
      group == SplitApplied(n, current_group[n])
      round == HeartbeatRound(n, term, group, FirstNext(n), FirstMatch)
      requests == VoteRequests(n, term, group)
  IN /\ running
     /\ voted_for[n] = NoNode
     /\ term <= MaxTerm
     /\ current_term' = [current_term EXCEPT ![n] = term]
     /\ voted_for' = [voted_for EXCEPT ![n] = n]
     /\ gathered_votes' = [gathered_votes EXCEPT ![n] = 1]
     /\ \/ /\ Cardinality(group) # 1
           /\ current_state' = [current_state EXCEPT ![n] = "CANDIDATE"]
           /\ current_leader' = [current_leader EXCEPT ![n] = NoNode]
           /\ current_group' = [current_group EXCEPT ![n] = group]
           /\ Send(requests)
           /\ UNCHANGED <<logVars, leaderVars, pending_groups, groups>>
        \/ /\ Cardinality(group) = 1
           /\ current_leader' = [current_leader EXCEPT ![n] = n]
           /\ Heartbeats(n, round)
           /\ Send(requests \cup round.packets)
     /\ UNCHANGED <<running, inputVars>>

TriggerElectionTimeout(n) == ElectionTimeoutAfterVote(n) \/ StandForElection(n)

\* Faulty variant: a refusal goes to the node that was voted for, if any.
VoteAnswerToVote(n, m, term, granted) ==
  [msg_type |-> "ACK_VOTE", src |-> n, dst |-> IF granted THEN m.src ELSE voted_for[n],
   term |-> term, commit_index |-> commit_index[n], vote_granted |-> granted]

VoteAnswer(n, m, term, granted) ==
  [msg_type |-> "ACK_VOTE", src |-> n, dst |-> m.src, term |-> term,
   commit_index |-> commit_index[n], vote_granted |-> granted]

TermIsNew(m, term) == m.term > term

\* Faulty variant: a leader or a candidate keeps its role.
KeepsRole(n) == current_state[n]

StateAfterNewTerm(n) == "FOLLOWER"

\* The vote is open: a higher term has just reset it.
ProcessRequestVote(n, m) ==
  /\ m.msg_type = "REQ_VOTE"
  /\ \/ /\ ~ TermIsNew(m, current_term[n])
        /\ Reply(m, VoteAnswer(n, m, current_term[n], FALSE))
        /\ UNCHANGED electionVars
     \/ /\ TermIsNew(m, current_term[n])
        /\ current_term' = [current_term EXCEPT ![n] = m.term]
        /\ current_state' = [current_state EXCEPT ![n] = StateAfterNewTerm(n)]
        /\ LET grant == m.last_log_index >= LastLogIndex(log[n])
           IN /\ voted_for' = [voted_for EXCEPT ![n] = IF grant THEN m.src ELSE NoNode]
              /\ Reply(m, VoteAnswer(n, m, m.term, grant))
        /\ UNCHANGED <<current_leader, gathered_votes>>
  /\ UNCHANGED <<running, logVars, leaderVars, groupVars, inputVars>>

\* An answer from a node that is ahead ends a candidacy or a leadership.
AheadOf(n, m) == m.term > current_term[n] \/ m.commit_index > commit_index[n]

ProcessVoteResponse(n, m) ==
  LET votes == gathered_votes[n] + (IF m.vote_granted THEN 1 ELSE 0)
      elected == votes > Cardinality(current_group[n]) \div 2
      round == HeartbeatRound(n, current_term[n], current_group[n],
                              FirstNext(n), FirstMatch)
  IN /\ m.msg_type = "ACK_VOTE"
     /\ \/ /\ \/ ~ running
              \/ current_state[n] = "FOLLOWER"
              \/ current_state[n] = "LEADER" /\ ~ AheadOf(n, m)
           /\ Receive(m)
           /\ UNCHANGED <<electionVars, logVars, leaderVars, groupVars>>
        \/ /\ running
           /\ current_state[n] # "FOLLOWER"
           /\ AheadOf(n, m)
           /\ Receive(m)
           /\ current_term' = [current_term EXCEPT ![n] = m.term]
           /\ current_state' = [current_state EXCEPT ![n] = "FOLLOWER"]
           /\ log' = [log EXCEPT ![n] = RemoveUncommittedEntries(@, commit_index[n])]
           /\ UNCHANGED <<voted_for, current_leader, gathered_votes, blockpool,
                          commit_index, delivered, leaderVars, groupVars>>
        \/ /\ running
           /\ current_state[n] = "CANDIDATE"
           /\ ~ AheadOf(n, m)
           /\ gathered_votes' = [gathered_votes EXCEPT ![n] = votes]
           /\ UNCHANGED <<current_term, voted_for>>
           /\ \/ /\ ~ elected
                 /\ Receive(m)
                 /\ UNCHANGED <<current_state, current_leader, logVars,
                                leaderVars, groupVars>>
              \/ /\ elected
                 /\ current_leader' = [current_leader EXCEPT ![n] = n]
                 /\ Heartbeats(n, round)
                 /\ ReceiveAndSend(m, round.packets)
     /\ UNCHANGED <<running, inputVars>>

-----------------------------------------------------------------------------
(* Replication.                                                            *)

\* Faulty variant: the whole log is reported as committed.
EntryAnswerAllCommitted(n, m, commit, last, success) ==
  [msg_type |-> "ACK_ENTRY", src |-> n, dst |-> m.src, term |-> current_term[n],
   commit_index |-> last, entry_index |-> last, success |-> success]

EntryAnswer(n, m, commit, last, success) ==
  [msg_type |-> "ACK_ENTRY", src |-> n, dst |-> m.src, term |-> current_term[n],
   commit_index |-> commit, entry_index |-> last, success |-> success]

\* A higher term is adopted only from a leader that has committed more.
AdoptsLeader(n, m) ==
  m.term > current_term[n] /\ m.leader_commit > commit_index[n]

\* The log once a discontinuous tail has been removed.
Trimmed(n, m) ==
  IF Discontinuity(log[n], commit_index[n], groups[n], m)
  THEN RemoveUncommittedEntries(log[n], commit_index[n]) ELSE log[n]

\* The log in which the entry of m is put.
Prepared(n, m, term) ==
  IF m.hash = NoHash THEN Trimmed(n, m)
  ELSE Padded(Trimmed(n, m), commit_index[n], groups[n], term, m.prev_log_index)

CarriesBlock(m) == m.hash # NoHash /\ m.msg_type = "APPEND_ENTRY"
CarriesConf(m) == m.hash # NoHash /\ m.msg_type = "APPEND_ENTRY_CONF"

\* AppendLog turns term 1 into the term of the node; other writes do not.
TermOfEntry(m, isNew, term) ==
  IF CarriesBlock(m) /\ isNew /\ m.entry_term = 1 THEN term ELSE m.entry_term

\* The checks of the code in their order, each with what it leaves behind.
RejectEntries(n, m, term) ==
  LET rejectedBefore == m.term < term \/ ModifiesCommitted(m, commit_index[n])
      notUpToDate == ~ rejectedBefore /\ NotUpToDate(Trimmed(n, m), groups[n], m)
      gap == /\ ~ rejectedBefore /\ ~ notUpToDate
             /\ m.hash # NoHash
             /\ LeavesGap(Prepared(n, m, term), m.prev_log_index)
  IN /\ rejectedBefore \/ notUpToDate \/ gap
     /\ log' = [log EXCEPT ![n] = IF rejectedBefore THEN @
                                  ELSE IF notUpToDate THEN Trimmed(n, m)
                                  ELSE Prepared(n, m, term)]
     /\ Reply(m, EntryAnswer(n, m, commit_index[n], LastLogIndex(log[n]), FALSE))
     /\ UNCHANGED <<blockpool, commit_index, delivered, leaderVars, groupVars>>

AcceptEntries(n, m, term, state) ==
  LET before == Prepared(n, m, term)
      isNew == m.prev_log_index = LastLogIndex(before)
      l == IF m.hash = NoHash THEN before
           ELSE PutAfter(before, m.prev_log_index,
                         Entry(TermOfEntry(m, isNew, term), m.hash))
      last == LastLogIndex(l)
      known == IF CarriesConf(m) THEN AssignGroup(groups[n], m.hash, m.members)
                                 ELSE groups[n]
      pool == IF CarriesBlock(m) THEN blockpool[n] \cup {m.hash} ELSE blockpool[n]
      advances == m.leader_commit > commit_index[n]
      commit == IF ~ advances THEN commit_index[n]
                ELSE IF m.leader_commit < last THEN m.leader_commit ELSE last
      applies == advances /\ pending_groups[n] # <<>>
      newGroup == GetCurrentGroup(l, commit, known)
      asLeader == state = "LEADER" /\ CarriesBlock(m) /\ isNew
  IN /\ m.term >= term
     /\ ~ ModifiesCommitted(m, commit_index[n])
     /\ ~ NotUpToDate(Trimmed(n, m), groups[n], m)
     /\ m.hash # NoHash => ~ LeavesGap(before, m.prev_log_index)
     /\ log' = [log EXCEPT ![n] = l]
     /\ groups' = [groups EXCEPT ![n] = known]
     /\ blockpool' = [blockpool EXCEPT ![n] = pool]
     /\ commit_index' = [commit_index EXCEPT ![n] = commit]
     /\ delivered' = [delivered EXCEPT
                        ![n] = @ \o BlocksBetween(l, commit_index[n], commit, pool)]
     /\ current_group' = [current_group EXCEPT
                            ![n] = IF applies THEN ApplyGroup(@, known, newGroup) ELSE @]
     /\ pending_groups' = [pending_groups EXCEPT
                             ![n] = IF applies /\ Head(@).id = newGroup
                                    THEN Tail(@) ELSE @]
     /\ match_indexes' = [match_indexes EXCEPT
                            ![n][n] = IF asLeader THEN last ELSE @]
     /\ next_indexes' = [next_indexes EXCEPT
                           ![n][n] = IF asLeader THEN last + 1 ELSE @]
     /\ Reply(m, EntryAnswer(n, m, commit, last, TRUE))

ProcessAppendEntries(n, m) ==
  LET adopts == AdoptsLeader(n, m)
      term == IF adopts THEN m.term ELSE current_term[n]
      state == IF adopts THEN "FOLLOWER" ELSE current_state[n]
  IN /\ m.msg_type \in {"APPEND_ENTRY", "APPEND_ENTRY_CONF"}
     /\ current_term' = [current_term EXCEPT ![n] = term]
     /\ current_state' = [current_state EXCEPT ![n] = state]
     /\ current_leader' = [current_leader EXCEPT
                             ![n] = IF adopts \/ @ = NoNode THEN m.src ELSE @]
     /\ \/ RejectEntries(n, m, term)
        \/ AcceptEntries(n, m, term, state)
     /\ UNCHANGED <<running, voted_for, gathered_votes, inputVars>>

\* The leader n hears from a node that is ahead and steps down.
StepDown(n, m) ==
  LET l == RemoveUncommittedEntries(log[n], commit_index[n])
      reached == IF m.commit_index < LastLogIndex(l) THEN m.commit_index
                                                     ELSE LastLogIndex(l)
  IN /\ AheadOf(n, m)
     /\ log' = [log EXCEPT ![n] = l]
     /\ current_term' = [current_term EXCEPT ![n] = m.term]
     /\ commit_index' = [commit_index EXCEPT ![n] = IF reached > @ THEN reached ELSE @]
     /\ current_state' = [current_state EXCEPT ![n] = "FOLLOWER"]
     /\ UNCHANGED <<blockpool, delivered, leaderVars>>

\* The indexes of the answer are taken whether it reports success or not.
RecordAck(n, m) ==
  LET match == [match_indexes[n] EXCEPT ![m.src] = m.entry_index]
      commit == NewCommitIndex(log[n], commit_index[n], groups[n],
                               current_group[n], match)
  IN /\ ~ AheadOf(n, m)
     /\ match_indexes' = [match_indexes EXCEPT ![n] = match]
     /\ next_indexes' = [next_indexes EXCEPT ![n][m.src] = m.entry_index + 1]
     /\ commit_index' = [commit_index EXCEPT ![n] = commit]
     /\ delivered' = [delivered EXCEPT
                        ![n] = @ \o BlocksBetween(log[n], commit_index[n], commit,
                                                  blockpool[n])]
     /\ UNCHANGED <<current_state, current_term, log, blockpool>>

ProcessEntriesAck(n, m) ==
  /\ m.msg_type = "ACK_ENTRY"
  /\ Receive(m)
  /\ \/ /\ ~ running \/ current_state[n] # "LEADER"
        /\ UNCHANGED <<current_state, current_term, logVars, leaderVars>>
     \/ /\ running /\ current_state[n] = "LEADER"
        /\ StepDown(n, m) \/ RecordAck(n, m)
  /\ UNCHANGED <<running, voted_for, current_leader, gathered_votes, groupVars,
                 inputVars>>

\* A packet from a node outside the current group is dropped unread.
DropForeign(n, m) ==
  /\ Receive(m)
  /\ UNCHANGED <<running, electionVars, logVars, leaderVars, groupVars, inputVars>>

ReceivePacket(m) ==
  LET n == m.dst
  IN \/ m.src \notin current_group[n] /\ DropForeign(n, m)
     \/ /\ m.src \in current_group[n]
        /\ \/ ProcessRequestVote(n, m)
           \/ ProcessVoteResponse(n, m)
           \/ ProcessAppendEntries(n, m)
           \/ ProcessEntriesAck(n, m)

-----------------------------------------------------------------------------
(* Calls from the modules above and below.                                 *)

\* A change that neither only adds nor only removes nodes is cut in two steps,
\* first to the nodes that stay.
MakeGroupChangeSequence(current, group) ==
  LET common == group \cap current
      target == [id |-> GroupIdOf(group), members |-> group]
  IN  IF Cardinality(common) \in {Cardinality(current), Cardinality(group)}
      THEN <<target>>
      ELSE <<[id |-> SplitIdOf(common), members |-> common], target>>

\* A candidate applies the first step of the sequence if it is a split.
AppliesAtOnce(n, sequence) ==
  /\ current_state[n] = "CANDIDATE"
  /\ DetectGroupChange(current_group[n], sequence[1].members) = "SPLIT"

ChangeGroup(n, group) ==
  LET sequence == MakeGroupChangeSequence(current_group[n], group)
      first == InsertGroup(groups[n], sequence[1].id, sequence[1].members)
      known == IF Len(sequence) = 1 THEN first
               ELSE InsertGroup(first, sequence[2].id, sequence[2].members)
      atOnce == AppliesAtOnce(n, sequence)
  IN /\ n \in group
     /\ changes[n] < MaxChanges
     /\ changes' = [changes EXCEPT ![n] = @ + 1]
     /\ \/ /\ group = current_group[n]
           /\ UNCHANGED <<current_state, groupVars>>
        \/ /\ group # current_group[n]
           /\ pending_groups' = [pending_groups EXCEPT ![n] = sequence]
           /\ groups' = [groups EXCEPT ![n] = known]
           /\ current_group' = [current_group EXCEPT
                                  ![n] = IF atOnce
                                         THEN ApplyGroup(@, known, sequence[1].id)
                                         ELSE @]
           /\ current_state' = [current_state EXCEPT
                                  ![n] = IF atOnce THEN "FOLLOWER" ELSE @]
     /\ UNCHANGED <<running, current_term, voted_for, current_leader,
                    gathered_votes, logVars, leaderVars, scheduled, msgs>>

\* The blockgraph of a leader makes a block; it reaches the oracle later.
GenerateBlock(n, b) ==
  /\ running
  /\ current_state[n] = "LEADER"
  /\ \A p \in Node : b \notin scheduled[p] \cup blockpool[p]
  /\ scheduled' = [scheduled EXCEPT ![n] = @ \cup {b}]
  /\ UNCHANGED <<running, electionVars, logVars, leaderVars, groupVars, changes, msgs>>

\* Faulty variant: a node that no longer leads drops the block.
InsertEntryIfLeader(n, b) ==
  LET l == IF current_state[n] = "LEADER" THEN Append(log[n], Entry(-1, b)) ELSE log[n]
  IN /\ b \in scheduled[n]
     /\ scheduled' = [scheduled EXCEPT ![n] = @ \ {b}]
     /\ log' = [log EXCEPT ![n] = l]
     /\ blockpool' = [blockpool EXCEPT
                         ![n] = IF current_state[n] = "LEADER" THEN @ \cup {b} ELSE @]
     /\ UNCHANGED <<running, electionVars, commit_index, delivered, leaderVars,
                    groupVars, changes, msgs>>

\* InsertEntry gives AppendLog its default term, -1, and asks for no leader.
InsertEntry(n, b) ==
  LET l == Append(log[n], Entry(-1, b))
      leads == current_state[n] = "LEADER"
  IN /\ b \in scheduled[n]
     /\ scheduled' = [scheduled EXCEPT ![n] = @ \ {b}]
     /\ log' = [log EXCEPT ![n] = l]
     /\ blockpool' = [blockpool EXCEPT ![n] = @ \cup {b}]
     /\ match_indexes' = [match_indexes EXCEPT
                            ![n][n] = IF leads THEN LastLogIndex(l) ELSE @]
     /\ next_indexes' = [next_indexes EXCEPT
                           ![n][n] = IF leads THEN LastLogIndex(l) + 1 ELSE @]
     /\ UNCHANGED <<running, electionVars, commit_index, delivered, groupVars,
                    changes, msgs>>

StopApplication ==
  /\ MayStop
  /\ running
  /\ running' = FALSE
  /\ UNCHANGED <<electionVars, logVars, leaderVars, groupVars, inputVars, msgs>>

-----------------------------------------------------------------------------
\* Every event but an election timeout.
OtherEvent ==
  \/ \E n \in Node : SendHeartbeats(n)
  \/ \E m \in msgs : ReceivePacket(m)
  \/ \E n \in Node, group \in Topologies : ChangeGroup(n, group)
  \/ \E n \in Node, b \in Block : GenerateBlock(n, b)
  \/ \E n \in Node, b \in Block : InsertEntry(n, b)
  \/ StopApplication

Next ==
  \/ \E n \in Node : TriggerElectionTimeout(n)
  \/ OtherEvent

Spec == Init /\ [][Next]_vars

-----------------------------------------------------------------------------
(* Properties.                                                             *)

ElectionTypeOK ==
  /\ current_state \in [Node -> {"LEADER", "FOLLOWER", "CANDIDATE"}]
  /\ current_term \in [Node -> Int]
  /\ voted_for \in [Node -> Node \cup {NoNode, Unset}]
  /\ current_leader \in [Node -> Node \cup {NoNode, Unset}]
  /\ gathered_votes \in [Node -> Int]

LogTypeOK ==
  /\ log \in [Node -> Seq(LogEntry)]
  /\ blockpool \in [Node -> SUBSET Block]
  /\ commit_index \in [Node -> Int]

LeaderTypeOK ==
  /\ next_indexes \in [Node -> [Node -> Int]]
  /\ match_indexes \in [Node -> [Node -> Int]]

GroupTypeOK ==
  /\ current_group \in [Node -> SUBSET Node]
  /\ pending_groups \in [Node -> Seq([id : GroupId, members : SUBSET Node])]
  /\ DOMAIN groups = Node
  /\ \A n \in Node : /\ DOMAIN groups[n] \subseteq GroupId
                     /\ \A id \in DOMAIN groups[n] : groups[n][id] \subseteq Node

InputTypeOK ==
  /\ running \in BOOLEAN
  /\ scheduled \in [Node -> SUBSET Block]
  /\ changes \in [Node -> 0 .. MaxChanges]

\* Every variable keeps its type; the proofs use all of it but the last part.
StateTypeOK ==
  /\ ElectionTypeOK
  /\ LogTypeOK
  /\ LeaderTypeOK
  /\ GroupTypeOK
  /\ InputTypeOK
  /\ msgs \subseteq Message

TypeOK == StateTypeOK /\ delivered \in [Node -> Seq(Hash)]

\* The commit index of a node never points past the end of its log, so that the
\* unchecked log[i] of GetCurrentGroup and LastCommitConfIndex stays inside,
\* whatever entries leaders, acks and removals of uncommitted entries do.
CommitIndexInLog ==
  \A n \in Node : commit_index[n] \in -1 .. LastLogIndex(log[n])

\* "Prevent from modifying a commited log": no event lowers the commit index of
\* a node, nor removes or replaces an entry the node holds as committed.
CommittedStable ==
  [][\A n \in Node :
       /\ commit_index'[n] >= commit_index[n]
       /\ \A i \in 0 .. commit_index[n] :
            GetEntry(log'[n], i) = GetEntry(log[n], i)]_vars

\* No packet in flight speaks for more than its sender has committed by now:
\* neither the leader_commit of an append nor the commit_index of an answer.
NoClaimBeyondCommit ==
  \A m \in msgs :
    /\ m.msg_type \in {"APPEND_ENTRY", "APPEND_ENTRY_CONF"} =>
         m.leader_commit <= commit_index[m.src]
    /\ m.msg_type \in {"ACK_VOTE", "ACK_ENTRY"} =>
         m.commit_index <= commit_index[m.src]

\* Every entry of a log can be resolved at its node, to a block of its pool or to
\* a registered group, so that a leader always has a payload to send for it; only
\* the padding of a log without a committed configuration has no hash.
EntriesResolvable ==
  \A n \in Node : \A i \in DOMAIN log[n] :
    log[n][i].hash \in blockpool[n] \cup DOMAIN groups[n] \cup {NoHash}

\* The identifier id was given to the group g.
IsIdOf(id, g) == id \in {GroupIdOf(g), SplitIdOf(g)}

\* The identifier of a pending group is registered, for the group that was reported
\* or for another one with the same identifier: ApplyGroup finds what it applies, and
\* goes wrong with identifiers that collide only.
PendingRegistered ==
  \A n \in Node : \A i \in DOMAIN pending_groups[n] :
    LET pending == pending_groups[n][i]
    IN  /\ pending.id \in DOMAIN groups[n]
        /\ IsIdOf(pending.id, pending.members)
        /\ IsIdOf(pending.id, groups[n][pending.id])

\* A node that leads or stands for election has its own vote, and a leader takes
\* itself for the leader: nothing deposes it without also ending the role.
RoleMatchesVote ==
  \A n \in Node :
    /\ current_state[n] # "FOLLOWER" => voted_for[n] = n
    /\ current_state[n] = "LEADER" => current_leader[n] = n

\* Within one term and one group the blockgraph is handed the committed blocks of
\* the log, each once and in the order of the log, however often appends and
\* answers that move the commit index are repeated.
DeliveredIsCommitted ==
  \A n \in Node :
    delivered[n] = [i \in 1 .. (commit_index[n] + 1) |-> BlockOf(log[n][i], blockpool[n])]

\* Blocks are not taken for groups nor for nothing; the hashes the program
\* computes may collide.
NamesDistinct == NoHash \notin Block /\ Block \cap GroupId = {}

\* No block is handed to the blockgraph of a node twice, group changes included.
DeliveredOnce ==
  \A n \in Node : \A i, j \in DOMAIN delivered[n] :
    delivered[n][i] = delivered[n][j] /\ delivered[n][i] # NoHash => i = j

\* As long as nobody has left the first term, with its only leader, two nodes do
\* not hold different entries committed at the same position.
FirstTermAgreement ==
  (\A n \in Node : current_term[n] <= 1) =>
    \A n, p \in Node : \A i \in 0 .. commit_index[n] :
      i <= commit_index[p] => GetEntry(log[n], i).hash = GetEntry(log[p], i).hash

-----------------------------------------------------------------------------
(* What all this is for.                                                   *)

Made == UNION {scheduled[n] \cup blockpool[n] : n \in Node}
Reported == UNION {DOMAIN groups[n] : n \in Node}
Committed == [n \in Node |->
                [i \in 1 .. (commit_index[n] + 1) |-> GetEntry(log[n], i - 1).hash]]

\* What the network of oracles promises: roles, terms, packets and pending groups
\* are means to an end, lists of committed entries that only grow, of blocks that
\* were made and groups that were reported.  No block is lost by all the nodes: no
\* block pool is ever erased, so one trimmed from every log counts as kept.
Promise == INSTANCE CommittedLogs
             WITH made <- Made, reported <- Reported, committed <- Committed
KeepsPromise == Promise!Spec
=============================================================================
