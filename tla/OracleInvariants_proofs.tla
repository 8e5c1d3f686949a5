---------------------- MODULE OracleInvariants_proofs ----------------------
(***************************************************************************)
(* What the oracles say of themselves and of each other, for every network *)
(* and every bound: roles go with votes, packets claim no more than is     *)
(* committed, every entry of a log has a payload, and every pending group  *)
(* is registered.  Each is inductive on top of IndInv.                     *)
(***************************************************************************)
EXTENDS B4MeshOracle_proofs

-----------------------------------------------------------------------------
(* Roles and votes.                                                        *)

RoleAt(n, state, vote, leader) ==
  /\ state # "FOLLOWER" => vote = n
  /\ state = "LEADER" => leader = n

\* Only the role, the vote and the leader of n change.
LEMMA RoleChanges ==
  ASSUME IndInv, RoleMatchesVote, NEW n \in Node, NEW state, NEW vote, NEW leader,
         current_state' = [current_state EXCEPT ![n] = state],
         voted_for' = [voted_for EXCEPT ![n] = vote],
         current_leader' = [current_leader EXCEPT ![n] = leader],
         RoleAt(n, state, vote, leader)
  PROVE  RoleMatchesVote'
<1>1. /\ DOMAIN current_state = Node /\ DOMAIN voted_for = Node
      /\ DOMAIN current_leader = Node
  BY DEF IndInv, StateTypeOK, ElectionTypeOK
<1> QED
  BY <1>1 DEF RoleMatchesVote, RoleAt

LEMMA RoundState ==
  ASSUME NEW n, NEW term, NEW group, NEW next, NEW match
  PROVE  HeartbeatRound(n, term, group, next, match).state \in {"LEADER", "FOLLOWER"}
BY DEF HeartbeatRound

LEMMA TimeoutRoles ==
  ASSUME IndInv, RoleMatchesVote, NEW n \in Node, TriggerElectionTimeout(n)
  PROVE  RoleMatchesVote'
<1>1. CASE ElectionTimeoutAfterVote(n)
  <2>1. RoleAt(n, "FOLLOWER", NoNode, NoNode)
    BY DEF RoleAt
  <2> QED
    BY <1>1, <2>1, RoleChanges DEF ElectionTimeoutAfterVote
<1>2. CASE StandForElection(n)
  <2>1. voted_for' = [voted_for EXCEPT ![n] = n]
    BY <1>2 DEF StandForElection
  <2>2. CASE /\ current_state' = [current_state EXCEPT ![n] = "CANDIDATE"]
             /\ current_leader' = [current_leader EXCEPT ![n] = NoNode]
    <3>1. RoleAt(n, "CANDIDATE", n, NoNode)
      BY DEF RoleAt
    <3> QED
      BY <2>1, <2>2, <3>1, RoleChanges
  <2>3. CASE \E term, group :
               /\ current_leader' = [current_leader EXCEPT ![n] = n]
               /\ Heartbeats(n, HeartbeatRound(n, term, group, FirstNext(n), FirstMatch))
    <3>1. PICK term, group :
            /\ current_leader' = [current_leader EXCEPT ![n] = n]
            /\ Heartbeats(n, HeartbeatRound(n, term, group, FirstNext(n), FirstMatch))
      BY <2>3
    <3> DEFINE state == HeartbeatRound(n, term, group, FirstNext(n), FirstMatch).state
    <3>2. current_state' = [current_state EXCEPT ![n] = state]
      BY <3>1 DEF Heartbeats
    <3>3. RoleAt(n, state, n, n)
      BY DEF RoleAt
    <3> HIDE DEF state
    <3> QED
      BY <2>1, <3>1, <3>2, <3>3, RoleChanges
  <2> QED
    BY <1>2, <2>2, <2>3 DEF StandForElection
<1> QED
  BY <1>1, <1>2 DEF TriggerElectionTimeout

\* A candidate that is elected has its vote; a leader that hears another one while
\* it takes itself for the leader keeps doing so, unless it steps down.
LEMMA PacketRoles ==
  ASSUME ConstantsAssumption, IndInv, RoleMatchesVote, NEW m \in msgs, ReceivePacket(m)
  PROVE  RoleMatchesVote'
<1> DEFINE n == m.dst
<1>1. n \in Node
  BY MessageType DEF IndInv, StateTypeOK
<1>2. /\ RoleAt(n, current_state[n], voted_for[n], current_leader[n])
      /\ current_state = [current_state EXCEPT ![n] = current_state[n]]
      /\ voted_for = [voted_for EXCEPT ![n] = voted_for[n]]
      /\ current_leader = [current_leader EXCEPT ![n] = current_leader[n]]
  BY <1>1 DEF RoleMatchesVote, RoleAt, IndInv, StateTypeOK, ElectionTypeOK
<1> HIDE DEF n
<1>3. ASSUME UNCHANGED <<current_state, voted_for, current_leader>>
      PROVE  RoleMatchesVote'
  BY <1>3 DEF RoleMatchesVote
<1>4. ASSUME UNCHANGED current_leader,
             current_state' = [current_state EXCEPT ![n] = "FOLLOWER"],
             \E vote : voted_for' = [voted_for EXCEPT ![n] = vote]
      PROVE  RoleMatchesVote'
  <2>1. PICK vote : voted_for' = [voted_for EXCEPT ![n] = vote]
    BY <1>4
  <2>2. RoleAt(n, "FOLLOWER", vote, current_leader[n])
    BY DEF RoleAt
  <2>3. current_leader' = [current_leader EXCEPT ![n] = current_leader[n]]
    BY <1>2, <1>4
  <2> QED
    BY <1>1, <1>4, <2>1, <2>2, <2>3, RoleChanges
<1>5. CASE DropForeign(n, m)
  BY <1>3, <1>5 DEF DropForeign, electionVars
<1>6. CASE ProcessRequestVote(n, m)
  BY <1>3, <1>4, <1>6 DEF ProcessRequestVote, electionVars, StateAfterNewTerm
<1>7. CASE ProcessVoteResponse(n, m)
  <2>1. CASE \E group :
               LET round == HeartbeatRound(n, current_term[n], group,
                                           FirstNext(n), FirstMatch)
               IN /\ current_state[n] = "CANDIDATE"
                  /\ UNCHANGED voted_for
                  /\ current_leader' = [current_leader EXCEPT ![n] = n]
                  /\ Heartbeats(n, round)
    <3>1. PICK state : /\ current_state[n] = "CANDIDATE"
                       /\ UNCHANGED voted_for
                       /\ current_leader' = [current_leader EXCEPT ![n] = n]
                       /\ current_state' = [current_state EXCEPT ![n] = state]
      BY <2>1 DEF Heartbeats
    <3>2. RoleAt(n, state, voted_for[n], n)
      BY <1>2, <3>1 DEF RoleAt
    <3> QED
      BY <1>1, <1>2, <3>1, <3>2, RoleChanges
  <2>2. CASE UNCHANGED <<current_state, voted_for, current_leader>>
    BY <1>3, <2>2
  <2>3. CASE /\ UNCHANGED <<voted_for, current_leader>>
             /\ current_state' = [current_state EXCEPT ![n] = "FOLLOWER"]
    BY <1>2, <1>4, <2>3
  <2> QED
    BY <1>7, <2>1, <2>2, <2>3 DEF ProcessVoteResponse, electionVars
<1>8. CASE ProcessAppendEntries(n, m)
  <2>1. UNCHANGED voted_for
    BY <1>8 DEF ProcessAppendEntries
  <2>2. CASE AdoptsLeader(n, m)
    <3>1. /\ current_state' = [current_state EXCEPT ![n] = "FOLLOWER"]
          /\ current_leader' = [current_leader EXCEPT ![n] = m.src]
      BY <1>8, <2>2 DEF ProcessAppendEntries
    <3>2. RoleAt(n, "FOLLOWER", voted_for[n], m.src)
      BY DEF RoleAt
    <3>3. voted_for' = [voted_for EXCEPT ![n] = voted_for[n]]
      BY <1>2, <2>1
    <3> QED
      BY <1>1, <3>1, <3>2, <3>3, RoleChanges
  <2>3. CASE ~ AdoptsLeader(n, m)
    <3> DEFINE leader == IF current_leader[n] = NoNode THEN m.src ELSE current_leader[n]
    <3>1. /\ current_state' = [current_state EXCEPT ![n] = current_state[n]]
          /\ current_leader' = [current_leader EXCEPT ![n] = leader]
      BY <1>1, <1>2, <1>8, <2>3 DEF ProcessAppendEntries
    <3>2. RoleAt(n, current_state[n], voted_for[n], leader)
      BY <1>1, <1>2 DEF RoleAt, ConstantsAssumption
    <3>3. voted_for' = [voted_for EXCEPT ![n] = voted_for[n]]
      BY <1>2, <2>1
    <3> HIDE DEF leader
    <3> QED
      BY <1>1, <3>1, <3>2, <3>3, RoleChanges
  <2> QED
    BY <2>2, <2>3
<1>9. CASE ProcessEntriesAck(n, m)
  BY <1>2, <1>3, <1>4, <1>9 DEF ProcessEntriesAck, StepDown, RecordAck
<1> QED
  BY <1>5, <1>6, <1>7, <1>8, <1>9 DEF ReceivePacket, n

LEMMA StepRoles ==
  ASSUME ConstantsAssumption, IndInv, RoleMatchesVote, [Next]_vars
  PROVE  RoleMatchesVote'
<1>1. ASSUME UNCHANGED <<current_state, voted_for, current_leader>>
      PROVE  RoleMatchesVote'
  BY <1>1 DEF RoleMatchesVote
<1>2. ASSUME NEW n \in Node, NEW state, UNCHANGED <<voted_for, current_leader>>,
             current_state' = [current_state EXCEPT ![n] = state],
             state = "FOLLOWER" \/ current_state[n] = "LEADER" \/ state = current_state[n]
      PROVE  RoleMatchesVote'
  <2>1. RoleAt(n, state, voted_for[n], current_leader[n])
    BY <1>2 DEF RoleMatchesVote, RoleAt
  <2>2. /\ voted_for' = [voted_for EXCEPT ![n] = voted_for[n]]
        /\ current_leader' = [current_leader EXCEPT ![n] = current_leader[n]]
    BY <1>2 DEF IndInv, StateTypeOK, ElectionTypeOK
  <2> QED
    BY <1>2, <2>1, <2>2, RoleChanges
<1>3. ASSUME NEW n \in Node, SendHeartbeats(n) PROVE RoleMatchesVote'
  BY <1>2, <1>3 DEF SendHeartbeats, Heartbeats
<1>4. ASSUME NEW n \in Node, NEW group \in Topologies, ChangeGroup(n, group)
      PROVE  RoleMatchesVote'
  BY <1>1, <1>2, <1>4 DEF ChangeGroup
<1>5. ASSUME NEW n \in Node, NEW b \in Block, GenerateBlock(n, b) \/ InsertEntry(n, b)
      PROVE  RoleMatchesVote'
  BY <1>1, <1>5 DEF GenerateBlock, InsertEntry, electionVars
<1>6. CASE StopApplication \/ UNCHANGED vars
  BY <1>1, <1>6 DEF StopApplication, vars, electionVars
<1> QED
  BY <1>3, <1>4, <1>5, <1>6, TimeoutRoles, PacketRoles DEF Next, OtherEvent

\* A node that leads or stands has its own vote, and a leader takes itself for the
\* leader, in every network: no packet and no change of group takes one of the
\* three away and leaves the others.
THEOREM RolesMatchVotes == Spec => []RoleMatchesVote
<1>1. Init => RoleMatchesVote
  BY DEF Init, RoleMatchesVote
<1>2. IndInv /\ RoleMatchesVote /\ [Next]_vars => RoleMatchesVote'
  BY ConstantsAssumption, StepRoles
<1> QED
  BY <1>1, <1>2, Invariance, PTL DEF Spec
-----------------------------------------------------------------------------
(* What packets claim.                                                     *)

\* The packet m claims no more than its sender has committed according to c.
Claim(m, c) ==
  /\ m.msg_type \in {"APPEND_ENTRY", "APPEND_ENTRY_CONF"} => m.leader_commit <= c[m.src]
  /\ m.msg_type \in {"ACK_VOTE", "ACK_ENTRY"} => m.commit_index <= c[m.src]

\* Commit indexes only grow, so that the packets that stay in the network are
\* true if they were.
LEMMA ClaimsStay ==
  ASSUME IndInv, IndInv', LogStep, NoClaimBeyondCommit,
         \A m \in msgs' \ msgs : Claim(m, commit_index')
  PROVE  NoClaimBeyondCommit'
<1> SUFFICES ASSUME NEW m \in msgs' PROVE Claim(m, commit_index')
  BY DEF NoClaimBeyondCommit, Claim
<1>1. CASE m \notin msgs
  BY <1>1
<1>2. CASE m \in msgs
  <2>1. m \in Message /\ m.src \in Node
    BY <1>2, MessageType DEF IndInv, StateTypeOK
  <2>2. /\ commit_index[m.src] \in Int /\ commit_index'[m.src] \in Int
        /\ commit_index[m.src] <= commit_index'[m.src]
    BY <2>1, AtNode DEF LogStep, IndInv, StateTypeOK, LogTypeOK
  <2>3. /\ m.msg_type \in {"APPEND_ENTRY", "APPEND_ENTRY_CONF"} => m.leader_commit \in Int
        /\ m.msg_type \in {"ACK_VOTE", "ACK_ENTRY"} => m.commit_index \in Int
    BY <2>1, MessageType DEF AppendEntry, AppendOf, AckVote, AckEntry
  <2> QED
    BY <1>2, <2>2, <2>3 DEF NoClaimBeyondCommit, Claim
<1> QED
  BY <1>1, <1>2

LEMMA AppendsClaim ==
  ASSUME IndInv, IndInv', LogStep, NEW n \in Node, NEW term, NEW group, NEW next,
         NEW match, NEW m \in HeartbeatRound(n, term, group, next, match).packets
  PROVE  Claim(m, commit_index')
<1>1. PICK p, l, commit, now : m = AppendEntriesTo(n, p, term, l, commit, now)
  BY DEF HeartbeatRound
<1>2. /\ m.src = n /\ m.leader_commit = commit_index[n]
      /\ m.msg_type \in {"APPEND_ENTRY", "APPEND_ENTRY_CONF"}
  BY <1>1 DEF AppendEntriesTo
<1>3. commit_index[n] <= commit_index'[n]
  BY AtNode DEF LogStep
<1> QED
  BY <1>2, <1>3 DEF Claim

LEMMA RequestsClaimNothing ==
  ASSUME NEW n, NEW term, NEW group, NEW m \in VoteRequests(n, term, group), NEW c
  PROVE  Claim(m, c)
<1>1. m.msg_type = "REQ_VOTE"
  BY DEF VoteRequests
<1> QED
  BY <1>1 DEF Claim

\* The answer to a request for a vote or to an append, as the sender then is.
LEMMA AnswersClaim ==
  ASSUME IndInv, IndInv', LogStep, NEW n \in Node, NEW m, NEW term, NEW success,
         NEW last, NEW commit \in Int, commit <= commit_index'[n]
  PROVE  /\ Claim(VoteAnswer(n, m, term, success), commit_index')
         /\ Claim(EntryAnswer(n, m, commit, last, success), commit_index')
<1>1. commit_index[n] <= commit_index'[n]
  BY AtNode DEF LogStep
<1> QED
  BY <1>1 DEF Claim, VoteAnswer, EntryAnswer

LEMMA NewPackets ==
  /\ \A left, packets : Transmit(left, packets) => msgs' \subseteq left \cup packets
  /\ \A m, r : Reply(m, r) => msgs' \subseteq msgs \cup {r}
  /\ \A m : Receive(m) => msgs' \subseteq msgs
BY DEF Reply, Receive, ReceiveAndSend, Transmit

LEMMA PacketClaims ==
  ASSUME IndInv, IndInv', LogStep, NEW m \in msgs, ReceivePacket(m)
  PROVE  \A r \in msgs' \ msgs : Claim(r, commit_index')
<1> DEFINE n == m.dst
<1>1. n \in Node
  BY MessageType DEF IndInv, StateTypeOK
<1> HIDE DEF n
<1>2. /\ commit_index[n] \in Int /\ commit_index'[n] \in Int
      /\ commit_index[n] <= commit_index'[n]
  BY <1>1, AtNode DEF LogStep, IndInv, StateTypeOK, LogTypeOK
<1>3. CASE Receive(m)
  BY <1>3, NewPackets
<1>4. CASE \E term, granted : Reply(m, VoteAnswer(n, m, term, granted))
  BY <1>1, <1>2, <1>4, NewPackets, AnswersClaim
<1>5. CASE \E term, group, next, match :
             ReceiveAndSend(m, HeartbeatRound(n, term, group, next, match).packets)
  BY <1>1, <1>5, NewPackets, AppendsClaim DEF ReceiveAndSend
<1>6. CASE \E commit \in Int : \E last, success :
             /\ commit <= commit_index'[n]
             /\ Reply(m, EntryAnswer(n, m, commit, last, success))
  BY <1>1, <1>6, NewPackets, AnswersClaim
<1>7. CASE ProcessRequestVote(n, m)
  BY <1>4, <1>7 DEF ProcessRequestVote
<1>8. CASE ProcessVoteResponse(n, m)
  BY <1>3, <1>5, <1>8 DEF ProcessVoteResponse
<1>9. CASE ProcessAppendEntries(n, m)
  <2>1. PICK term, state : RejectEntries(n, m, term) \/ AcceptEntries(n, m, term, state)
    BY <1>9 DEF ProcessAppendEntries
  <2>2. CASE RejectEntries(n, m, term)
    BY <1>2, <1>6, <2>2 DEF RejectEntries
  <2>3. CASE AcceptEntries(n, m, term, state)
    <3>1. PICK commit, last :
            /\ commit_index' = [commit_index EXCEPT ![n] = commit]
            /\ Reply(m, EntryAnswer(n, m, commit, last, TRUE))
      BY <2>3 DEF AcceptEntries
    <3>2. commit_index'[n] = commit
      BY <1>1, <3>1 DEF IndInv, StateTypeOK, LogTypeOK
    <3>3. commit \in Int /\ commit <= commit_index'[n]
      BY <1>2, <3>2
    <3>4. Reply(m, EntryAnswer(n, m, commit, last, TRUE))
      BY <3>1
    <3> QED
      BY <1>6, <3>3, <3>4
  <2> QED
    BY <2>1, <2>2, <2>3
<1>10. CASE ProcessEntriesAck(n, m) \/ DropForeign(n, m)
  BY <1>3, <1>10 DEF ProcessEntriesAck, DropForeign
<1> QED
  BY <1>7, <1>8, <1>9, <1>10 DEF ReceivePacket, n

LEMMA StepClaims ==
  ASSUME ConstantsAssumption, IndInv, NoClaimBeyondCommit, [Next]_vars
  PROVE  NoClaimBeyondCommit'
<1>1. IndInv' /\ LogStep
  BY StepOK
<1>2. ASSUME UNCHANGED msgs PROVE NoClaimBeyondCommit'
  BY <1>1, <1>2, ClaimsStay
<1>3. ASSUME NEW n \in Node, SendHeartbeats(n) PROVE NoClaimBeyondCommit'
  BY <1>1, <1>3, NewPackets, AppendsClaim, ClaimsStay DEF SendHeartbeats, Send
<1>4. ASSUME NEW n \in Node, TriggerElectionTimeout(n) PROVE NoClaimBeyondCommit'
  <2>1. CASE ElectionTimeoutAfterVote(n)
    BY <1>2, <2>1 DEF ElectionTimeoutAfterVote
  <2>2. CASE StandForElection(n)
    <3>1. PICK term, group, next, match :
            LET round == HeartbeatRound(n, term, group, next, match)
                requests == VoteRequests(n, term, group)
            IN  Send(requests) \/ Send(requests \cup round.packets)
      BY <2>2 DEF StandForElection
    <3> QED
      BY <1>1, <3>1, NewPackets, AppendsClaim, RequestsClaimNothing, ClaimsStay DEF Send
  <2> QED
    BY <1>4, <2>1, <2>2 DEF TriggerElectionTimeout
<1>5. ASSUME NEW m \in msgs, ReceivePacket(m) PROVE NoClaimBeyondCommit'
  BY <1>1, <1>5, PacketClaims, ClaimsStay
<1>6. ASSUME NEW n \in Node, NEW group \in Topologies, ChangeGroup(n, group)
      PROVE  NoClaimBeyondCommit'
  BY <1>2, <1>6 DEF ChangeGroup
<1>7. ASSUME NEW n \in Node, NEW b \in Block, GenerateBlock(n, b) \/ InsertEntry(n, b)
      PROVE  NoClaimBeyondCommit'
  BY <1>2, <1>7 DEF GenerateBlock, InsertEntry
<1>8. CASE StopApplication \/ UNCHANGED vars
  BY <1>2, <1>8 DEF StopApplication, vars
<1> QED
  BY <1>3, <1>4, <1>5, <1>6, <1>7, <1>8 DEF Next, OtherEvent

\* What a packet says of commitment was true when it was sent and stays true,
\* however late it arrives: a commit index learnt from one is never too high.
THEOREM ClaimsStayTrue == Spec => []NoClaimBeyondCommit
<1>1. Init => NoClaimBeyondCommit
  BY DEF Init, NoClaimBeyondCommit
<1>2. IndInv /\ NoClaimBeyondCommit /\ [Next]_vars => NoClaimBeyondCommit'
  BY ConstantsAssumption, StepClaims
<1> QED
  BY <1>1, <1>2, Invariance, PTL DEF Spec
-----------------------------------------------------------------------------
(* Entries, pending groups and identifiers.                                *)

\* The hashes a node can resolve, and the pending groups it can apply.
Resolves(pool, known) == pool \cup DOMAIN known \cup {NoHash}
PendingOver(ids) == {p \in [id : ids, members : SUBSET Node] : IsIdOf(p.id, p.members)}
Names(known) == \A id \in DOMAIN known : IsIdOf(id, known[id])

ResolvedAt(l, pool, known, pending) ==
  /\ l \in Seq(EntriesOver(Resolves(pool, known)))
  /\ pending \in Seq(PendingOver(DOMAIN known))
  /\ Names(known)

\* The invariant: at every node the log and the pending groups are resolved, and
\* a group that is registered or on its way has its own identifier.
Resolved ==
  /\ \A n \in Node : ResolvedAt(log[n], blockpool[n], groups[n], pending_groups[n])
  /\ \A m \in msgs : m.msg_type = "APPEND_ENTRY_CONF" => IsIdOf(m.hash, m.members)

LEMMA SeqMonotone ==
  ASSUME NEW S, NEW T, S \subseteq T, NEW s \in Seq(S)
  PROVE  s \in Seq(T)
OBVIOUS

\* A node that learns more resolves what it resolved.
LEMMA ResolvesMore ==
  ASSUME NEW l, NEW pool, NEW known, NEW pool2, NEW known2,
         pool \subseteq pool2, DOMAIN known \subseteq DOMAIN known2
  PROVE  /\ l \in Seq(EntriesOver(Resolves(pool, known))) =>
              l \in Seq(EntriesOver(Resolves(pool2, known2)))
         /\ l \in Seq(PendingOver(DOMAIN known)) =>
              l \in Seq(PendingOver(DOMAIN known2))
<1>1. EntriesOver(Resolves(pool, known)) \subseteq EntriesOver(Resolves(pool2, known2))
  BY DEF EntriesOver, Resolves
<1>2. PendingOver(DOMAIN known) \subseteq PendingOver(DOMAIN known2)
  BY DEF PendingOver
<1> QED
  BY <1>1, <1>2, SeqMonotone

\* Only the lists of n change.
LEMMA ResolvedChanges ==
  ASSUME IndInv, Resolved, NEW n \in Node, NEW l, NEW pool, NEW known, NEW pending,
         \A p \in Node : /\ log'[p] = IF p = n THEN l ELSE log[p]
                         /\ blockpool'[p] = IF p = n THEN pool ELSE blockpool[p]
                         /\ groups'[p] = IF p = n THEN known ELSE groups[p]
                         /\ pending_groups'[p] = IF p = n THEN pending
                                                          ELSE pending_groups[p],
         ResolvedAt(l, pool, known, pending),
         \A m \in msgs' \ msgs :
           m.msg_type = "APPEND_ENTRY_CONF" => IsIdOf(m.hash, m.members)
  PROVE  Resolved'
<1>1. ASSUME NEW p \in Node
      PROVE  ResolvedAt(log'[p], blockpool'[p], groups'[p], pending_groups'[p])
  BY DEF Resolved
<1> QED
  BY <1>1 DEF Resolved

LEMMA ResolvedStays ==
  ASSUME Resolved, UNCHANGED <<log, blockpool, groups, pending_groups>>,
         \A m \in msgs' \ msgs :
           m.msg_type = "APPEND_ENTRY_CONF" => IsIdOf(m.hash, m.members)
  PROVE  Resolved'
BY DEF Resolved, ResolvedAt

\* What a leader sends of a configuration is what it has registered.
LEMMA AppendsNamed ==
  ASSUME Resolved, NEW n \in Node, NEW term, NEW group, NEW next, NEW match,
         NEW m \in HeartbeatRound(n, term, group, next, match).packets,
         m.msg_type = "APPEND_ENTRY_CONF"
  PROVE  IsIdOf(m.hash, m.members)
<1>1. PICK p, l, commit, now : m = AppendEntriesTo(n, p, term, l, commit, now)
  BY DEF HeartbeatRound
<1> DEFINE confIndex == LastCommitConfIndex(l, commit, groups[n])
           next_index == IF now[p] > confIndex THEN now[p] ELSE confIndex + 1
           entry == GetEntry(l, next_index)
           isBlock == entry.hash \in blockpool[n]
           isConf == ~ isBlock /\ IsConf(groups[n], entry)
<1>2. /\ m.msg_type = IF isConf THEN "APPEND_ENTRY_CONF" ELSE "APPEND_ENTRY"
      /\ m.hash = IF isBlock \/ isConf THEN entry.hash ELSE NoHash
      /\ m.members = IF isConf THEN groups[n][entry.hash] ELSE {}
  BY <1>1 DEF AppendEntriesTo
<1> HIDE DEF entry, isBlock
<1>3. isConf /\ m.hash = entry.hash /\ m.members = groups[n][entry.hash]
  BY <1>2
<1> QED
  BY <1>3 DEF IsConf, Resolved, ResolvedAt, Names

\* A configuration enters the log from the pending groups.
LEMMA HeartbeatsResolved ==
  ASSUME IndInv, Resolved, NEW n \in Node, NEW term \in Int, NEW group, NEW next,
         NEW match, Heartbeats(n, HeartbeatRound(n, term, group, next, match)),
         \A m \in msgs' \ msgs :
           m.msg_type = "APPEND_ENTRY_CONF" => IsIdOf(m.hash, m.members)
  PROVE  Resolved'
<1> DEFINE H == Resolves(blockpool[n], groups[n])
           P == PendingOver(DOMAIN groups[n])
           pending == pending_groups[n]
           entry == Entry(term, Head(pending).id)
           round == HeartbeatRound(n, term, group, next, match)
<1>1. ResolvedAt(log[n], blockpool[n], groups[n], pending)
  BY DEF Resolved
<1>2. log[n] \in Seq(EntriesOver(H)) /\ pending \in Seq(P) /\ Names(groups[n])
  BY <1>1 DEF ResolvedAt
<1>3. ASSUME pending # <<>> PROVE Head(pending) \in P /\ Tail(pending) \in Seq(P)
  BY <1>2, <1>3, HeadTailProperties
<1>4. ASSUME pending # <<>> PROVE entry \in EntriesOver(H)
  <2>1. Head(pending).id \in DOMAIN groups[n]
    BY <1>3, <1>4 DEF PendingOver
  <2> QED
    BY <2>1 DEF Entry, EntriesOver, Resolves
<1>5. ASSUME pending # <<>> PROVE Append(log[n], entry) \in Seq(EntriesOver(H))
  BY <1>2, <1>4, <1>5, SMTT(30)
<1>6. /\ \/ round.log = log[n]
         \/ pending # <<>> /\ round.log = Append(log[n], entry)
      /\ \/ round.pending = pending
         \/ pending # <<>> /\ round.pending = Tail(pending)
  BY DEF HeartbeatRound, AddsConfiguration
<1>7. log' = [log EXCEPT ![n] = round.log]
      /\ pending_groups' = [pending_groups EXCEPT ![n] = round.pending]
      /\ UNCHANGED <<blockpool, groups>>
  BY DEF Heartbeats
<1> HIDE DEF round, entry, H, P
<1>8. round.log \in Seq(EntriesOver(H)) /\ round.pending \in Seq(P)
  BY <1>2, <1>3, <1>5, <1>6
<1>9. ResolvedAt(round.log, blockpool[n], groups[n], round.pending)
  BY <1>2, <1>8 DEF ResolvedAt, H, P
<1>10. ASSUME NEW p \in Node
       PROVE  /\ log'[p] = IF p = n THEN round.log ELSE log[p]
              /\ pending_groups'[p] = IF p = n THEN round.pending
                                               ELSE pending_groups[p]
  BY <1>7 DEF IndInv, StateTypeOK, LogTypeOK, GroupTypeOK
<1> QED
  BY <1>7, <1>9, <1>10, ResolvedChanges

\* Trimming and padding a log add nothing that is not resolved: the padding is
\* the last committed configuration, which is in the log, or no hash at all.
LEMMA PreparedResolved ==
  ASSUME IndInv, NEW n \in Node, NEW m \in AppendEntry, NEW term \in Int,
         NEW H, NoHash \in H, log[n] \in Seq(EntriesOver(H))
  PROVE  /\ Trimmed(n, m) \in Seq(EntriesOver(H))
         /\ Prepared(n, m, term) \in Seq(EntriesOver(H))
<1> DEFINE c == commit_index[n]
           t == Trimmed(n, m)
<1>1. c \in -1 .. LastLogIndex(log[n]) /\ c \in Int /\ m.prev_log_index \in Int
  BY AtNode DEF AppendEntry, AppendOf
<1>2. t \in Seq(EntriesOver(H))
  BY <1>1, RemoveUncommittedKeeps DEF Trimmed
<1>3. Keeps(log[n], t, c)
  BY PreparedKeeps
<1> HIDE DEF t
<1>4. c \in -1 .. LastLogIndex(t)
  BY <1>1, <1>2, <1>3, LastLogIndexType DEF Keeps
<1>5. Padded(t, c, groups[n], term, m.prev_log_index) \in Seq(EntriesOver(H))
  BY <1>1, <1>2, <1>4, PaddedKeeps
<1> QED
  BY <1>2, <1>5 DEF Prepared, t

\* The entry of an append comes with its payload: the block goes to the pool, the
\* group is registered.
LEMMA AcceptResolved ==
  ASSUME IndInv, Resolved, NEW n \in Node, NEW m \in AppendEntry, m \in msgs,
         NEW term \in Int, NEW state, AcceptEntries(n, m, term, state)
  PROVE  Resolved'
<1> DEFINE c == commit_index[n]
           before == Prepared(n, m, term)
           isNew == m.prev_log_index = LastLogIndex(before)
           entry == Entry(TermOfEntry(m, isNew, term), m.hash)
           l == IF m.hash = NoHash THEN before
                ELSE PutAfter(before, m.prev_log_index, entry)
           known == IF CarriesConf(m) THEN AssignGroup(groups[n], m.hash, m.members)
                                      ELSE groups[n]
           pool == IF CarriesBlock(m) THEN blockpool[n] \cup {m.hash} ELSE blockpool[n]
           pending == pending_groups'[n]
           H == Resolves(pool, known)
<1>1. ResolvedAt(log[n], blockpool[n], groups[n], pending_groups[n])
  BY DEF Resolved
<1>2. blockpool[n] \subseteq pool /\ DOMAIN groups[n] \subseteq DOMAIN known
  BY DEF AssignGroup
<1>3. log[n] \in Seq(EntriesOver(H)) /\ pending_groups[n] \in Seq(PendingOver(DOMAIN known))
  <2>1. /\ log[n] \in Seq(EntriesOver(Resolves(blockpool[n], groups[n])))
        /\ pending_groups[n] \in Seq(PendingOver(DOMAIN groups[n]))
    BY <1>1 DEF ResolvedAt
  <2> HIDE DEF pool, known
  <2>2. log[n] \in Seq(EntriesOver(H))
    BY <1>2, <2>1, ResolvesMore
  <2>3. pending_groups[n] \in Seq(PendingOver(DOMAIN known))
    BY <1>2, <2>1, ResolvesMore
  <2> QED
    BY <2>2, <2>3
<1>4. Names(known)
  BY <1>1 DEF Names, AssignGroup, CarriesConf, Resolved, ResolvedAt
<1>5. /\ log' = [log EXCEPT ![n] = l]
      /\ groups' = [groups EXCEPT ![n] = known]
      /\ blockpool' = [blockpool EXCEPT ![n] = pool]
      /\ \E drop \in BOOLEAN :
           /\ drop => pending_groups[n] # <<>>
           /\ pending_groups' = [pending_groups EXCEPT
                                   ![n] = IF drop THEN Tail(@) ELSE @]
  <2> DEFINE last == LastLogIndex(l)
             commit == IF ~ m.leader_commit > c THEN c
                       ELSE IF m.leader_commit < last THEN m.leader_commit ELSE last
             drop == /\ m.leader_commit > c
                     /\ pending_groups[n] # <<>>
                     /\ Head(pending_groups[n]).id = GetCurrentGroup(l, commit, known)
  <2>1. /\ log' = [log EXCEPT ![n] = l]
        /\ groups' = [groups EXCEPT ![n] = known]
        /\ blockpool' = [blockpool EXCEPT ![n] = pool]
        /\ pending_groups' = [pending_groups EXCEPT ![n] = IF drop THEN Tail(@) ELSE @]
    BY DEF AcceptEntries, IndInv, StateTypeOK, GroupTypeOK
  <2>2. drop \in BOOLEAN /\ (drop => pending_groups[n] # <<>>)
    OBVIOUS
  <2> HIDE DEF drop
  <2> QED
    BY <2>1, <2>2
<1>6. \A r \in msgs' \ msgs :
        r.msg_type = "APPEND_ENTRY_CONF" => IsIdOf(r.hash, r.members)
  <2>1. PICK commit, last : Reply(m, EntryAnswer(n, m, commit, last, TRUE))
    BY DEF AcceptEntries
  <2> QED
    BY <2>1, NewPackets DEF EntryAnswer
<1>7. /\ m.prev_log_index \in Int /\ m.entry_term \in Int
      /\ m.hash # NoHash => CarriesBlock(m) \/ CarriesConf(m)
  BY DEF AppendEntry, AppendOf, CarriesBlock, CarriesConf
<1>8. m.hash # NoHash => m.hash \in H
  BY <1>7 DEF Resolves, AssignGroup
<1>9. /\ ~ ModifiesCommitted(m, c)
      /\ m.hash # NoHash => ~ LeavesGap(before, m.prev_log_index)
  BY DEF AcceptEntries
<1>10. NoHash \in H
  BY DEF Resolves
<1> HIDE DEF H
<1>11. before \in Seq(EntriesOver(H)) /\ Keeps(log[n], before, c)
  BY <1>3, <1>10, PreparedResolved, PreparedKeeps
<1>12. m.hash # NoHash => entry \in EntriesOver(H)
  BY <1>7, <1>8 DEF Entry, EntriesOver, TermOfEntry
<1> HIDE DEF before, entry
<1>13. l \in Seq(EntriesOver(H))
  <2>1. LastLogIndex(before) \in Int /\ c \in Int /\ c >= -1 /\ c <= LastLogIndex(before)
    BY <1>11, AtNode, LastLogIndexType DEF Keeps
  <2>2. CASE m.hash # NoHash
    <3>1. /\ m.prev_log_index \in c .. LastLogIndex(before)
          /\ c \in -1 .. LastLogIndex(before)
      BY <1>7, <1>9, <2>1, <2>2 DEF ModifiesCommitted, LeavesGap
    <3> QED
      BY <1>11, <1>12, <2>2, <3>1, PutAfterKeeps
  <2> QED
    BY <1>11, <2>2
<1>14. pending \in Seq(PendingOver(DOMAIN known))
  <2>1. pending_groups[n] # <<>> => Tail(pending_groups[n]) \in Seq(PendingOver(DOMAIN known))
    BY <1>3, HeadTailProperties
  <2>2. pending \in {pending_groups[n]} \/ (/\ pending_groups[n] # <<>>
                                           /\ pending = Tail(pending_groups[n]))
    BY <1>5 DEF IndInv, StateTypeOK, GroupTypeOK
  <2> QED
    BY <1>3, <2>1, <2>2
<1> HIDE DEF l, pool, known
<1>15. ResolvedAt(l, pool, known, pending)
  BY <1>4, <1>13, <1>14 DEF ResolvedAt, H
<1>16. ASSUME NEW p \in Node
       PROVE  /\ log'[p] = IF p = n THEN l ELSE log[p]
              /\ blockpool'[p] = IF p = n THEN pool ELSE blockpool[p]
              /\ groups'[p] = IF p = n THEN known ELSE groups[p]
              /\ pending_groups'[p] = IF p = n THEN pending ELSE pending_groups[p]
  BY <1>5 DEF IndInv, StateTypeOK, LogTypeOK, GroupTypeOK
<1> HIDE DEF pending
<1> QED
  BY <1>6, <1>15, <1>16, ResolvedChanges

\* Only the log of n changes, and to one that is resolved.
LEMMA LogResolved ==
  ASSUME IndInv, Resolved, NEW n \in Node, NEW l, log' = [log EXCEPT ![n] = l],
         l \in Seq(EntriesOver(Resolves(blockpool[n], groups[n]))),
         UNCHANGED <<blockpool, groups, pending_groups>>,
         \A m \in msgs' \ msgs :
           m.msg_type = "APPEND_ENTRY_CONF" => IsIdOf(m.hash, m.members)
  PROVE  Resolved'
<1>1. ResolvedAt(l, blockpool[n], groups[n], pending_groups[n])
  BY DEF Resolved, ResolvedAt
<1>2. \A p \in Node : log'[p] = IF p = n THEN l ELSE log[p]
  BY DEF IndInv, StateTypeOK, LogTypeOK
<1> QED
  BY <1>1, <1>2, ResolvedChanges

LEMMA PacketResolved ==
  ASSUME IndInv, Resolved, NEW m \in msgs, ReceivePacket(m)
  PROVE  Resolved'
<1> DEFINE n == m.dst
           H == Resolves(blockpool[n], groups[n])
           named == \A r \in msgs' \ msgs :
                      r.msg_type = "APPEND_ENTRY_CONF" => IsIdOf(r.hash, r.members)
<1>1. n \in Node
  BY MessageType DEF IndInv, StateTypeOK
<1>2. /\ log[n] \in Seq(EntriesOver(H)) /\ NoHash \in H
      /\ RemoveUncommittedEntries(log[n], commit_index[n]) \in Seq(EntriesOver(H))
  <2>1. log[n] \in Seq(EntriesOver(H))
    BY <1>1 DEF Resolved, ResolvedAt
  <2>2. NoHash \in H
    BY DEF Resolves
  <2> HIDE DEF H
  <2> QED
    BY <1>1, <2>1, <2>2, AtNode, RemoveUncommittedKeeps
<1>3. Receive(m) => named
  BY NewPackets
<1>4. ASSUME NEW r, Reply(m, r), r.msg_type # "APPEND_ENTRY_CONF" PROVE named
  BY <1>4, NewPackets
<1> HIDE DEF n, H
<1>5. ASSUME log' = [log EXCEPT ![n] = RemoveUncommittedEntries(@, commit_index[n])],
             UNCHANGED <<blockpool, groups, pending_groups>>, named
      PROVE  Resolved'
  BY <1>1, <1>2, <1>5, LogResolved DEF H
<1>6. CASE ProcessRequestVote(n, m)
  <2>1. PICK term, granted : Reply(m, VoteAnswer(n, m, term, granted))
    BY <1>6 DEF ProcessRequestVote
  <2>2. named
    BY <1>4, <2>1 DEF VoteAnswer
  <2> QED
    BY <1>6, <2>2, ResolvedStays DEF ProcessRequestVote, logVars, groupVars
<1>7. CASE ProcessVoteResponse(n, m)
  <2>1. CASE Receive(m) /\ UNCHANGED <<logVars, groupVars>>
    BY <1>3, <2>1, ResolvedStays DEF logVars, groupVars
  <2>2. CASE /\ Receive(m)
             /\ log' = [log EXCEPT ![n] = RemoveUncommittedEntries(@, commit_index[n])]
             /\ UNCHANGED <<blockpool, groupVars>>
    BY <1>3, <1>5, <2>2 DEF groupVars
  <2>3. CASE LET round == HeartbeatRound(n, current_term[n], current_group[n],
                                         FirstNext(n), FirstMatch)
             IN  Heartbeats(n, round) /\ ReceiveAndSend(m, round.packets)
    <3>1. current_term[n] \in Int
      BY <1>1 DEF IndInv, StateTypeOK, ElectionTypeOK
    <3>2. named
      BY <1>1, <2>3, NewPackets, AppendsNamed DEF ReceiveAndSend
    <3> QED
      BY <1>1, <2>3, <3>1, <3>2, HeartbeatsResolved
  <2> QED
    BY <1>7, <2>1, <2>2, <2>3 DEF ProcessVoteResponse
<1>8. CASE ProcessAppendEntries(n, m)
  <2>1. m \in AppendEntry /\ m.term \in Int
    BY <1>8, MessageType DEF ProcessAppendEntries, IndInv, StateTypeOK
  <2>2. PICK term \in Int : \E state :
          RejectEntries(n, m, term) \/ AcceptEntries(n, m, term, state)
    BY <1>1, <1>8, <2>1 DEF ProcessAppendEntries, IndInv, StateTypeOK, ElectionTypeOK
  <2>3. CASE RejectEntries(n, m, term)
    <3>1. named
      BY <1>4, <2>3 DEF RejectEntries, EntryAnswer
    <3>2. PICK l \in {log[n], Trimmed(n, m), Prepared(n, m, term)} :
            log' = [log EXCEPT ![n] = l]
      BY <2>3 DEF RejectEntries
    <3>3. l \in Seq(EntriesOver(H))
      BY <1>1, <1>2, <2>1, <3>2, PreparedResolved
    <3>4. UNCHANGED <<blockpool, groups, pending_groups>>
      BY <2>3 DEF RejectEntries, groupVars
    <3> QED
      BY <1>1, <3>1, <3>2, <3>3, <3>4, LogResolved DEF H
  <2> QED
    BY <1>1, <2>1, <2>2, <2>3, AcceptResolved
<1>9. CASE ProcessEntriesAck(n, m)
  <2>1. named /\ UNCHANGED groupVars
    BY <1>3, <1>9 DEF ProcessEntriesAck
  <2>2. CASE UNCHANGED <<log, blockpool>>
    BY <2>1, <2>2, ResolvedStays DEF groupVars
  <2>3. CASE StepDown(n, m)
    BY <1>5, <2>1, <2>3 DEF StepDown, groupVars
  <2> QED
    BY <1>9, <2>2, <2>3 DEF ProcessEntriesAck, RecordAck, logVars
<1>10. CASE DropForeign(n, m)
  BY <1>3, <1>10, ResolvedStays DEF DropForeign, logVars, groupVars
<1> QED
  BY <1>6, <1>7, <1>8, <1>9, <1>10 DEF ReceivePacket, n

\* Both steps of a change are registered before they are pending.
LEMMA ChangeGroupResolved ==
  ASSUME ConstantsAssumption, IndInv, Resolved, NEW n \in Node, NEW group \in Topologies,
         ChangeGroup(n, group)
  PROVE  Resolved'
<1> DEFINE common == group \cap current_group[n]
           target == [id |-> GroupIdOf(group), members |-> group]
           step == [id |-> SplitIdOf(common), members |-> common]
           sequence == MakeGroupChangeSequence(current_group[n], group)
           first == InsertGroup(groups[n], sequence[1].id, sequence[1].members)
           known == IF Len(sequence) = 1 THEN first
                    ELSE InsertGroup(first, sequence[2].id, sequence[2].members)
<1>1. UNCHANGED <<log, blockpool, msgs>>
  BY DEF ChangeGroup, logVars
<1>2. CASE UNCHANGED groupVars
  BY <1>1, <1>2, ResolvedStays DEF groupVars
<1>3. CASE /\ pending_groups' = [pending_groups EXCEPT ![n] = sequence]
           /\ groups' = [groups EXCEPT ![n] = known]
  <2>1. target.members \in SUBSET Node /\ step.members \in SUBSET Node
    BY DEF ConstantsAssumption
  <2>2. IsIdOf(target.id, target.members) /\ IsIdOf(step.id, step.members)
    BY DEF IsIdOf
  <2>3. sequence = <<target>> \/ sequence = <<step, target>>
    BY DEF MakeGroupChangeSequence
  <2>4. ResolvedAt(log[n], blockpool[n], groups[n], pending_groups[n])
    BY DEF Resolved
  <2> HIDE DEF sequence, target, step
  <2>5. /\ DOMAIN groups[n] \subseteq DOMAIN known
        /\ Names(known)
        /\ sequence \in Seq(PendingOver(DOMAIN known))
    <3>1. CASE sequence = <<target>>
      <4>1. known = InsertGroup(groups[n], target.id, target.members)
        BY <3>1
      <4>2. /\ DOMAIN known = DOMAIN groups[n] \cup {target.id}
            /\ \A id \in DOMAIN known :
                 known[id] = IF id \in DOMAIN groups[n] THEN groups[n][id]
                                                        ELSE target.members
        BY <4>1 DEF InsertGroup
      <4> HIDE DEF known
      <4>3. Names(known)
        BY <2>2, <2>4, <4>2 DEF Names, ResolvedAt
      <4>4. target \in PendingOver(DOMAIN known)
        BY <2>1, <2>2, <4>2 DEF PendingOver, target
      <4> QED
        BY <3>1, <4>2, <4>3, <4>4
    <3>2. CASE sequence = <<step, target>>
      <4>1. known = InsertGroup(InsertGroup(groups[n], step.id, step.members),
                                target.id, target.members)
        BY <3>2
      <4>2. /\ DOMAIN known = DOMAIN groups[n] \cup {step.id, target.id}
            /\ \A id \in DOMAIN known :
                 known[id] = IF id \in DOMAIN groups[n] THEN groups[n][id]
                             ELSE IF id = step.id THEN step.members ELSE target.members
        BY <4>1, ZenonT(60) DEF InsertGroup
      <4> HIDE DEF known
      <4>3. Names(known)
        BY <2>2, <2>4, <4>2 DEF Names, ResolvedAt
      <4>4. step \in PendingOver(DOMAIN known) /\ target \in PendingOver(DOMAIN known)
        BY <2>1, <2>2, <4>2 DEF PendingOver, target, step
      <4> QED
        BY <3>2, <4>2, <4>3, <4>4
    <3> QED
      BY <2>3, <3>1, <3>2
  <2> HIDE DEF known
  <2>6. log[n] \in Seq(EntriesOver(Resolves(blockpool[n], groups[n])))
    BY <2>4 DEF ResolvedAt
  <2>7. log[n] \in Seq(EntriesOver(Resolves(blockpool[n], known)))
    BY <2>5, <2>6, ResolvesMore
  <2>8. ResolvedAt(log[n], blockpool[n], known, sequence)
    BY <2>5, <2>7 DEF ResolvedAt
  <2>9. ASSUME NEW p \in Node
        PROVE  /\ groups'[p] = IF p = n THEN known ELSE groups[p]
               /\ pending_groups'[p] = IF p = n THEN sequence ELSE pending_groups[p]
    BY <1>3 DEF IndInv, StateTypeOK, GroupTypeOK
  <2> QED
    BY <1>1, <2>8, <2>9, ResolvedChanges
<1> QED
  BY <1>2, <1>3 DEF ChangeGroup

LEMMA InsertEntryResolved ==
  ASSUME IndInv, Resolved, NEW n \in Node, NEW b \in Block, InsertEntry(n, b)
  PROVE  Resolved'
<1> DEFINE pool == blockpool[n] \cup {b}
           H == Resolves(pool, groups[n])
           l == Append(log[n], Entry(-1, b))
<1>1. ResolvedAt(log[n], blockpool[n], groups[n], pending_groups[n])
  BY DEF Resolved
<1>2. log[n] \in Seq(EntriesOver(Resolves(blockpool[n], groups[n])))
  BY <1>1 DEF ResolvedAt
<1>3. log[n] \in Seq(EntriesOver(H))
  BY <1>2, ResolvesMore
<1>4. Entry(-1, b) \in EntriesOver(H)
  BY DEF Entry, EntriesOver, Resolves
<1> HIDE DEF H
<1>5. l \in Seq(EntriesOver(H))
  BY <1>3, <1>4
<1>6. ResolvedAt(l, pool, groups[n], pending_groups[n])
  BY <1>1, <1>5 DEF ResolvedAt, H
<1>7. /\ log' = [log EXCEPT ![n] = l] /\ blockpool' = [blockpool EXCEPT ![n] = pool]
      /\ UNCHANGED <<groups, pending_groups, msgs>>
  BY DEF InsertEntry, groupVars
<1> HIDE DEF l, pool
<1>8. ASSUME NEW p \in Node
      PROVE  /\ log'[p] = IF p = n THEN l ELSE log[p]
             /\ blockpool'[p] = IF p = n THEN pool ELSE blockpool[p]
  BY <1>7 DEF IndInv, StateTypeOK, LogTypeOK
<1> QED
  BY <1>6, <1>7, <1>8, ResolvedChanges

LEMMA InitResolved ==
  ASSUME Init
  PROVE  Resolved
<1> SUFFICES ASSUME NEW n \in Node
             PROVE  ResolvedAt(log[n], blockpool[n], groups[n], pending_groups[n])
  BY DEF Init, Resolved
<1>1. log[n] = <<>> /\ pending_groups[n] = <<>> /\ groups[n] = [id \in {} |-> {}]
  BY DEF Init
<1>2. \A S : <<>> \in Seq(S)
  OBVIOUS
<1> QED
  BY <1>1, <1>2 DEF ResolvedAt, Names

LEMMA StepResolved ==
  ASSUME ConstantsAssumption, IndInv, Resolved, [Next]_vars
  PROVE  Resolved'
<1> DEFINE named == \A r \in msgs' \ msgs :
                      r.msg_type = "APPEND_ENTRY_CONF" => IsIdOf(r.hash, r.members)
<1>1. ASSUME UNCHANGED <<logVars, groupVars, msgs>> PROVE Resolved'
  BY <1>1, ResolvedStays DEF logVars, groupVars
<1>2. ASSUME NEW n \in Node, SendHeartbeats(n) PROVE Resolved'
  <2>1. current_term[n] \in Int
    BY DEF IndInv, StateTypeOK, ElectionTypeOK
  <2>2. named
    BY <1>2, NewPackets, AppendsNamed DEF SendHeartbeats, Send
  <2> QED
    BY <1>2, <2>1, <2>2, HeartbeatsResolved DEF SendHeartbeats
<1>3. ASSUME NEW n \in Node, StandForElection(n) PROVE Resolved'
  <2>1. current_term[n] \in Int /\ current_term[n] + 1 \in Int
    BY DEF IndInv, StateTypeOK, ElectionTypeOK
  <2>2. PICK term \in Int : \E group :
          LET round == HeartbeatRound(n, term, group, FirstNext(n), FirstMatch)
              requests == VoteRequests(n, term, group)
          IN  \/ Send(requests) /\ UNCHANGED <<logVars, pending_groups, groups>>
              \/ Heartbeats(n, round) /\ Send(requests \cup round.packets)
    BY <1>3, <2>1 DEF StandForElection
  <2>3. named
    BY <2>2, NewPackets, AppendsNamed DEF Send, VoteRequests
  <2> QED
    BY <2>2, <2>3, HeartbeatsResolved, ResolvedStays DEF logVars
<1>4. ASSUME NEW n \in Node, TriggerElectionTimeout(n) PROVE Resolved'
  BY <1>1, <1>3, <1>4 DEF TriggerElectionTimeout, ElectionTimeoutAfterVote
<1>5. ASSUME NEW n \in Node, NEW b \in Block, GenerateBlock(n, b) PROVE Resolved'
  BY <1>1, <1>5 DEF GenerateBlock
<1>6. CASE StopApplication \/ UNCHANGED vars
  BY <1>1, <1>6 DEF StopApplication, vars
<1> QED
  BY <1>2, <1>4, <1>5, <1>6, PacketResolved, ChangeGroupResolved, InsertEntryResolved
     DEF Next, OtherEvent

\* Logs, pools, registered and pending groups agree at every node, in every network.
THEOREM ResolvedHolds == Spec => []Resolved
<1>1. Init => Resolved
  BY InitResolved
<1>2. IndInv /\ Resolved /\ [Next]_vars => Resolved'
  BY ConstantsAssumption, StepResolved
<1> QED
  BY <1>1, <1>2, Invariance, PTL DEF Spec

\* A leader always has a payload to send for an entry of its log, whatever changes
\* of group cut, padded or replaced its log before.
THEOREM EntriesStayResolvable == Spec => []EntriesResolvable
<1>1. Resolved => EntriesResolvable
  <2> SUFFICES ASSUME Resolved, NEW n \in Node, NEW i \in DOMAIN log[n]
               PROVE  log[n][i].hash \in blockpool[n] \cup DOMAIN groups[n] \cup {NoHash}
    BY DEF EntriesResolvable
  <2>1. log[n] \in Seq(EntriesOver(Resolves(blockpool[n], groups[n])))
    BY DEF Resolved, ResolvedAt
  <2>2. log[n][i] \in EntriesOver(Resolves(blockpool[n], groups[n]))
    BY <2>1
  <2> QED
    BY <2>2 DEF EntriesOver, Resolves
<1> QED
  BY <1>1, ResolvedHolds, PTL

\* What a node applies as a pending group is one with the identifier of the group the
\* mobility module reported (b4mesh-oracle.cc, ApplyGroup), although identifiers may
\* collide and are first come first served.
THEOREM PendingStaysRegistered == Spec => []PendingRegistered
<1>1. IndInv /\ Resolved => PendingRegistered
  <2> SUFFICES ASSUME IndInv, Resolved, NEW n \in Node,
                      NEW i \in DOMAIN pending_groups[n]
               PROVE  /\ pending_groups[n][i].id \in DOMAIN groups[n]
                      /\ IsIdOf(pending_groups[n][i].id, pending_groups[n][i].members)
                      /\ IsIdOf(pending_groups[n][i].id,
                                groups[n][pending_groups[n][i].id])
    BY DEF PendingRegistered
  <2> DEFINE p == pending_groups[n][i]
  <2>1. p \in PendingOver(DOMAIN groups[n])
    BY DEF Resolved, ResolvedAt
  <2>2. p.id \in DOMAIN groups[n] /\ IsIdOf(p.id, p.members)
    BY <2>1 DEF PendingOver
  <2>3. IsIdOf(p.id, groups[n][p.id])
    BY <2>2 DEF Resolved, ResolvedAt, Names, IndInv, StateTypeOK, GroupTypeOK
  <2> QED
    BY <2>2, <2>3
<1> QED
  BY <1>1, Invariance, ResolvedHolds, PTL
=============================================================================
