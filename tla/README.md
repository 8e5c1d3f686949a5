# TLA+ models of the B4Mesh blockgraph

These modules model the protocols of this repository: an ns-3 simulation of a
*blockgraph*, a blockchain for mobile ad hoc networks whose blocks form a
directed acyclic graph. Groups of nodes that lose contact go on making blocks,
each group on a branch of its own, and join the branches with a *merge block*
when they meet again.

File names below are relative to `src/`; `oracle`, `mobility` and `b4mesh` stand
for `b4mesh-oracle.cc`, `b4mesh-mobility.cc` and `b4mesh.cc`.

## 1. The system

Each node runs three ns-3 applications, on one simulator thread. Nothing runs in
parallel inside a node; what interleaves are the simulator's events: packets
received, timers, and calls that were scheduled with a delay.

| Component | Files | State it keeps | Operations |
|---|---|---|---|
| Consensus, "oracle" | `b4mesh-oracle.{cc,h}` | role, term, vote, log of entries, commit index, block pool, next/match indexes, current group, pending groups, registered groups | election timeout, vote request and answer, heartbeat, append and answer, `ChangeGroup`, `InsertEntry`, stop |
| Group management | `b4mesh-mobility.{cc,h}`, part of `b4mesh.cc` | last notified group, time of the last change; at the blockgraph: counter of changes, nature of the last one, confirmed and previous groups | `TableChange`, `CheckGroupChangement`, `ChangeGroup`; `ReceiveNewTopologyInfo`, `UpdateTopologyInfo` five seconds later |
| Blockgraph protocol | `b4mesh.{cc,h}`, `blockgraph.{cc,h}` | blockgraph, waiting list, missing blocks, missing childless hashes, branches to recover, mempool, flags of a merge in process | treatment of blocks and transactions, requests for blocks, tips and branches, making of regular and merge blocks |
| Blocks, transactions, packets | `block.*`, `transaction.*`, `application_packet.*` | none of their own | serialisation |
| Traces | `b4m_traces.*` | files of measurements | written, never read |
| Experiment | `experiment.*`, `main.cc`, `*-helper.*`, `configs.h` | the simulation being set up | sequential construction |
| Utilities | `utils.h` | none | hash and random helpers |

How they interact, within a node unless said otherwise:

    OLSR --TableChange--> mobility --ReceiveNewTopologyInfo--> b4mesh
    mobility --ChangeGroup--> oracle
    oracle --HaveNewLeader, RecvBlock (committed block)--> b4mesh
    b4mesh --IsLeader, InsertEntry (after a delay)--> oracle
    oracle <--UDP: votes, appends, answers--> oracles of other nodes
    b4mesh <--UDP: transactions, requests and answers--> b4mesh of other nodes

What is hard in it:

* *Consensus.* "C4M" looks like Raft and differs in ways that matter: terms go
  down as well as up (a candidate that times out gives its term back), votes are
  granted on the length of logs only, the term of an entry is often -1, logs are
  padded, a group of one commits by itself, and configurations are entries of
  the log applied before or after commitment depending on whether the group
  shrinks or grows. Packets are lost and overtake each other.
* *Groups.* A change is seen by OLSR, filtered by a tolerance time of ten
  seconds, notified, and confirmed five seconds later if no other notification
  came in between. Two modules of one node hold two views of its group.
* *Blocks.* They reach a node by consensus, by requests and by branches, in any
  order and more than once; six lists must agree about each of them. A merge
  suspends the making of blocks and is resumed from three places.

What makes each component correct: a committed entry is never modified, removed
or handed over twice; packets never claim more than is committed; the two views
of the group converge and never confirm a replaced group; the blockgraph is
closed under parents (up to merge blocks), nothing that is missing is forgotten,
no transaction of a block is put in a later block, and the pause of a merge ends.

`PROJECT.json` lists the hazards of the code one by one, each at its line, with
the properties that watch it.

## 2. The modules

| Module | What it models |
|---|---|
| `OracleRules` | functions of the consensus: reading, trimming, padding and extending a log, advancing the commit index, changes of group |
| `B4MeshOracle` | the oracles of all nodes and the packets between them |
| `CommittedLogs` | the abstract specification of the consensus |
| `OracleClaims` | statements of comments that the consensus does not keep |
| `MCOracle` | model values, topologies and symmetry for TLC |
| `B4MeshOracle_proofs` | lemmas about the functions of the consensus; types, commit indexes, committed entries |
| `OracleInvariants_proofs` | roles, packets, entries and pending groups |
| `OraclePromise_proofs` | `B4MeshOracle` implements `CommittedLogs` |
| `OracleAgreement_proofs` | what is handed to the blockgraph; agreement in the first term |
| `GroupManagement` | the mobility module of one node and the confirmation of groups by its blockgraph module |
| `StableGroups` | the abstract specification of group management |
| `MCGroups`, `GroupManagement_proofs` | instances for TLC; theorems |
| `Blockgraph` | functions of the block lists: treating a block, cascades of the waiting list, missing blocks and branches |
| `B4Mesh` | the blockgraph protocol of one node in any environment |
| `GrowingBlockgraph` | the abstract specification of that protocol |
| `B4MeshNetwork` | the blockgraph protocols of all nodes, the packets between them and a consensus reduced to its outcome |
| `MCBlocks`, `MCNetwork` | instances of the two for TLC |
| `Blockgraph_proofs`, `B4Mesh_proofs`, `B4MeshNetwork_proofs` | lemmas about the lists, theorems about one node and about the network |

### 2.1 Consensus: `OracleRules`, `B4MeshOracle`

Every variable carries the name of the member it models, as a function of the
node. An action is one simulator event with everything it calls:

| Action | Code |
|---|---|
| `TriggerElectionTimeout` | the timer of a node that hears no leader: a node that voted forgets its vote; one that did not stands, and is leader at once when its group has no other member |
| `SendHeartbeats` | the timer of a leader: applies a pending split, appends a pending configuration when all is committed, commits alone in a group of one, finishes a reconfiguration, sends to every member |
| `ReceivePacket` | `ReceivePacket`: drops strangers, else `ProcessRequestVote`, `ProcessVoteResponse` (which may elect and send heartbeats), `ProcessAppendEntries`, `ProcessEntriesAck` |
| `ChangeGroup` | the call from the mobility module, with `MakeGroupChangeSequence` |
| `GenerateBlock`, `InsertEntry` | the blockgraph of a leader makes a block; it enters the log later, when the node may have lost the leadership |
| `StopApplication` | the end of the applications; packets are still received, and nothing is sent |

Log positions are those of the code, from 0; entry i is element i + 1 of a
sequence. The identifier of a group and the hash of a block are both "hashes";
as in the code, an entry is a configuration when its hash is registered in
`groups`. Sorted vectors of (node, address) pairs are sets of nodes. The members
`voted_for` and `current_leader`, which no constructor or `SetUp` initialises,
start with any value of `InitialIds`. `delivered` is what the blockgraph of a node
was handed: an item for each entry of the loops that call `IndicateBlockCommit`
(`oracle:972`, `oracle:1072`), which is its block, or `NoHash` if the entry is no
block of the pool and nothing is handed over.

The network is a set of packets: each may be lost as it is sent and they arrive
in any order. The UDP of ns-3 does not duplicate, but identical packets in flight
at once are one element of the set.

`CommittedLogs` says what all this is for, in three variables: the blocks that
were made, the groups that were reported, and the list each node holds as
committed. A step adds one block, or identifiers of groups, or lengthens the
list of one node without a gap by hashes that were made or reported (or by the
empty hash of a padding). Nothing is ever taken away: what was committed stays,
at its place, and each block that was made is in the pool of some oracle: block pools
are never erased, so that a block counts as kept also when every log has been
trimmed of it and nobody will commit it.
`KeepsPromise` is that specification with these sets and lists read off the state
of `B4MeshOracle`; roles, terms, votes, packets, indexes, current and pending
groups disappear. It promises nothing about the lists of two nodes: two leaders
of one term are reachable (section 5), and `FirstTermAgreement` says how far they
agree.

### 2.2 Groups: `GroupManagement`

One node. OLSR is outside the modelled code: its table becomes any set of
`Tables` at any second and is recomputed at any time. Both time constants of the
code are real delays counted in seconds (`Tick`): the tolerance time, and the
five seconds before `UpdateTopologyInfo`. The identifier of a group is the sum
of characters that `CalculeGroupId` computes, with the addresses the experiment
gives, so that collisions are those of the code.

`StableGroups` says what the blockgraph module gets from all this: there is a
current group and the seconds until it is confirmed; each change of it starts the
time again; when the time has passed, and at that second, the group is confirmed
and the one before is remembered. Only a group whose identifier is that of the
confirmed one is passed over. `ConfirmsStableGroups` is that specification, with
the time left to the last of the scheduled calls: tables, tolerance, counters and
calls that were overtaken disappear.

### 2.3 Blocks: `Blockgraph`, `B4Mesh`

`Blockgraph` holds the code that changes the lists of a node, as operators from
one record of lists to the next, because these functions call each other
(`BlockTreatment` to `AddBlocks` to the cascade of `UpdateWaitingList`). `dag`
holds all blocks ever made in the network; a node's blockgraph is a set of their
hashes. `B4Mesh` has the node's events. The rest of the network is an
environment that is wider than the other nodes: any block that exists arrives at
any moment, again and again; leadership comes and goes freely; new nodes that
were asked for their tips answer with the tips of any possible blockgraph, or
never. What this environment leaves out, that other nodes run the same code, is
the subject of `B4MeshNetwork`.

`BecomeLeader` has two branches because a node elected by others calls
`HaveNewLeader` and one alone in its group does not. `timer_childless_fct` asks,
like the code, neither whether the application runs nor whether the node leads.
Answers are handled after `StopApplication` because the code tests
`!recv_sock` there and never closes the socket.

`GrowingBlockgraph` says what all the lists are for. It keeps two variables, the
blocks made in the network and the blockgraph of the node, and two actions:
`Learn` adds any blocks whose parents are there or added with them (merge blocks
excepted), and `Make` makes a merge block that joins every tip the node holds, or
a regular block that extends some of them with transactions none of its blocks
holds. `GrowsAsPromised` is that specification with `dag` and `st.blocks` for its
variables: the waiting and missing lists, merges, leaders, the mempool and the
timers disappear, and every event of `B4Mesh` is one of the two actions or a
stutter.

### 2.4 The network: `B4MeshNetwork`

The same operators of `Blockgraph`, once for each node, and the packets:
`TRANSACTION`, `BLOCK`, `REQUEST_BLOCK`, `CHILDLESSBLOCK_REQ` and `_REP`,
`GROUPBRANCH_REQ`, and `RECV_BLOCK` for the call of that name.

| Action | Code |
|---|---|
| `GenerateTransaction`, `ReceiveTransaction` | `RegisterTransaction`, `BroadcastTransaction`, `TransactionsTreatment` |
| `ReceiveBlock` | `BlockTreatment` of a block from a node or from the consensus; a merge block schedules `SendBranchRequest` |
| `RecurrentTasks` | `Ask4MissingBlocks` and `RetransmitTransactions` |
| `SendBlockTo`, `SendBranch4Sync`, `SendChildlessHashes` | the answers to the three kinds of requests |
| `TestBlockCreation` | a leader makes a block of its mempool |
| `UpdateTopologyInfo` | a merge that was notified is confirmed |
| `BecomeLeader`, `ScheduledStartMerge` | `HaveNewLeader`, `StartMerge`, `Ask4ChildlessHashes` |
| `ProcessChildlessResponse`, `timer_childless_fct` | the two ways a merge block gets made |
| `SendBranchRequest` | requests for the branches, with their limit |
| `Commit`, `DropBlock` | the consensus: a block handed to it is given to the nodes of its group, or disappears |
| `Age` | a minute has passed since a transaction was made |

`BroadcastTransaction` is part of `GenerateTransaction`: its delay, the size of a
transaction over 1000, is less than a millisecond and `MilliSeconds` drops the
fraction. The network is taken up at the moment the code was written for, with a
merge notified to all nodes and not yet confirmed (`Apart`), or with one group
that has a common history (`Together`). From there on nodes are in reach of each
other and keep running. Faults are counted together: each packet of a type in
`LossyTypes` that is lost, and each block the consensus drops, is one, and at
most `MaxFaults` occur. Packets overtake each other freely.

`Ask4MissingBlocks` asks the leader of the last block also before there is one:
`GetIpAddressFromId` then reads `peers[-1]` (`b4mesh:218`, called at 1126 with
`lastLeader` -1), which is undefined behaviour. The outcome is any address: that of
a node, or one of nobody (`Nobody`), to which a request goes unread. The model
leaves the choice open at each round.

## 3. The runs

Bounds are constants that occur in guards: `MaxTerm`, `MaxChanges`, `MaxMsgs`
(consensus), `MaxMoves` (groups), `MaxBlocks`, `MaxChanges`, `MaxElections`
(blocks), `MaxBlocks`, `MaxFaults` and the sets `candidates` and `todo`
(network). Deadlock is not checked: each system comes to rest when its bounds are
reached or its application has stopped.

| Run | Instance | Shows |
|---|---|---|
| `replication` | 3 nodes, 1 block, 1 term, 2 packets in flight, stop | `TypeOK`; `NoClaimBeyondCommit`; `DeliveredIsCommitted` |
| `two_leaders` | 2 nodes, 2 blocks, 2 terms, indeterminate initial votes | `RoleMatchesVote`, `CommitIndexInLog`, `FirstTermAgreement`, `DeliveredOnce`, `CommittedStable`, and the refinement `KeepsPromise` |
| `two_pairs` | 3 nodes, of which 1 leads and is told of the groups {1,2} and {1,3}, in any order, the two having one identifier; 2 terms; election timeouts of `TimelySpec` | `EntriesResolvable`, `PendingRegistered`, and the refinement `KeepsPromise` where groups change |
| `groups` | 3 nodes, any 4 routing tables, the delays of the code | `TypeOK`, `OnlyLastGroupConfirmed`, `SmallChangesWait`, `GroupFollowsTable`, `BlockgraphFollowsGroup`, and the refinement `ConfirmsStableGroups` |
| `blocks` | 3 nodes, 1 transaction, three initial blockgraphs, up to 3 blocks (more only in the largest of the initial ones), 2 changes of group, 2 elections | `TypeOK`, `RegularBlocksComplete`, `WaitedForIsRequested`, `MissingBranchPursued`, `MempoolIsFresh`, `CreationResumes`, and the refinement `GrowsAsPromised` |
| `exchange` | 2 nodes with branches to merge, or with a common history and a transaction each; up to 5 blocks; 1 fault | `TypeOK`, `MissingIsHeld`, `TransactionsKept`, `EveryBranchAsked`, `HistoryRecovered`, `TransactionsSpread` |

*Why these bounds.* Two terms are enough for an old leader's packets, its late
`InsertEntry` and the trimming of its log to meet a new leader; two blocks make
two different entries compete for one position; two packets in flight are enough
for overtaking (a request and an answer, an old append and a new one). Three
nodes in `replication` make a majority differ from everybody. `two_pairs` takes a
leader from one pair to another, a change that is cut in two steps with a group
of one between them; the first change of each node is a split in one step. The two
pairs have the same number of members and, by `CollidingGroupIdOf`, the same
identifier, as groups of the program may. Four tables reach a change, a small change
ignored within the tolerance time, its return, and a last one.
In `blocks` the largest initial blockgraph has two branches, a merge block
that names their tips, and a child of it, so that every kind of wait occurs. The
other two, of the genesis block alone and with a block of another group, leave
room for two blocks, or one, made by the node itself. Two elections start two
merges, also within six seconds of each other, so that the timer of the first
meets the wait of the second.

In `exchange` one node has a branch of one block and the other a branch of two
blocks side by side, so that a leader has one tip to recover and the other node,
on receiving the merge block, two; the one fault falls on the block in the hands
of the consensus or on any packet but a `REQUEST_BLOCK` or a
`CHILDLESSBLOCK_REQ`, whose loss looks like the loss of the answer. With two faults `TransactionsKept`
does not hold, see section 5; `MCNetwork` assumes that the initial networks are
those `TransactionsKept` is about (`EnoughTold`). `RoundOver` and `SixSecondsOver` bound the pace:
the next round of requests, and the end of the wait for tips, come when the
packets of the last one have arrived or are lost, as seconds and milliseconds
make it. `RoomForBlock` keeps the bound on blocks from silencing a timer.

`DeliveredIsCommitted` and `FirstTermAgreement` are about one term on purpose:
what the code loses beyond it is told in section 5.

*Timeliness.* `two_pairs`, and the runs of the claims about the consensus, use
`TimelySpec`: only nodes of `Candidates` start elections, and only when no packet
is in flight (a timeout lasts 8 to 10 seconds, a packet milliseconds). It is a
subset of the behaviours of `Spec`, chosen to reach longer reconfigurations; the
other runs explore timeouts at any moment.

*Fairness.* Safety runs assume none. `groups` assumes that time passes, that a
due `UpdateTopologyInfo` is executed (the simulator runs every scheduled call)
and that OLSR recomputes a table that has routes (it does so with every control
packet it processes, and a node with neighbours goes on hearing them). Nothing is
assumed of an empty table: an isolated node may hear nothing any more, and
`GroupFollowsTable` says nothing of it. `blocks` assumes only that the scheduled `timer_childless_fct` is
executed. `exchange` assumes, at each node, that `RecurrentTasks` reschedules
itself for ever and is executed, that packets which are not lost arrive (their
delivery is an event of the simulator, scheduled when they are sent). Transactions
need not age: one that stays young stands for those the application makes one
after the other, and `TransactionsSpread` excepts a transaction that has a young
one before it in the order of hashes, which it may wait for without end. Nothing is
assumed of answers, elections, commitment or
leaders; of losses, only that there are finitely many.

### Runs that show a disagreement

Each of these checks one statement of a comment, and TLC finds a behaviour of
the code against it. Those about the consensus use `TimelySpec`, so that the
behaviours owe nothing to packets of an unlikely age.

* `claim_match` / `CommittedIsReplicated`. `b4mesh-oracle.h:383` calls a match
  index the highest entry known to be replicated. A new leader sets all of them
  to 0, which stands for entry 0, not for none: the first answer of anybody,
  even a negative one, commits entry 0.
* `claim_unanimity` / `ConfigurationNeedsUnanimity`. `oracle:1046` wants
  unanimity for a configuration. The loop over candidates continues after one
  that is refused; a block after the configuration's successor needs a majority
  only, and committing it commits the configuration below.
* `claim_delivery` / `CommittedIsIndicated`. A leader alone in its group raises
  its commit index in `SendHeartbeats` and never calls `IndicateBlockCommit`, so
  that its blockgraph never receives the block, whose transactions have left the
  mempool.
* `claim_real_change` / `RealChangeConfirmed`. Identifiers are sums of
  characters: {0, 1, 4} and {0, 2, 3} have the same one, and the change from one
  to the other is taken for none.
* `claim_waiting` / `NothingReadyWaits`. `UpdateWaitingList` is called after a
  regular block only. The child of a merge block that arrives before it waits on
  after it has been added, until some regular block is added.
* `claim_recover` / `MissingBranchHasNode`. A second merge clears
  `recover_branch`; a tip of the first one that is still missing has no node
  left to be asked for its branch.

## 4. The proofs

All theorems hold, with the hypotheses named in the tables and no others, for every
value of the constants allowed by the named assumptions (`ConstantsAssumption`, `GroupConstants`, `NoIdIsNone`, `B4MeshConstants`,
`NetworkConstants`): any finite number of nodes (node numbers of one digit in
`GroupManagement`), and any blocks, terms, packets, changes and faults. What the
assumptions ask of the initial blockgraphs and networks is what the runs of the
program make: every block named as a parent is somewhere, and a node that has a
block has its parents. The last is asked of the beginning only; it is not true
later of a merge block, which joins the blockgraph before its branches are recovered.

| Module | Theorem | Property |
|---|---|---|
| `B4MeshOracle_proofs` | `TypesKept` | every state variable of the consensus keeps its type (`StateTypeOK`) |
| | `CommitIndexStaysInLog` | `CommitIndexInLog` |
| | `CommittedNeverChanges` | `CommittedStable` |
| `OracleInvariants_proofs` | `RolesMatchVotes` | `RoleMatchesVote` |
| | `ClaimsStayTrue` | `NoClaimBeyondCommit` |
| | `EntriesStayResolvable` | `EntriesResolvable` |
| | `PendingStaysRegistered` | `PendingRegistered` |
| `OraclePromise_proofs` | `OraclesKeepPromise` | `KeepsPromise`: `B4MeshOracle` implements `CommittedLogs` |
| `OracleAgreement_proofs` | `AllTypesKept` | `TypeOK` of the consensus, the blocks handed over included |
| | `NothingDeliveredTwice` | `DeliveredOnce`, if a block is not taken for a group (`NamesDistinct`) |
| | `FirstTermAgrees` | `FirstTermAgreement`, as long as no node has left the first term or had a change of group (`FirstTerm`) |
| | `CommittedIsDelivered` | `DeliveredIsCommitted`, likewise, if there is not just one node |
| `GroupManagement_proofs` | `GroupTypes` | `TypeOK` |
| | `OnlyLastConfirmed` | `OnlyLastGroupConfirmed` |
| | `OnlyLargeChangesHurry` | `SmallChangesWait` |
| | `GroupsAreStable` | `ConfirmsStableGroups`: `GroupManagement` implements `StableGroups` |
| `B4Mesh_proofs` | `NodeTypes` | `TypeOK` |
| | `BlockgraphComplete` | `RegularBlocksComplete` |
| | `WaitingIsPursued` | `WaitedForIsRequested` |
| | `BranchesPursued` | `MissingBranchPursued` |
| | `MempoolStaysFresh` | `MempoolIsFresh` |
| | `NodeGrowsAsPromised` | `GrowsAsPromised`: `B4Mesh` implements `GrowingBlockgraph` |
| `B4MeshNetwork_proofs` | `NetworkTypes` | `TypeOK` |
| | `MissingBlocksExist` | `MissingIsHeld` |
| | `BranchesAreAsked` | `EveryBranchAsked` |
| | `NoTransactionForgotten` | `TransactionsKept`, if transactions are told to groups of more nodes than there may be faults (`EnoughTold`) |

*Consensus.* The inductive invariant is `StateTypeOK` with `CommitIndexInLog`.
The second needs the first, since trimmed, padded and overwritten logs must be
sequences of entries for their lengths to be known. `CommittedStable` is not
about states: it follows from the invariant at the start of a step, one action at
a time, from the lemmas on what each way of changing a
log keeps (`RemoveUncommittedEntries`, `Padded` and `PutAfter` leave the entries
up to the commit index alone, given the guard `ModifiesCommitted`).

The other properties of the consensus need more of the state. Roles and votes are
followed through the events that change either. A claim in a packet stays true
because commit indexes do not go down, which is `CommittedStable` again. That
entries can be resolved needs to be known of packets and of pending groups too
(`Resolved`): an entry arrives together with what it stands for, and a change of
group is registered before it enters a log. `PendingRegistered` allows for
identifiers that collide, as those the program computes may (`claim_real_change`):
`groups` keeps the first group registered under one, so that what a node applies
for a pending change is a group with the identifier of the group reported. It is
that group itself if no other one has its identifier.

The refinement `KeepsPromise` adds that the payload of an append in flight is
known to its sender, whence nothing a node learns is new to the network. Each
event then makes a block, reports groups, or leaves both alone and changes the
log of one node only, which by `CommittedStable` lengthens a committed list.

*What is handed over.* `DeliveredOnce` is about a list that grows by what each step
commits, and a step may do this after trimming, padding or overwriting the log. That
nothing is repeated in the committed part of one log does not follow from one log: a
block could come back at another position from another node. It does not, because a
block has one position in the whole network (`PlacedOnce`): the one at which
`InsertEntry` put it, when it was in the block pool of its leader and nowhere else.
Every log and every append on its way has it there; heartbeats send entries from
where they are; overwriting puts an entry at the position its packet names. What was
handed over to a node is then in its log, below its commit index, at the position
of its commitment (`HandedOver`), and since commit indexes never go back, by
`CommittedStable`, what is handed over next stands above. The hypothesis
`NamesDistinct` is needed because a configuration may well stand at two positions;
the hashes of the program are numbers of 24 bits and could collide (section 5);
`MCOracle` assumes it of its instances.

*The first term.* Beyond it there is no agreement (section 5), and a change of group
breaks it in the first term too; so the two theorems are about executions that stay in
the first term without a report, and as every one of them may stutter from any
state on, about every beginning of an execution. Then there are no groups but
the network (`Quiet`) and at most one node has been elected: a vote given in the first
term cannot be given again without leaving it, the votes a candidate has counted are
of nodes that voted for it (`VotesOK`), and two majorities have a node in common. With
one leader, every other log is a beginning of its log with the same entries, and
every append carries an entry of it to the position it has there (`LogsOK`).
Nobody is committed beyond the leader, by `NoClaimBeyondCommit`. A network of one
node is an exception to `DeliveredIsCommitted`: it commits what it
inserts in `SendHeartbeats` and hands nothing over (`claim_delivery`).

*Groups.* An update that fires is the one with the current counter only if its
group is the current one: the inductive invariant says that of the
notifications under way, those that carry the current value of the counter carry
the current group, and none carries a larger one. `TypeOK` says that no update
is overdue. It is inductive once updates are known to be due in the order in
which they were scheduled, as the code handles one at a time (`DueInOrder`).
The refinement rests on both, and on the last scheduled call being the only one
with the current counter (`LastIsCurrent`): it is the one whose time is the time
left, and the calls before it are stutters.

*Blocks.* None of the four properties is inductive alone. The invariant adds
that lists hold known blocks only and that the waiting list is complete with
respect to what is missing. The heart is `ReadySupported`: the blocks released by
one cascade are the least set closed under "all parents are there", hence each of
them has all its parents in the blockgraph after the cascade.
The refinement rests on the same invariant: `Complete` and `Known` after a step
make every change of the blockgraph a `Learn`, `Fresh` before a step makes the
transactions of a regular block new, and the hash `NewBlock` chooses is one that
no block has. For `TypeOK` the counters are tied to each other: pending calls of
`StartMerge` to the elections, and the timers with the merge about to start to the
changes of group.

*Network.* `MissingIsHeld` is about several nodes: its invariant says that every hash a node looks for or has
noted (`Seeks`), every parent and every answer of a block (`Founded`) and every
tip named in a packet (`Truthful`) is in the blockgraph of some node. Nothing
leaves a blockgraph, so that each event has to show only that the names it hands
on are such names; a block made by a leader names tips it holds or was told of.
`EveryBranchAsked` rests on the order of the loop: a request is made, counted, and
only then compared with the limit, with `==`, and the jump ends the requests for
one branch. So each branch with a holder has a request, whatever the limit, if it
is at least one. A step without a fault loses no packet, because only finitely many
are sent and a finite set has no proper part of its size.

`TransactionsKept` counts too, over the whole life of a transaction. Its keepers
(`Keepers`) are the nodes that have it, in the mempool or in a block, those to which it
is on its way, and the leader of a block with it that the consensus has. Handing a
transaction from one of these places to the next leaves a node a keeper: a block that
takes it out of a mempool is committed to its own leader too (`LeadersTold`), and what
leaves the mempool or the waiting list is in the blockgraph. A fault takes it from
one node at most (`Spares`). So keepers and faults together never become fewer;
when the transaction is made there are as many as nodes in the group that is told,
lost packets counted. If this is more than all faults (`EnoughTold`, which also says that
nodes are in their own groups and that transactions not to be made are in some initial
blockgraph), a keeper is left. The bound is sharp: in a group of two, two faults
lose a transaction (section 5).

*Model-checked only.* Liveness (`GroupFollowsTable`, `BlockgraphFollowsGroup`,
`CreationResumes`, `HistoryRecovered`, `TransactionsSpread`) is out of this
prover's reach. Every invariant, action property and refinement of the passing runs
is a theorem. The statements of the runs that expect a violation are refuted by TLC.

## 5. What the code does that no run states

Found while modelling; no comment or test says otherwise firmly enough, or the
part is not modelled.

Consensus

* Terms are compared with `>` only (`oracle:546`), and a candidate that times
  out uses its term again: an answer to the earlier candidacy counts in the
  later one, and two leaders of one term are reachable. A vote looks at the
  length of logs only. Agreement beyond the first term therefore does not hold.
* The term that `InsertEntry` gives an entry is the default -1 (`oracle.h:374`),
  not the current term.
* A follower may pad its log with the empty hash (`oracle:876-881`) when no
  configuration is committed; padding after a discontinuity may take the place of
  a block.
* `ChangeGroup` back to the current group returns before clearing the pending
  change (`oracle:1148`, cleared at 1133).
* A pending group is applied with any commitment, from the last committed
  configuration (`oracle:951-956`), which may be one the node is not in.
* A compound change is cut in two steps, and the identifier of the first is made
  of the numbers of its nodes, padded to 32 characters (`oracle:1244-1246`).
  {1, 23} and {1, 2, 3} get the same one, and for more than 32 digits the length
  of the padding, `32 - size`, is negative, hence enormous as a `size_t`, and the
  program ends with an exception. The model knows the first (`SplitIdOf` is any
  function) and not the second: no bound on the number of nodes is assumed.
* After a change of group, or in groups of one, more than one leader of the first
  term is possible without any timeout: agreement within the first term is for
  one group only.

Groups

* `CheckGroupChangement` drops small changes instead of delaying them
  (`b4mesh-mobility.h:99`); only another computation of the table takes them up,
  so that an isolated node, which hears no packet, keeps its old group.
* `lastChange` is that of the last notification (`b4mesh:1214`), also when the
  confirmed change spans several. {0,1} to {0,1,2,3,4} to {0,1,2} within five
  seconds is confirmed as a split, and no merge is started with node 2; {0,1,2} to
  {0} to {0,1} starts a merge although the group shrank.
* The comment of `CalculDiffBtwGroups` (`b4mesh-mobility.h:125`) has its two
  cases the other way round.

Blocks

* `lastLeader` is set before the block is known to be new, and while it is still
  -1 it indexes `peers` (`b4mesh:1126`).
* A block may stay in the missing list after it has begun to wait or has been
  added, through a branch that names it, and is then asked for every five
  seconds (`b4mesh:662`).
* The request counter of `SendBranchRequest` is compared with `==` and shared by
  all branches (`b4mesh:750`), so that it limits one branch at most: the later ones
  are asked of all their holders. Each branch gets a request
  (`EveryBranchAsked`), because the count is compared after a request was made.
* A block is asked of the node that named it, which need not have it: tips are
  handed on in answers and merge blocks by nodes that never had the blocks. The
  leader of the last block is the second choice; `HistoryRecovered` rests on both.
* Two faults lose a transaction: its broadcast and then the block that took it out
  of the only mempool (`b4mesh:1848`). With one fault it is always kept
  (`TransactionsKept`).
* `RetransmitTransactions` goes through the mempool in the order of hashes and
  stops at the first transaction that is younger than a minute, so that old ones
  wait behind young ones; the application makes new ones all the time
  (`b4mesh:465`), and an old transaction with a large hash may never be sent again
  (`TransactionsSpread` excepts it). Its counter `i` is never incremented, so that the limit
  of ten does not exist (`b4mesh:560`).
* `SelectTransactions` limits a block to 54 kB by counting 450 bytes for each
  transaction, hence 120 of them; with their headers they have 482 on the average,
  and the block 58 kB. In the worst case, 631 bytes each, a block is larger than a
  UDP datagram can be.
* `hashing` keeps 24 bits (`utils.h:112`). Among some thousand transactions two
  with one hash are likely, and the second one is dropped as a copy.
* A merge block that joins nothing, or none at all, is possible when two merges
  overlap: the timer of the first ends the wait of the second, and
  `ChildlessHashTreatment` of a recovered tip sets `createBlock` again.
* `lastChange` of `B4Mesh` is not initialised; a regular block may have no
  parents when none of several tips is of a known group.
* A transaction sent again between the making of its block and the arrival of
  that block from the consensus can enter a second block.

## 6. Not modelled

* Traces, statistics and members that are only written (`commit_indexes`,
  `majority`, `last_applied`): they change nothing.
* Serialisation: `Serialize` and the constructors that read bytes are sequential
  functions without state, inverse to each other for what the program sends (the
  header sizes added up by hand are those of the structures). Packets are values.
* Sizes and time stamps: which transactions fit a block is left open, and a full
  mempool is a transaction that does not arrive.
* The hash functions: blocks and transactions have hashes of their own. The
  identifiers of groups, whose collisions matter to the protocol, are computed
  (`CalculeGroupId`).
* Positions and mobility: they only make routing tables change.
* The construction of the experiment. Start times (mobility at 5 s, oracles at
  3 s, b4mesh at 6 s) are used.
* The oracle and the blockgraph of one node in one module. Each has the other as
  an environment that is wider than it: to the oracle, blocks are made and inserted
  at any time by a node that was leader; to the blockgraph, leaders and committed
  blocks come as they please. The product of the two state spaces, each near
  what TLC explores in minutes, is out of reach.
* Nodes of a network that stop, or change their groups more than once, in
  `B4MeshNetwork`: they are in `B4Mesh`, against any environment.

## 7. Plan

Done: the consensus with its packets, the groups of one node and the block lists
of one node, each with the abstract specification it implements; the network of
blockgraphs with losses and an abstract consensus; the proofs of section 4.

What a next step would take up, in this order:

1. *The network and its nodes*: the blockgraph of each node of `B4MeshNetwork`
   implements `GrowingBlockgraph`, as that of `B4Mesh` does.
2. *Agreement within a group*: what of `FirstTermAgrees` survives a change of group
   reported to all the nodes of a group before any of them stands.
3. *Several changes of group* in `B4MeshNetwork`: splits after merges, with blocks
   under way between groups that no longer are in reach.
4. *Sizes*: the limits of blocks, mempools and datagrams.
