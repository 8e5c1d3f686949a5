---------------------------- MODULE B4MeshNetwork ----------------------------
(***************************************************************************)
(* The B4Mesh modules of all nodes and the packets between them            *)
(* (b4mesh.cc): the exchange of transactions, blocks, tips and branches.   *)
(*                                                                         *)
(* The network is taken up when the mobility modules have notified a merge *)
(* and the groups are about to be confirmed, or some time after one.  All  *)
(* nodes are in reach of each other and keep running; packets may be lost  *)
(* and overtake each other.  The consensus is what it looks like from here: *)
(* a block handed to it is committed, and then handed to each node of its  *)
(* group some time later or, by a packet that is lost, never; or the block *)
(* is dropped.                                                             *)
(***************************************************************************)
EXTENDS Blockgraph

CONSTANTS
  Node,
  Genesis,          \* the block every blockgraph starts with
  Txn,              \* transactions, numbers in the order of their hashes
  InitialNetworks,  \* states of a network to start from
  LossyTypes,       \* types of packets that may be lost
  MaxBlocks,        \* bound: no block is made beyond so many
  MaxFaults         \* bound: packets that are lost and blocks that are dropped

Nobody == -1      \* an address that is that of no node; packets to it stay unread

\* A group is its own identifier; this one stands for no group, and for "0".
NoGroup == {}

BlockType ==
  [leader : Node, group : SUBSET Node, merge : BOOLEAN,
   parents : SUBSET Hash, txns : SUBSET Txn,
   answers : Seq([hash : Hash, node : Node])]

\* An initial network: the blocks made, those each node has, the group it is
\* in, the groups it was in, the group it was notified of, the nodes that will
\* be elected, and the transactions each node is going to make.
NetworkType(d) ==
  [dag : {d}, blocks : [Node -> SUBSET DOMAIN d], group : [Node -> SUBSET Node],
   groupId_register : [Node -> SUBSET SUBSET Node], notified : [Node -> SUBSET Node],
   candidates : SUBSET Node, todo : [Node -> SUBSET Txn]]

ASSUME NetworkConstants ==
  /\ IsFiniteSet(Node) /\ IsFiniteSet(Hash) /\ Genesis \in Hash
  /\ Txn \subseteq Nat /\ IsFiniteSet(Txn)
  /\ MaxBlocks \in Nat /\ MaxFaults \in Nat
  /\ \A i \in InitialNetworks :
       /\ i \in NetworkType(i.dag)
       /\ DOMAIN i.dag \subseteq Hash
       /\ \A h \in DOMAIN i.dag :
            /\ i.dag[h] \in BlockType
            /\ i.dag[h].answers = <<>>
            /\ \A p \in i.dag[h].parents : \E n \in Node : p \in i.blocks[n]
       /\ \A n \in Node :
            /\ Genesis \in i.blocks[n]
            /\ \A b \in i.blocks[n] : i.dag[b].parents \subseteq i.blocks[n]

VARIABLES
  st,               \* the record of Blockgraph of each node
  group, previous_group, groupId_register,
  notified,         \* the group UpdateTopologyInfo is scheduled with
  startMerge,       \* a merge is to be started
  leaders,          \* nodes whose oracle says IsLeader()
  candidates,       \* bound: nodes that may become leader, once
  polls,            \* pending calls of StartMerge
  timers,           \* pending calls of timer_childless_fct
  syncs,            \* pending calls of SendBranchRequest
  todo,             \* transactions each node is going to make
  old,              \* transactions older than RETRANSMISSION_TIMER
  pool,             \* blocks in the hands of the consensus
  packets,          \* packets under way
  faults            \* packets lost and blocks dropped

groupVars == <<group, previous_group, groupId_register, notified>>
mergeVars == <<startMerge, polls, timers, leaders, candidates>>
txnVars == <<todo, old>>
netVars == <<packets, faults>>
vars == <<dag, st, groupVars, mergeVars, syncs, txnVars, pool, netVars>>

Lists(blocks) ==
  [blocks |-> blocks, waiting |-> {}, missing |-> {}, childless |-> {},
   recover |-> {}, mempool |-> {}, lastLeader |-> -1, createBlock |-> TRUE]

Init ==
  \E i \in InitialNetworks :
    /\ dag = i.dag
    /\ st = [n \in Node |-> Lists(i.blocks[n])]
    /\ group = i.group
    /\ previous_group = [n \in Node |-> NoGroup]
    /\ groupId_register = i.groupId_register
    /\ notified = i.notified
    /\ startMerge = [n \in Node |-> FALSE]
    /\ leaders = {} /\ candidates = i.candidates
    /\ polls = [n \in Node |-> 0] /\ timers = [n \in Node |-> 0]
    /\ syncs = [n \in Node |-> 0]
    /\ todo = i.todo /\ old = Txn \ UNION {i.todo[n] : n \in Node}
    /\ pool = {} /\ packets = {}
    /\ faults = 0

-----------------------------------------------------------------------------
(* Packets.                                                                *)

\* The packets `rest` stay under way and those of `sent` join them, or are lost.
Transmit(rest, sent) ==
  \E lost \in SUBSET {p \in sent : p.type \in LossyTypes} :
    /\ faults' = faults + Cardinality(lost)
    /\ faults' <= MaxFaults
    /\ packets' = rest \cup (sent \ lost)

\* Faulty variant: the group before the last change is told.
BroadcastToOldGroup(n, txns) ==
  {[type |-> "TRANSACTION", to |-> m, txn |-> t] : m \in previous_group[n] \ {n}, t \in txns}

\* The group of a node is told of a transaction.
Broadcast(n, txns) ==
  {[type |-> "TRANSACTION", to |-> m, txn |-> t] : m \in group[n] \ {n}, t \in txns}

Block(to, b) == [type |-> "BLOCK", to |-> to, hash |-> b]

-----------------------------------------------------------------------------
(* Transactions.                                                           *)

TransactionsTreatment(s, t) ==
  IF t \in s.mempool \/ IsTxInBG(s.blocks, t) THEN s
  ELSE [s EXCEPT !.mempool = @ \cup {t}]

\* RegisterTransaction; BroadcastTransaction follows in the same millisecond, as
\* the delay of less than one is rounded down.
GenerateTransaction(n, t) ==
  /\ t \in todo[n]
  /\ todo' = [todo EXCEPT ![n] = @ \ {t}]
  /\ st' = [st EXCEPT ![n] = TransactionsTreatment(@, t)]
  /\ Transmit(packets, Broadcast(n, {t}))
  /\ UNCHANGED <<dag, groupVars, mergeVars, syncs, old, pool>>

\* A minute has passed since the transaction was made.
Age(t) ==
  /\ t \notin old
  /\ \A n \in Node : t \notin todo[n]
  /\ old' = old \cup {t}
  /\ UNCHANGED <<dag, st, groupVars, mergeVars, syncs, todo, pool, netVars>>

ReceiveTransaction(n, t) ==
  LET p == [type |-> "TRANSACTION", to |-> n, txn |-> t]
  IN  /\ p \in packets
      /\ packets' = packets \ {p}
      /\ st' = [st EXCEPT ![n] = TransactionsTreatment(@, t)]
      /\ UNCHANGED <<dag, groupVars, mergeVars, syncs, txnVars, pool, faults>>

-----------------------------------------------------------------------------
(* Blocks.                                                                 *)

\* BlockTreatment of a block from another node or from the consensus; a merge
\* block that is new schedules SendBranchRequest.
ReceiveBlock(n, b) ==
  \E p \in packets :
    /\ p.type \in {"BLOCK", "RECV_BLOCK"} /\ p.to = n /\ p.hash = b
    /\ packets' = packets \ {p}
    /\ st' = [st EXCEPT ![n] = BlockTreatment(@, b)]
    /\ syncs' = IF dag[b].merge /\ b \notin st[n].blocks \cup st[n].waiting
                THEN [syncs EXCEPT ![n] = @ + 1] ELSE syncs
    /\ UNCHANGED <<dag, groupVars, mergeVars, txnVars, pool, faults>>

\* peers[-1], before there is a leader, is read as whatever is there: the address
\* of some node, or of none.
GetIpAddressFromId(id) == IF id \in Node THEN {id} ELSE Node \cup {Nobody}

\* Faulty variant: only the leader of the last block is asked.
AskLastLeader(n, leader) ==
  {[type |-> "REQUEST_BLOCK", from |-> n, to |-> leader, hash |-> h] :
     h \in MissingHashes(st[n]) \ st[n].waiting}

\* Each missing block is asked of the node noted with it and of `leader`, the node
\* taken for the leader of the last block.
Ask4MissingBlocks(n, leader) ==
  LET wanted == {e \in st[n].missing : e.hash \notin st[n].waiting}
      Request(to, h) == [type |-> "REQUEST_BLOCK", from |-> n, to |-> to, hash |-> h]
  IN  {Request(e.node, e.hash) : e \in wanted} \cup {Request(leader, e.hash) : e \in wanted}

\* Faulty variant: transactions are sent again while they are young.
RetransmitYoung(n) ==
  Broadcast(n, {t \in st[n].mempool : \A u \in st[n].mempool : u <= t => u \notin old})

\* The mempool is gone through in the order of hashes, up to the first
\* transaction that is young.
RetransmitTransactions(n) ==
  Broadcast(n, {t \in st[n].mempool : \A u \in st[n].mempool : u <= t => u \in old})

\* Bound: a round starts when the requests of the last one were answered or lost;
\* rounds are five seconds apart, and packets take milliseconds.
RoundOver(n) ==
  \A p \in packets :
    /\ p.type = "TRANSACTION" => p.to = n
    /\ p.type = "BLOCK" => p.to # n
    /\ p.type \in {"REQUEST_BLOCK", "GROUPBRANCH_REQ"} => p.from # n \/ p.to = Nobody

RecurrentTasks(n) ==
  /\ RoundOver(n)
  /\ \E leader \in GetIpAddressFromId(st[n].lastLeader) :
       Transmit(packets, Ask4MissingBlocks(n, leader) \cup RetransmitTransactions(n))
  /\ UNCHANGED <<dag, st, groupVars, mergeVars, syncs, txnVars, pool>>

\* A request for a block is answered if the node has it.
SendBlockTo(n, b) ==
  \E p \in packets :
    /\ p.type = "REQUEST_BLOCK" /\ p.to = n /\ p.hash = b
    /\ Transmit(packets \ {p}, {Block(p.from, b) : h \in {b} \cap st[n].blocks})
    /\ UNCHANGED <<dag, st, groupVars, mergeVars, syncs, txnVars, pool>>

-----------------------------------------------------------------------------
(* Making blocks, and the consensus.                                       *)

GetNewNodes(n) == (group[n] \ previous_group[n]) \ {n}
GetNodesFromOldGroup(n) == group[n] \cap previous_group[n]

\* Bound: room is kept for the block of each pending timer.
PendingTimers == {n \in Node : timers[n] > 0}
RoomForBlock == Cardinality(DOMAIN dag) + Cardinality(PendingTimers) < MaxBlocks

\* The block goes to the consensus.
GenerateBlocks(n, s, mergeBlock) ==
  /\ \/ /\ mergeBlock \/ JoinsTips(s)
        /\ NewBlock(GenerateMergeBlock(s, n, group[n], GetNodesFromOldGroup(n)))
        /\ st' = [st EXCEPT ![n] = s]
     \/ /\ ~ mergeBlock /\ ~ JoinsTips(s)
        /\ \E txns \in SelectTransactions(s) :
             /\ NewBlock(GenerateRegularBlock(s, n, group[n], groupId_register[n], txns))
             /\ st' = [st EXCEPT ![n] = [s EXCEPT !.mempool = @ \ txns]]
  /\ pool' = pool \cup (DOMAIN dag' \ DOMAIN dag)

\* A leader makes a block when its mempool is large enough for one.
TestBlockCreation(n) ==
  /\ n \in leaders
  /\ st[n].createBlock
  /\ st[n].mempool # {}
  /\ RoomForBlock
  /\ GenerateBlocks(n, st[n], FALSE)
  /\ UNCHANGED <<groupVars, mergeVars, syncs, txnVars, netVars>>

\* IndicateBlockCommit at the nodes of the group of the block.
Commit(b) ==
  /\ b \in pool
  /\ pool' = pool \ {b}
  /\ Transmit(packets, {[type |-> "RECV_BLOCK", to |-> n, hash |-> b] : n \in dag[b].group})
  /\ UNCHANGED <<dag, st, groupVars, mergeVars, syncs, txnVars>>

\* A block that is not committed may disappear with its leader.
DropBlock(b) ==
  /\ b \in pool
  /\ faults < MaxFaults
  /\ pool' = pool \ {b}
  /\ faults' = faults + 1
  /\ UNCHANGED <<dag, st, groupVars, mergeVars, syncs, txnVars, packets>>

-----------------------------------------------------------------------------
(* Merges: the new leader and the nodes that are new to it.                *)

\* The group that was notified is confirmed; the change to it was a merge.
UpdateTopologyInfo(n) ==
  /\ notified[n] # group[n]
  /\ group' = [group EXCEPT ![n] = notified[n]]
  /\ previous_group' = [previous_group EXCEPT ![n] = group[n]]
  /\ groupId_register' = [groupId_register EXCEPT ![n] = @ \cup {notified[n]}]
  /\ startMerge' = [startMerge EXCEPT ![n] = TRUE]
  /\ st' = [st EXCEPT ![n] = [@ EXCEPT !.recover = {}]]
  /\ UNCHANGED <<dag, notified, polls, timers, leaders, candidates, syncs, txnVars,
                 pool, netVars>>

\* Ask4ChildlessHashes, with a timer of six seconds.
Ask4ChildlessHashes(n) ==
  /\ Transmit(packets, {[type |-> "CHILDLESSBLOCK_REQ", from |-> n, to |-> m] :
                          m \in GetNewNodes(n)})
  /\ timers' = [timers EXCEPT ![n] = @ + 1]

\* StartMerge at a leader, with `left` other calls pending.
StartMerge(n, left) ==
  \/ /\ startMerge[n]
     /\ RoomForBlock
     /\ st' = [st EXCEPT ![n] = [@ EXCEPT !.createBlock = FALSE]]
     /\ Ask4ChildlessHashes(n)
     /\ startMerge' = [startMerge EXCEPT ![n] = FALSE]
     /\ polls' = [polls EXCEPT ![n] = left]
  \/ /\ ~ startMerge[n]
     /\ polls' = [polls EXCEPT ![n] = left + 1]
     /\ UNCHANGED <<st, startMerge, timers, netVars>>

\* A call of StartMerge at a node that leads no more is the last one.
ScheduledStartMerge(n) ==
  /\ polls[n] > 0
  /\ \/ n \in leaders /\ StartMerge(n, polls[n] - 1)
     \/ /\ n \notin leaders
        /\ polls' = [polls EXCEPT ![n] = @ - 1]
        /\ UNCHANGED <<st, startMerge, timers, netVars>>
  /\ UNCHANGED <<dag, groupVars, leaders, candidates, syncs, txnVars, pool>>

\* HaveNewLeader, at a node that others elected, in the group its oracle was
\* notified of; other leaders may not know yet.
BecomeLeader(n) ==
  /\ n \in candidates
  /\ candidates' = candidates \ {n}
  /\ Cardinality(notified[n]) > 1
  /\ leaders' \in {{n}, leaders \cup {n}}
  /\ StartMerge(n, polls[n])
  /\ UNCHANGED <<dag, groupVars, syncs, txnVars, pool>>

\* Faulty variant: the answer goes to the leader of the last block.
SendChildlessToLeader(n) ==
  \E p \in packets :
    /\ p.type = "CHILDLESSBLOCK_REQ" /\ p.to = n
    /\ Transmit(packets \ {p},
                {[type |-> "CHILDLESSBLOCK_REP", from |-> n, to |-> st[n].lastLeader,
                  hashes |-> GetChildlessBlockList(st[n].blocks)]})
    /\ UNCHANGED <<dag, st, groupVars, mergeVars, syncs, txnVars, pool>>

\* The node tells a new leader the tips of its blockgraph.
SendChildlessHashes(n) ==
  \E p \in packets :
    /\ p.type = "CHILDLESSBLOCK_REQ" /\ p.to = n
    /\ Transmit(packets \ {p},
                {[type |-> "CHILDLESSBLOCK_REP", from |-> n, to |-> p.from,
                  hashes |-> GetChildlessBlockList(st[n].blocks)]})
    /\ UNCHANGED <<dag, st, groupVars, mergeVars, syncs, txnVars, pool>>

\* CheckMergeBlockCreation: the merge block is made once all have answered.
AllAnswered(n, s) == \A m \in GetNewNodes(n) : \E e \in s.recover : e.node = m

ProcessChildlessResponse(n) ==
  \E p \in packets :
    LET answers == SetToSeq({[hash |-> h, node |-> p.from] : h \in p.hashes})
        s == ChildlessHashTreatment(st[n], answers)
        create == AllAnswered(n, s) /\ ~ s.createBlock
    IN  /\ p.type = "CHILDLESSBLOCK_REP" /\ p.to = n
        /\ packets' = packets \ {p}
        /\ \/ /\ ~ create
              /\ st' = [st EXCEPT ![n] = s]
              /\ UNCHANGED <<dag, pool>>
           \/ create /\ GenerateBlocks(n, [s EXCEPT !.createBlock = TRUE], TRUE)
        /\ UNCHANGED <<groupVars, mergeVars, syncs, txnVars, faults>>

\* Bound: in six seconds the requests and the answers have arrived or are lost.
SixSecondsOver(n) ==
  \A p \in packets :
    /\ p.type = "CHILDLESSBLOCK_REQ" => p.from # n
    /\ p.type = "CHILDLESSBLOCK_REP" => p.to # n

timer_childless_fct(n) ==
  /\ timers[n] > 0
  /\ SixSecondsOver(n)
  /\ timers' = [timers EXCEPT ![n] = @ - 1]
  /\ \/ st[n].createBlock /\ UNCHANGED <<dag, st, pool>>
     \/ /\ ~ st[n].createBlock
        /\ GenerateBlocks(n, [st[n] EXCEPT !.createBlock = TRUE], TRUE)
  /\ UNCHANGED <<groupVars, startMerge, polls, leaders, candidates, syncs, txnVars, netVars>>

-----------------------------------------------------------------------------
(* Merges: the branches that were joined.                                  *)

\* The nodes a branch may be asked of, for each tip that is missing.
Holders(s) == {e \in s.recover : e.hash \in s.childless}

\* Faulty variant: the requests end when there is one for each other node.
RequestsUpToLimit(s) ==
  LET others == Cardinality(Node) - 1
  IN  {sent \in SUBSET Holders(s) :
         \/ sent = Holders(s) /\ Cardinality(sent) <= others
         \/ Cardinality(sent) = others}

\* The requests of SendBranchRequest.  They are counted over all branches, and
\* the one that makes the number of nodes is the last of its branch; those of
\* later branches are not limited, since the count is compared with ==.  The order
\* of the branches is left open.
BranchRequests(s) ==
  {sent \in SUBSET Holders(s) :
     \/ sent = Holders(s) /\ Cardinality(sent) <= Cardinality(Node)
     \/ \E h \in s.childless, before \in SUBSET s.childless :
          LET asked == {e \in sent : e.hash \in before \cup {h}}
          IN  /\ h \notin before
              /\ \A e \in Holders(s) : e.hash # h => e \in sent
              /\ \E e \in asked : e.hash = h
              /\ Cardinality(asked) = Cardinality(Node)}

SendBranchRequest(n) ==
  /\ syncs[n] > 0
  /\ syncs' = [syncs EXCEPT ![n] = @ - 1]
  /\ \E sent \in BranchRequests(st[n]) :
       Transmit(packets, {[type |-> "GROUPBRANCH_REQ", from |-> n, to |-> e.node,
                           hash |-> e.hash] : e \in sent})
  /\ UNCHANGED <<dag, st, groupVars, mergeVars, txnVars, pool>>

\* All blocks of the group that made the tip are sent.  A node without the tip
\* looks for those of the group "0000", which made none.
SendBranch4Sync(n, tip) ==
  \E p \in packets :
    LET branch == IF tip \in st[n].blocks
                  THEN GetBlocksFromGroup(st[n].blocks, dag[tip].group) ELSE {}
    IN  /\ p.type = "GROUPBRANCH_REQ" /\ p.to = n /\ p.hash = tip
        /\ Transmit(packets \ {p}, {Block(p.from, b) : b \in branch})
        /\ UNCHANGED <<dag, st, groupVars, mergeVars, syncs, txnVars, pool>>

-----------------------------------------------------------------------------
Next ==
  \/ \E n \in Node :
       \/ \E t \in Txn : \/ GenerateTransaction(n, t)
                         \/ ReceiveTransaction(n, t)
       \/ \E b \in DOMAIN dag : \/ ReceiveBlock(n, b)
                                \/ SendBlockTo(n, b)
                                \/ SendBranch4Sync(n, b)
       \/ RecurrentTasks(n)
       \/ TestBlockCreation(n)
       \/ UpdateTopologyInfo(n)
       \/ ScheduledStartMerge(n)
       \/ BecomeLeader(n)
       \/ SendChildlessHashes(n)
       \/ ProcessChildlessResponse(n)
       \/ timer_childless_fct(n)
       \/ SendBranchRequest(n)
  \/ \E t \in Txn : Age(t)
  \/ \E b \in pool : Commit(b) \/ DropBlock(b)

Spec == Init /\ [][Next]_vars

\* RecurrentTasks runs again and again, and every packet that is not lost arrives.
\* Transactions need not age: one that stays young stands for all those that are
\* made one after the other as long as the application runs.
Fairness ==
  \A n \in Node :
    /\ WF_vars(RecurrentTasks(n))
    /\ WF_vars(\E b \in DOMAIN dag : ReceiveBlock(n, b))
    /\ WF_vars(\/ \E b \in DOMAIN dag : SendBlockTo(n, b) \/ SendBranch4Sync(n, b)
               \/ \E t \in Txn : ReceiveTransaction(n, t))

FairSpec == Spec /\ Fairness

-----------------------------------------------------------------------------
(* Properties.                                                             *)

Held == UNION {st[n].blocks : n \in Node}

TypeOK ==
  /\ DOMAIN dag \subseteq Hash
  /\ \A h \in DOMAIN dag : dag[h] \in BlockType
  /\ st \in [Node -> [blocks : SUBSET DOMAIN dag, waiting : SUBSET DOMAIN dag,
                      missing : SUBSET [hash : DOMAIN dag, node : Node],
                      childless : SUBSET DOMAIN dag,
                      recover : SUBSET [hash : DOMAIN dag, node : Node],
                      mempool : SUBSET Txn, lastLeader : Node \cup {-1},
                      createBlock : BOOLEAN]]
  /\ group \in [Node -> SUBSET Node] /\ previous_group \in [Node -> SUBSET Node]
  /\ groupId_register \in [Node -> SUBSET SUBSET Node]
  /\ notified \in [Node -> SUBSET Node] /\ startMerge \in [Node -> BOOLEAN]
  /\ leaders \subseteq Node /\ polls \in [Node -> Nat] /\ timers \in [Node -> Nat]
  /\ syncs \in [Node -> Nat] /\ todo \in [Node -> SUBSET Txn]
  /\ old \subseteq Txn /\ pool \subseteq DOMAIN dag
  /\ packets \subseteq
       [type : {"TRANSACTION"}, to : Node, txn : Txn]
       \cup [type : {"BLOCK", "RECV_BLOCK"}, to : Node, hash : DOMAIN dag]
       \cup [type : {"REQUEST_BLOCK"}, from : Node, to : Node \cup {Nobody},
             hash : DOMAIN dag]
       \cup [type : {"GROUPBRANCH_REQ"}, from : Node, to : Node, hash : DOMAIN dag]
       \cup [type : {"CHILDLESSBLOCK_REQ"}, from : Node, to : Node]
       \cup [type : {"CHILDLESSBLOCK_REP"}, from : Node, to : Node,
             hashes : SUBSET DOMAIN dag]
  /\ candidates \subseteq Node /\ faults \in 0 .. MaxFaults

\* No node looks for a block that nobody has: every missing block is in the
\* blockgraph of some node, although tips are named by nodes in answers and in
\* merge blocks, and parents by blocks that are still on their way.
MissingIsHeld == \A n \in Node : MissingHashes(st[n]) \subseteq Held

\* A transaction that was made is not forgotten by all nodes: it is under
\* way, in a mempool, or in a block that is somewhere.  A block
\* that the consensus drops took its transactions out of one mempool only.
IsKept(t) ==
  \/ \E n \in Node : t \in todo[n] \cup st[n].mempool
  \/ \E p \in packets : p.type = "TRANSACTION" /\ p.txn = t
  \/ \E p \in packets : p.type \in {"BLOCK", "RECV_BLOCK"} /\ t \in dag[p.hash].txns
  \/ \E b \in Held \cup pool \cup UNION {st[n].waiting : n \in Node} : t \in dag[b].txns

TransactionsKept == \A t \in Txn : IsKept(t)

\* This is so if nodes are in their own groups, tell a transaction to groups of more
\* nodes than there may be faults, and transactions that nobody is going to make are in
\* the blockgraph of some node.
EnoughTold ==
  \A i \in InitialNetworks :
    /\ \A n \in Node :
         /\ n \in i.group[n] /\ n \in i.notified[n]
         /\ i.todo[n] # {} => /\ Cardinality(i.group[n]) > MaxFaults
                              /\ Cardinality(i.notified[n]) > MaxFaults
    /\ \A t \in Txn : \/ \E n \in Node : t \in i.todo[n]
                      \/ \E n \in Node : \E b \in i.blocks[n] : t \in i.dag[b].txns

\* Each branch that is missing and that some node is known to have is asked for
\* when SendBranchRequest runs, however many others there are: the count of
\* requests is compared with the limit after a request has been made, and with
\* ==, so that a limit of at least one leaves no branch out.
EveryBranchAsked ==
  [][\A n \in Node : syncs'[n] < syncs[n] /\ faults' = faults =>
       \A e \in Holders(st[n]) : \E p \in packets' :
         p.type = "GROUPBRANCH_REQ" /\ p.from = n /\ p.hash = e.hash]_vars

\* The blocks a merge block joins are recovered, and stay: as long as packets are
\* not lost for ever, the history of each block of a blockgraph gets there.
HistoryRecovered ==
  \A n \in Node : []<>(\A b \in st[n].blocks : dag[b].parents \subseteq st[n].blocks)

\* A transaction does not stay in one mempool without coming to the other nodes
\* of the group, although the packets that announced it were lost; unless young
\* transactions, of which there may always be new ones, keep standing before it in
\* the order of hashes.
Knows(n, t) == t \in st[n].mempool \/ IsTxInBG(st[n].blocks, t)
BehindYoung(n, t) == \E u \in st[n].mempool \ old : u <= t

TransactionsSpread ==
  \A n, m \in Node, t \in Txn :
    []<>(t \in st[n].mempool /\ m \in group[n] => Knows(m, t) \/ BehindYoung(n, t))
=============================================================================
