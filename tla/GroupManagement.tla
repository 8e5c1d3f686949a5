-------------------------- MODULE GroupManagement --------------------------
(***************************************************************************)
(* The group management system of one node: the mobility module, which     *)
(* turns routing tables into groups (b4mesh-mobility.cc), and the          *)
(* confirmation of a new group by the blockgraph module five seconds later *)
(* (ReceiveNewTopologyInfo and UpdateTopologyInfo of b4mesh.cc).  The OLSR *)
(* routing table is external: it changes to any table of Tables, and each  *)
(* recomputation calls TableChange.                                        *)
(*                                                                         *)
(* Time is counted in whole seconds, which is exact for the tolerance time *)
(* (time_change is a whole number of seconds) and lets an update fall      *)
(* anywhere in the second in which it is due.                              *)
(***************************************************************************)
EXTENDS Integers, Sequences, FiniteSets, FiniteSetsExt

CONSTANTS
  Node,                     \* node numbers, the indexes of the peers
  self,                     \* the node of these two modules
  Tables,                   \* the sets of nodes OLSR may have routes to
  TOPOLOGY_TOLERANCE_TIME,  \* configs.h
  StartTime,                \* when the mobility application starts
  UpdateDelay,              \* the delay of UpdateTopologyInfo
  NoId,                     \* the identifier of no group, a string of zeroes
  Unset,                    \* the indeterminate initial value of lastChange
  MaxMoves,                 \* bound: changes of the routing table
  MayStop                   \* whether the application stops before the end

ASSUME GroupConstants ==
  /\ Node \subseteq 0 .. 9 /\ self \in Node
  /\ Tables \subseteq SUBSET (Node \ {self}) /\ Tables # {}
  /\ TOPOLOGY_TOLERANCE_TIME \in Nat /\ UpdateDelay \in Nat
  /\ StartTime \in 0 .. TOPOLOGY_TOLERANCE_TIME
  /\ MaxMoves \in Nat /\ MayStop \in BOOLEAN

VARIABLES
  table,            \* OLSR: the nodes there is a route to
  moves,            \* changes of the table so far
  running,          \* the mobility application runs
  elapsed,          \* seconds since time_change, at most the tolerance time
  group,            \* mobility module: the group last notified
  change, lastChange,                           \* B4Mesh: last notification
  updates,                                      \* calls of UpdateTopologyInfo
  groupId, groupId_register, b4group, previous_group, startMerge

routingVars == <<table, moves>>
mobilityVars == <<running, elapsed, group>>
noticeVars == <<change, lastChange, updates>>
confirmedVars == <<groupId, groupId_register, b4group, previous_group, startMerge>>
vars == <<routingVars, mobilityVars, noticeVars, confirmedVars>>

Nature == {"NONE", "SPLIT", "MERGE", "ARBITRARY"}

-----------------------------------------------------------------------------
(* The mobility module.                                                    *)

\* The sum of the characters of all node numbers (one digit each) and of the
\* four bytes of their addresses, 10.1.0.(i + 1).
CalculeGroupId(grp) ==
  MapThenSumSet(LAMBDA i : (48 + i) + (10 + 1 + 0 + i + 1), grp)

\* The string of zeroes is no number.
ASSUME NoIdIsNone == \A g \in SUBSET Node : CalculeGroupId(g) # NoId

DetecteNatureChange(oldgroup, newgroup) ==
  LET common == oldgroup \cap newgroup
  IN  IF newgroup = oldgroup     THEN "NONE"
      ELSE IF common = newgroup  THEN "SPLIT"
      ELSE IF common = oldgroup  THEN "MERGE"
      ELSE "ARBITRARY"

\* Faulty variant: one new node is enough whatever the sizes.
AnyNewNode(grp, candidate) ==
  LET diff == Cardinality(grp) - Cardinality(candidate)
  IN  diff \in {-1, 0, 1} => Cardinality(candidate \ grp) >= 1

\* Two nodes of difference in size, or enough new nodes: two of them, one when
\* the group shrinks.
CalculDiffBtwGroups(grp, candidate) ==
  LET diff == Cardinality(grp) - Cardinality(candidate)
      lim == IF diff > 0 THEN 1 ELSE 2
  IN  diff \in {-1, 0, 1} => Cardinality(candidate \ grp) >= lim

\* Faulty variant: an old change is still weighed once the time has passed.
AlwaysWeighed(grp, candidate) == CalculDiffBtwGroups(grp, candidate)

\* Within the tolerance time of the last change only a considerable one counts.
CheckGroupChangement(grp, candidate) ==
  elapsed < TOPOLOGY_TOLERANCE_TIME => CalculDiffBtwGroups(grp, candidate)

\* Faulty variant: a change on its way is replaced, and its time goes on.
ChangeGroupOnTheWay(candidate) ==
  /\ group' = candidate
  /\ elapsed' = 0
  /\ change' = change + 1
  /\ lastChange' = DetecteNatureChange(group, candidate)
  /\ updates' = LET time == IF updates = <<>> THEN UpdateDelay ELSE Head(updates).left
                IN  <<[change |-> change + 1, group |-> candidate, left |-> time]>>

\* ChangeGroup, and ReceiveNewTopologyInfo of B4Mesh which it calls.
ChangeGroup(candidate) ==
  /\ group' = candidate
  /\ elapsed' = 0
  /\ change' = change + 1
  /\ lastChange' = DetecteNatureChange(group, candidate)
  /\ updates' = Append(updates, [change |-> change + 1, group |-> candidate,
                                 left |-> UpdateDelay])

\* Faulty variant: the node forgets itself.
RoutesOnly(routes) == routes

Candidate(routes) == {self} \cup routes

\* The table now holds routes to the nodes of `routes`.
TableChange(routes) ==
  LET candidate == Candidate(routes)
      counts == /\ running
                /\ candidate # group
                /\ CheckGroupChangement(group, candidate)
  IN /\ \/ counts /\ ChangeGroup(candidate)
        \/ ~ counts /\ UNCHANGED <<elapsed, group, noticeVars>>
     /\ UNCHANGED <<running, confirmedVars>>

RoutesChange ==
  /\ moves < MaxMoves
  /\ moves' = moves + 1
  /\ \E routes \in Tables \ {table} : table' = routes /\ TableChange(routes)

\* OLSR computes the same table again.
Recompute == TableChange(table) /\ UNCHANGED routingVars

StopApplication ==
  /\ MayStop
  /\ running
  /\ running' = FALSE
  /\ UNCHANGED <<routingVars, elapsed, group, noticeVars, confirmedVars>>

-----------------------------------------------------------------------------
(* The confirmation of a group by B4Mesh.                                  *)

\* Faulty variant: any notification is confirmed when its time has come.
AnyNotice(u) == TRUE

\* Faulty variant: the counter is compared before it is increased.
OlderNotice(u) == u.change = change - 1

IsLastNotice(u) == u.change = change

UpdateTopologyInfo ==
  /\ updates # <<>>
  /\ Head(updates).left = 0
  /\ updates' = Tail(updates)
  /\ LET u == Head(updates)
         id == CalculeGroupId(u.group)
         confirmed == IsLastNotice(u) /\ id # groupId
     IN \/ ~ confirmed /\ UNCHANGED confirmedVars
        \/ /\ confirmed
           /\ groupId' = id
           /\ groupId_register' = groupId_register \cup {id}
           /\ previous_group' = b4group
           /\ b4group' = u.group
           /\ startMerge' = (startMerge \/ lastChange = "MERGE")
  /\ UNCHANGED <<routingVars, mobilityVars, change, lastChange>>

-----------------------------------------------------------------------------
\* A second passes; what is due in the current one comes first.
Tick ==
  /\ elapsed < TOPOLOGY_TOLERANCE_TIME \/ updates # <<>>
  /\ updates # <<>> => Head(updates).left > 0
  /\ elapsed' = IF elapsed < TOPOLOGY_TOLERANCE_TIME THEN elapsed + 1 ELSE elapsed
  /\ updates' = [i \in DOMAIN updates |-> [updates[i] EXCEPT !.left = @ - 1]]
  /\ UNCHANGED <<routingVars, running, group, change, lastChange, confirmedVars>>

\* The state when the mobility application starts.
Init ==
  /\ table \in Tables
  /\ moves = 0
  /\ running = TRUE
  /\ elapsed = StartTime
  /\ group = {}
  /\ change = 0
  /\ lastChange = Unset
  /\ updates = <<>>
  /\ groupId = NoId
  /\ groupId_register = {}
  /\ b4group = {}
  /\ previous_group = {}
  /\ startMerge = FALSE

Next == RoutesChange \/ Recompute \/ StopApplication \/ UpdateTopologyInfo \/ Tick

Spec == Init /\ [][Next]_vars

\* Time passes and the simulator runs what is due.
TimersFair == WF_vars(Tick) /\ WF_vars(UpdateTopologyInfo)

\* OLSR computes the table again with every packet it receives.  A node with
\* neighbours goes on hearing them; an isolated one may hear nothing any more.
FairSpec == Spec /\ TimersFair /\ WF_vars(table # {} /\ Recompute)

-----------------------------------------------------------------------------
(* Properties.                                                             *)

\* No group yet, or a group the node belongs to.
Groups == {{}} \cup {g \in SUBSET Node : self \in g}

\* The identifiers of those groups.
GroupIds == {CalculeGroupId(g) : g \in Groups}

TypeOK ==
  /\ table \in Tables
  /\ moves \in 0 .. MaxMoves
  /\ running \in BOOLEAN
  /\ elapsed \in 0 .. TOPOLOGY_TOLERANCE_TIME
  /\ group \in Groups
  /\ change \in Nat
  /\ lastChange \in Nature \cup {Unset}
  /\ updates \in Seq([change : Nat, group : Groups, left : 0 .. UpdateDelay])
  /\ groupId \in GroupIds \cup {NoId}
  /\ groupId_register \subseteq GroupIds
  /\ b4group \in Groups
  /\ previous_group \in Groups
  /\ startMerge \in BOOLEAN

\* "Topology not stable yet... waiting for last change": the blockgraph only ever
\* takes up the group the mobility module holds at that moment, never one that
\* was notified earlier and has been replaced while its update was on its way.
OnlyLastGroupConfirmed == [][b4group' # b4group => b4group' = group]_vars

\* Within the tolerance time of a change, the group only changes again when two
\* nodes or more come or go, so that one node at the edge of the network does not
\* drive the consensus into a reconfiguration every few seconds.
SmallChangesWait ==
  [][group' # group /\ elapsed < TOPOLOGY_TOLERANCE_TIME =>
       Cardinality((group \ group') \cup (group' \ group)) >= 2]_vars

\* What the two modules are for: tables, tolerance, counters and scheduled calls
\* disappear, and the blockgraph module is left with groups that were stable for
\* the time the code means to wait, each confirmed at the second it has to be.
TimeLeft == IF updates = <<>> THEN 0 ELSE updates[Len(updates)].left
Stable == INSTANCE StableGroups
            WITH Groups <- Groups, NoGroup <- {}, Delay <- UpdateDelay,
                 Id <- [g \in Groups |-> CalculeGroupId(g)],
                 current <- group, open <- updates # <<>>, left <- TimeLeft,
                 confirmed <- b4group, previous <- previous_group
ConfirmsStableGroups == Stable!Spec

\* Once the routing table of a node with neighbours has stopped changing, the
\* mobility module ends up with the group of that table: a change ignored within
\* the tolerance time is taken up when the time has passed.  It says nothing of an
\* isolated node, whose last change may have been ignored and not be looked at again.
GroupFollowsTable == <>[](running /\ table # {} => group = Candidate(table))

\* Once the mobility module has settled, the blockgraph module ends up with the
\* same group, although every notification that is overtaken is dropped.
BlockgraphFollowsGroup == <>[](b4group = group)

-----------------------------------------------------------------------------
(* What comments say and the code does not do.                             *)

\* b4mesh.cc, UpdateTopologyInfo: "If it really is a topology change, update
\* groupId, ... update previous and current groups".  The last notified group is
\* taken up when its time has come if it differs from the current one.
RealChangeConfirmed ==
  [][UpdateTopologyInfo /\ IsLastNotice(Head(updates))
       => b4group' = Head(updates).group]_vars
=============================================================================
