----------------------- MODULE GroupManagement_proofs -----------------------
(***************************************************************************)
(* Proofs, for every network, every delay and every tolerance time, that   *)
(* the blockgraph module only confirms the group the mobility module holds *)
(* and that a group is not left again at once for a small change.          *)
(***************************************************************************)
EXTENDS GroupManagement, FiniteSetTheorems, TLAPS

\* A scheduled update carries the number and the group of a notification that
\* was made; the one with the last number carries the current group.
Notices ==
  \A i \in DOMAIN updates :
    /\ updates[i].change <= change
    /\ updates[i].change = change => updates[i].group = group

NoticeType == [change : Nat, group : Groups, left : Int]

UpdatesOK ==
  /\ change \in Nat
  /\ group \in Groups
  /\ table \in Tables
  /\ updates \in Seq(NoticeType)

IndInv == UpdatesOK /\ Notices

LEMMA InitHolds == Init => IndInv
BY GroupConstants DEF Init, IndInv, UpdatesOK, Notices, Groups

\* A notification takes a new number, so that it is the only one with the last.
LEMMA TableChangeKeeps ==
  ASSUME IndInv, NEW routes \in Tables, TableChange(routes)
  PROVE  change' \in Nat /\ group' \in Groups /\ updates' \in Seq(NoticeType) /\ Notices'
<1> DEFINE candidate == Candidate(routes)
<1>1. CASE UNCHANGED <<elapsed, group, noticeVars>>
  BY <1>1 DEF noticeVars, IndInv, UpdatesOK, Notices
<1>2. CASE ChangeGroup(candidate)
  <2> DEFINE new == [change |-> change + 1, group |-> candidate, left |-> UpdateDelay]
  <2>1. candidate \in Groups
    BY GroupConstants DEF Groups, Candidate
  <2>2. new \in NoticeType
    BY <2>1, GroupConstants DEF NoticeType, IndInv, UpdatesOK
  <2>3. updates' = Append(updates, new) /\ change' = change + 1 /\ group' = candidate
    BY <1>2 DEF ChangeGroup
  <2>4. updates \in Seq(NoticeType) /\ change \in Nat
    BY DEF IndInv, UpdatesOK
  <2> HIDE DEF new, candidate
  <2>5. updates' \in Seq(NoticeType) /\ change' \in Nat
    BY <2>2, <2>3, <2>4
  <2>6. Notices'
    <3> SUFFICES ASSUME NEW i \in DOMAIN updates'
                 PROVE  /\ updates'[i].change <= change'
                        /\ updates'[i].change = change' => updates'[i].group = group'
      BY DEF Notices
    <3>1. CASE i \in DOMAIN updates
      <4>1. updates'[i] = updates[i]
        BY <2>2, <2>3, <2>4, <3>1
      <4>2. updates[i] \in NoticeType
        BY <2>4, <3>1
      <4>3. updates[i].change \in Nat /\ updates[i].change <= change
        BY <3>1, <4>2 DEF IndInv, Notices, NoticeType
      <4> QED BY <2>3, <2>4, <4>1, <4>3
    <3>2. CASE i \notin DOMAIN updates
      <4>1. updates'[i] = new
        BY <2>2, <2>3, <2>4, <3>2
      <4>2. new.change = change + 1 /\ new.group = candidate
        BY DEF new
      <4> QED BY <2>3, <2>4, <4>1, <4>2
    <3> QED BY <3>1, <3>2
  <2> QED BY <2>1, <2>3, <2>5, <2>6
<1> QED BY <1>1, <1>2 DEF TableChange

LEMMA UpdateKeeps == IndInv /\ UpdateTopologyInfo => IndInv'
<1> SUFFICES ASSUME IndInv, UpdateTopologyInfo PROVE IndInv'
  OBVIOUS
<1>1. /\ updates \in Seq(NoticeType) /\ updates # <<>> /\ updates' = Tail(updates)
      /\ UNCHANGED <<change, group, table>>
  BY DEF IndInv, UpdatesOK, UpdateTopologyInfo, routingVars, mobilityVars
<1>2. updates' \in Seq(NoticeType) /\ \A i \in DOMAIN updates' :
        i + 1 \in DOMAIN updates /\ updates'[i] = updates[i + 1]
  BY <1>1
<1> QED BY <1>1, <1>2 DEF IndInv, UpdatesOK, Notices

LEMMA TickKeeps == IndInv /\ Tick => IndInv'
<1> SUFFICES ASSUME IndInv, Tick PROVE IndInv'
  OBVIOUS
<1>1. /\ updates \in Seq(NoticeType)
      /\ updates' = [i \in DOMAIN updates |-> [updates[i] EXCEPT !.left = @ - 1]]
      /\ UNCHANGED <<change, group, table>>
  BY DEF IndInv, UpdatesOK, Tick, routingVars, mobilityVars
<1>2. \A i \in DOMAIN updates : /\ updates'[i].change = updates[i].change
                                /\ updates'[i].group = updates[i].group
                                /\ updates'[i] \in NoticeType
  <2> TAKE i \in DOMAIN updates
  <2>1. updates[i] \in NoticeType /\ updates'[i] = [updates[i] EXCEPT !.left = @ - 1]
    BY <1>1
  <2> QED BY <2>1 DEF NoticeType
<1>3. DOMAIN updates' = DOMAIN updates /\ updates' \in Seq(NoticeType)
  BY <1>1, <1>2
<1> QED BY <1>1, <1>2, <1>3 DEF IndInv, UpdatesOK, Notices

LEMMA NextKeeps == IndInv /\ [Next]_vars => IndInv'
<1> SUFFICES ASSUME IndInv, [Next]_vars PROVE IndInv'
  OBVIOUS
<1>1. CASE RoutesChange
  <2>1. PICK routes \in Tables : table' = routes /\ TableChange(routes)
    BY <1>1 DEF RoutesChange
  <2> QED BY <2>1, TableChangeKeeps DEF IndInv, UpdatesOK
<1>2. CASE Recompute
  <2>1. table \in Tables /\ TableChange(table) /\ table' = table
    BY <1>2 DEF Recompute, routingVars, IndInv, UpdatesOK
  <2> QED BY <2>1, TableChangeKeeps DEF IndInv, UpdatesOK
<1>3. CASE StopApplication
  BY <1>3 DEF StopApplication, routingVars, noticeVars, IndInv, UpdatesOK, Notices
<1>4. CASE UpdateTopologyInfo
  BY <1>4, UpdateKeeps
<1>5. CASE Tick
  BY <1>5, TickKeeps
<1>6. CASE UNCHANGED vars
  BY <1>6 DEF vars, routingVars, mobilityVars, noticeVars, IndInv, UpdatesOK, Notices
<1> QED BY <1>1, <1>2, <1>3, <1>4, <1>5, <1>6 DEF Next

\* Only an update that carries the last number changes the group of B4Mesh.
LEMMA StepConfirmsLast == IndInv /\ [Next]_vars => (b4group' # b4group => b4group' = group)
<1> SUFFICES ASSUME IndInv, [Next]_vars, b4group' # b4group PROVE b4group' = group
  OBVIOUS
<1>1. UpdateTopologyInfo
  BY DEF Next, vars, confirmedVars, RoutesChange, Recompute, TableChange,
         StopApplication, Tick
<1>2. /\ updates \in Seq(NoticeType) /\ updates # <<>>
      /\ Head(updates).change = change /\ b4group' = Head(updates).group
  BY <1>1 DEF UpdateTopologyInfo, IsLastNotice, confirmedVars, IndInv, UpdatesOK
<1>3. 1 \in DOMAIN updates /\ Head(updates) = updates[1]
  BY <1>2
<1> QED BY <1>2, <1>3 DEF IndInv, Notices

\* Scheduled updates always agree with the notifications made.
THEOREM NoticesHold == Spec => []IndInv
<1> QED BY InitHolds, NextKeeps, PTL DEF Spec

\* The blockgraph module never confirms a group that has been replaced.
THEOREM OnlyLastConfirmed == Spec => OnlyLastGroupConfirmed
<1>1. IndInv /\ [Next]_vars => [b4group' # b4group => b4group' = group]_vars
  BY StepConfirmsLast
<1> QED BY <1>1, NoticesHold, PTL DEF Spec, OnlyLastGroupConfirmed

-----------------------------------------------------------------------------
(* How far apart two groups are when the tolerance time is cut short.      *)

LEMMA DifferenceOfGroups ==
  ASSUME NEW S, NEW T, IsFiniteSet(S), IsFiniteSet(T), CalculDiffBtwGroups(S, T)
  PROVE  Cardinality((S \ T) \cup (T \ S)) >= 2
<1> DEFINE left == Cardinality(S \ T)
           new == Cardinality(T \ S)
           common == Cardinality(S \cap T)
<1>1. /\ IsFiniteSet(S \ T) /\ left = Cardinality(S) - common
      /\ IsFiniteSet(T \ S) /\ new = Cardinality(T) - common
  <2>1. T \cap S = S \cap T
    OBVIOUS
  <2> QED
    BY <2>1, FS_Difference
<1>2. /\ left \in Nat /\ new \in Nat /\ Cardinality(S) \in Nat /\ Cardinality(T) \in Nat
      /\ common \in Nat
  BY <1>1, FS_CardinalityType, FS_Intersection
<1>3. Cardinality((S \ T) \cup (T \ S)) = left + new
  <2>1. Cardinality((S \ T) \cup (T \ S)) =
          left + new - Cardinality((S \ T) \cap (T \ S))
    BY <1>1, FS_Union
  <2>2. (S \ T) \cap (T \ S) = {}
    OBVIOUS
  <2>3. Cardinality({}) = 0
    BY FS_EmptySet
  <2> QED
    BY <1>2, <2>1, <2>2, <2>3
<1> DEFINE diff == Cardinality(S) - Cardinality(T)
<1>4. diff = left - new
  BY <1>1, <1>2
<1>5. diff \in {-1, 0, 1} => new >= (IF diff > 0 THEN 1 ELSE 2)
  BY DEF CalculDiffBtwGroups
<1> HIDE DEF left, new, diff
<1>6. left + new >= 2
  <2>1. CASE diff = 1
    BY <1>2, <1>4, <1>5, <2>1
  <2>2. CASE diff \in {-1, 0}
    BY <1>2, <1>4, <1>5, <2>2
  <2>3. CASE diff \notin {-1, 0, 1}
    BY <1>2, <1>4, <2>3
  <2> QED
    BY <2>1, <2>2, <2>3
<1> QED
  BY <1>3, <1>6 DEF left, new

LEMMA GroupsFinite ==
  ASSUME NEW g \in Groups
  PROVE  IsFiniteSet(g)
<1>1. g \subseteq 0 .. 9
  BY GroupConstants DEF Groups
<1>2. IsFiniteSet(0 .. 9)
  <2>1. 0 \in Int /\ 9 \in Int
    OBVIOUS
  <2> QED
    BY <2>1, FS_Interval, Zenon
<1> QED
  BY <1>1, <1>2, FS_Subset

LEMMA StepWaits ==
  ASSUME IndInv, IndInv', [Next]_vars, group' # group, elapsed < TOPOLOGY_TOLERANCE_TIME
  PROVE  Cardinality((group \ group') \cup (group' \ group)) >= 2
<1>1. PICK routes : TableChange(routes)
  BY DEF Next, vars, mobilityVars, RoutesChange, Recompute, StopApplication,
         UpdateTopologyInfo, Tick
<1>2. CheckGroupChangement(group, Candidate(routes)) /\ group' = Candidate(routes)
  BY <1>1 DEF TableChange, ChangeGroup
<1>3. CalculDiffBtwGroups(group, group')
  BY <1>2 DEF CheckGroupChangement
<1>4. IsFiniteSet(group) /\ IsFiniteSet(group')
  BY GroupsFinite DEF IndInv, UpdatesOK
<1> QED
  BY <1>3, <1>4, DifferenceOfGroups

\* Before the tolerance time has passed, only a change of two nodes or more makes
\* a new group, whatever the sizes of the groups.
THEOREM OnlyLargeChangesHurry == Spec => SmallChangesWait
<1> DEFINE Step == group' # group /\ elapsed < TOPOLOGY_TOLERANCE_TIME =>
                     Cardinality((group \ group') \cup (group' \ group)) >= 2
<1>1. IndInv /\ IndInv' /\ [Next]_vars => [Step]_vars
  BY StepWaits
<1> QED
  BY <1>1, NoticesHold, PTL DEF Spec, SmallChangesWait

-----------------------------------------------------------------------------
(* Types.                                                                  *)

\* Updates are due in the order of the notifications: when the first is not due
\* yet, no other is, and a second can pass for all of them.
DueInOrder ==
  \A i, j \in DOMAIN updates : i <= j => updates[i].left <= updates[j].left

Notice == [change : Nat, group : Groups, left : 0 .. UpdateDelay]

TypeInv == TypeOK /\ DueInOrder

LEMMA InitTypes == Init => TypeInv
<1> SUFFICES ASSUME Init PROVE TypeInv
  OBVIOUS
<1>1. updates = <<>> /\ DueInOrder
  BY DEF Init, DueInOrder
<1>2. {} \in Groups
  BY DEF Groups
<1>3. /\ table \in Tables /\ moves \in 0 .. MaxMoves
      /\ elapsed \in 0 .. TOPOLOGY_TOLERANCE_TIME /\ change \in Nat
  BY GroupConstants DEF Init
<1>4. updates \in Seq(Notice)
  BY <1>1
<1> QED BY <1>1, <1>2, <1>3, <1>4 DEF Init, TypeInv, TypeOK, Notice

\* A notification is due later than all that are scheduled.
LEMMA TableChangeTypes ==
  ASSUME TypeInv, NEW routes \in Tables, TableChange(routes)
  PROVE  /\ elapsed' \in 0 .. TOPOLOGY_TOLERANCE_TIME /\ group' \in Groups
         /\ change' \in Nat /\ lastChange' \in Nature \cup {Unset}
         /\ updates' \in Seq(Notice) /\ DueInOrder'
<1> DEFINE candidate == Candidate(routes)
<1>1. CASE UNCHANGED <<elapsed, group, noticeVars>>
  BY <1>1 DEF noticeVars, TypeInv, TypeOK, DueInOrder, Notice
<1>2. CASE ChangeGroup(candidate)
  <2> DEFINE new == [change |-> change + 1, group |-> candidate, left |-> UpdateDelay]
  <2>1. candidate \in Groups
    BY GroupConstants DEF Groups, Candidate
  <2>2. new \in Notice
    BY <2>1, GroupConstants DEF Notice, TypeInv, TypeOK
  <2>3. /\ updates' = Append(updates, new) /\ change' = change + 1 /\ group' = candidate
        /\ elapsed' = 0 /\ lastChange' \in Nature
    BY <1>2 DEF ChangeGroup, DetecteNatureChange, Nature
  <2>4. updates \in Seq(Notice) /\ change \in Nat
    BY DEF TypeInv, TypeOK, Notice
  <2>5. new.left = UpdateDelay
    OBVIOUS
  <2> HIDE DEF new, candidate
  <2>6. updates' \in Seq(Notice)
    BY <2>2, <2>3, <2>4
  <2>7. \A i \in DOMAIN updates' :
          \/ i \in DOMAIN updates /\ updates'[i] = updates[i]
          \/ i = Len(updates) + 1 /\ updates'[i] = new
    BY <2>2, <2>3, <2>4
  <2>8. \A i \in DOMAIN updates : updates[i].left \in 0 .. UpdateDelay
    <3> TAKE i \in DOMAIN updates
    <3>1. updates[i] \in Notice
      BY <2>4
    <3> QED BY <3>1 DEF Notice
  <2>9. DueInOrder'
    <3> SUFFICES ASSUME NEW i \in DOMAIN updates', NEW j \in DOMAIN updates', i <= j
                 PROVE  updates'[i].left <= updates'[j].left
      BY DEF DueInOrder
    <3>1. CASE j \in DOMAIN updates
      <4>1. i \in DOMAIN updates
        BY <2>4, <2>7, <3>1
      <4>2. updates'[i] = updates[i] /\ updates'[j] = updates[j]
        BY <2>4, <2>7, <3>1, <4>1
      <4> QED BY <3>1, <4>1, <4>2 DEF TypeInv, DueInOrder
    <3>2. CASE j \notin DOMAIN updates
      <4>1. updates'[j].left = UpdateDelay
        BY <2>5, <2>7, <3>2
      <4>2. updates'[i].left \in 0 .. UpdateDelay
        BY <2>5, <2>7, <2>8, GroupConstants
      <4> QED BY <4>1, <4>2, GroupConstants
    <3> QED BY <3>1, <3>2
  <2> QED BY <2>1, <2>3, <2>4, <2>6, <2>9, GroupConstants
<1> QED BY <1>1, <1>2 DEF TableChange

\* What is confirmed is a group that was notified.
LEMMA UpdateTypes == TypeInv /\ UpdateTopologyInfo => TypeInv'
<1> SUFFICES ASSUME TypeInv, UpdateTopologyInfo PROVE TypeInv'
  OBVIOUS
<1>1. updates \in Seq(Notice) /\ updates # <<>> /\ updates' = Tail(updates)
  BY DEF TypeInv, TypeOK, Notice, UpdateTopologyInfo
<1>2. updates' \in Seq(Notice) /\ \A i \in DOMAIN updates' :
        /\ i \in Nat /\ i + 1 \in DOMAIN updates /\ updates'[i] = updates[i + 1]
  BY <1>1
<1>3. DueInOrder'
  BY <1>2 DEF TypeInv, DueInOrder
<1>4. Head(updates).group \in Groups
  <2>1. Head(updates) \in Notice
    BY <1>1
  <2> QED BY <2>1 DEF Notice
<1>5. CalculeGroupId(Head(updates).group) \in GroupIds
  BY <1>4 DEF GroupIds
<1>6. /\ groupId' \in GroupIds \cup {NoId} /\ groupId_register' \subseteq GroupIds
      /\ b4group' \in Groups /\ previous_group' \in Groups /\ startMerge' \in BOOLEAN
  BY <1>4, <1>5 DEF UpdateTopologyInfo, confirmedVars, TypeInv, TypeOK
<1> QED BY <1>2, <1>3, <1>6
        DEF UpdateTopologyInfo, routingVars, mobilityVars, TypeInv, TypeOK, Notice

\* A second passes only if no update is due.
LEMMA TickTypes == TypeInv /\ Tick => TypeInv'
<1> SUFFICES ASSUME TypeInv, Tick PROVE TypeInv'
  OBVIOUS
<1>1. /\ updates \in Seq(Notice)
      /\ updates' = [i \in DOMAIN updates |-> [updates[i] EXCEPT !.left = @ - 1]]
      /\ updates # <<>> => Head(updates).left > 0
  BY DEF TypeInv, TypeOK, Notice, Tick
<1>2. \A i \in DOMAIN updates :
        /\ updates'[i] \in Notice
        /\ updates'[i].left = updates[i].left - 1
        /\ updates[i].left \in Nat
  <2> TAKE i \in DOMAIN updates
  <2>1. updates[i] \in Notice /\ updates'[i] = [updates[i] EXCEPT !.left = @ - 1]
    BY <1>1
  <2>2. /\ 1 \in DOMAIN updates /\ i \in Nat /\ 1 <= i
        /\ updates[1] = Head(updates) /\ updates[1] \in Notice
    BY <1>1
  <2>3. updates[1].left <= updates[i].left
    BY <2>2 DEF TypeInv, DueInOrder
  <2>4. updates[1].left > 0 /\ updates[1].left \in Nat
    BY <1>1, <2>2 DEF Notice
  <2>5. updates[i].left \in Nat /\ updates[i].left <= UpdateDelay /\ updates[i].left >= 1
    BY <2>1, <2>3, <2>4, GroupConstants DEF Notice
  <2> QED BY <2>1, <2>5, GroupConstants DEF Notice
<1>3. DOMAIN updates' = DOMAIN updates /\ updates' \in Seq(Notice)
  <2>1. DOMAIN updates = 1 .. Len(updates) /\ Len(updates) \in Nat
    BY <1>1
  <2>2. DOMAIN updates' = DOMAIN updates
    BY <1>1
  <2>3. updates' \in [1 .. Len(updates) -> Notice]
    BY <1>1, <1>2, <2>1
  <2> QED BY <2>1, <2>2, <2>3
<1>4. DueInOrder'
  BY <1>2, <1>3 DEF TypeInv, DueInOrder
<1>5. elapsed' \in 0 .. TOPOLOGY_TOLERANCE_TIME
  BY GroupConstants DEF Tick, TypeInv, TypeOK
<1> QED BY <1>3, <1>4, <1>5
        DEF Tick, routingVars, confirmedVars, TypeInv, TypeOK, Notice

LEMMA NextTypes == TypeInv /\ [Next]_vars => TypeInv'
<1> SUFFICES ASSUME TypeInv, [Next]_vars PROVE TypeInv'
  OBVIOUS
<1>1. CASE RoutesChange
  <2>1. PICK routes \in Tables : table' = routes /\ TableChange(routes)
    BY <1>1 DEF RoutesChange
  <2>2. moves' \in 0 .. MaxMoves
    BY <1>1, GroupConstants DEF RoutesChange, TypeInv, TypeOK
  <2> QED BY <2>1, <2>2, TableChangeTypes
          DEF TableChange, confirmedVars, TypeInv, TypeOK, Notice
<1>2. CASE Recompute
  <2>1. table \in Tables /\ TableChange(table) /\ UNCHANGED <<table, moves>>
    BY <1>2 DEF Recompute, routingVars, TypeInv, TypeOK
  <2> QED BY <2>1, TableChangeTypes
          DEF TableChange, confirmedVars, TypeInv, TypeOK, Notice
<1>3. CASE StopApplication
  BY <1>3 DEF StopApplication, routingVars, noticeVars, confirmedVars, TypeInv, TypeOK,
              DueInOrder
<1>4. CASE UpdateTopologyInfo
  BY <1>4, UpdateTypes
<1>5. CASE Tick
  BY <1>5, TickTypes
<1>6. CASE UNCHANGED vars
  BY <1>6 DEF vars, routingVars, mobilityVars, noticeVars, confirmedVars, TypeInv, TypeOK,
              DueInOrder
<1> QED BY <1>1, <1>2, <1>3, <1>4, <1>5, <1>6 DEF Next

\* Every variable keeps its type; in particular no update is ever overdue, and
\* what is confirmed is no group or one the node belongs to.
THEOREM GroupTypes == Spec => []TypeOK
<1>1. TypeInv => TypeOK
  BY DEF TypeInv
<1> QED BY <1>1, InitTypes, NextTypes, PTL DEF Spec

-----------------------------------------------------------------------------
(* GroupManagement implements StableGroups.                                *)

\* The last update is that of the last notification, and the only one of it.
LastIsCurrent ==
  updates # <<>> =>
    /\ updates[Len(updates)].change = change
    /\ \A i \in DOMAIN updates : i < Len(updates) => updates[i].change < change

GroupsNamed == \A i \in DOMAIN updates : updates[i].group # {}

IdConfirmed ==
  \/ b4group = {} /\ groupId = NoId
  \/ b4group # {} /\ groupId = CalculeGroupId(b4group)

PromiseInv == IndInv /\ TypeInv /\ LastIsCurrent /\ GroupsNamed /\ IdConfirmed

StableStep ==
  \/ Stable!Report \/ Stable!Second \/ Stable!Confirm
  \/ UNCHANGED <<group, updates # <<>>, TimeLeft, b4group, previous_group>>

LEMMA InitPromised == Init => LastIsCurrent /\ GroupsNamed /\ IdConfirmed
BY DEF Init, LastIsCurrent, GroupsNamed, IdConfirmed

\* A notification is the last one, and reported as such.
LEMMA TableChangePromised ==
  ASSUME PromiseInv, NEW routes \in Tables, TableChange(routes)
  PROVE  LastIsCurrent' /\ GroupsNamed' /\ IdConfirmed' /\ StableStep
<1> DEFINE candidate == Candidate(routes)
<1>1. UNCHANGED confirmedVars /\ IdConfirmed'
  BY DEF TableChange, PromiseInv, IdConfirmed, confirmedVars
<1>2. CASE UNCHANGED <<elapsed, group, noticeVars>>
  BY <1>1, <1>2 DEF noticeVars, confirmedVars, PromiseInv, LastIsCurrent, GroupsNamed,
                    StableStep, TimeLeft
<1>3. CASE candidate # group /\ ChangeGroup(candidate)
  <2> DEFINE new == [change |-> change + 1, group |-> candidate, left |-> UpdateDelay]
  <2>1. candidate \in Groups /\ candidate # {}
    BY GroupConstants DEF Groups, Candidate
  <2>2. /\ updates' = Append(updates, new) /\ change' = change + 1 /\ group' = candidate
        /\ new.change = change + 1 /\ new.group = candidate /\ new.left = UpdateDelay
    BY <1>3 DEF ChangeGroup
  <2>3. updates \in Seq(NoticeType) /\ change \in Nat
    BY DEF PromiseInv, IndInv, UpdatesOK
  <2> HIDE DEF new, candidate
  <2>4. /\ Len(updates') = Len(updates) + 1 /\ updates' # <<>>
        /\ updates'[Len(updates')] = new
        /\ \A i \in DOMAIN updates' : i < Len(updates') =>
             i \in DOMAIN updates /\ updates'[i] = updates[i]
        /\ \A i \in DOMAIN updates' : i \in DOMAIN updates \/ i = Len(updates')
    BY <2>2, <2>3
  <2>5. \A i \in DOMAIN updates : updates[i].change \in Nat /\ updates[i].change <= change
    <3> TAKE i \in DOMAIN updates
    <3>1. updates[i] \in NoticeType
      BY <2>3
    <3> QED BY <3>1 DEF PromiseInv, IndInv, Notices, NoticeType
  <2>6. LastIsCurrent'
    BY <2>2, <2>3, <2>4, <2>5 DEF LastIsCurrent
  <2>7. \A i \in DOMAIN updates' :
          updates'[i] = new \/ (i \in DOMAIN updates /\ updates'[i] = updates[i])
    BY <2>4
  <2>8. GroupsNamed'
    BY <2>1, <2>2, <2>7 DEF PromiseInv, GroupsNamed
  <2>9. TimeLeft' = UpdateDelay
    BY <2>2, <2>4 DEF TimeLeft
  <2>10. Stable!Report
    BY <1>1, <1>3, <2>1, <2>2, <2>4, <2>9 DEF Stable!Report, confirmedVars, candidate
  <2> QED BY <1>1, <2>6, <2>8, <2>10 DEF StableStep
<1> QED BY <1>2, <1>3 DEF TableChange

\* The last update confirms the current group when its time has come; those before
\* it change nothing.
LEMMA UpdatePromised ==
  ASSUME PromiseInv, UpdateTopologyInfo
  PROVE  LastIsCurrent' /\ GroupsNamed' /\ IdConfirmed' /\ StableStep
<1> DEFINE u == Head(updates)
<1>1. /\ updates \in Seq(NoticeType) /\ updates # <<>> /\ updates' = Tail(updates)
      /\ UNCHANGED <<change, group>> /\ u = updates[1] /\ change \in Nat
      /\ u.left = 0 /\ 1 \in DOMAIN updates /\ Len(updates) \in Nat
  BY DEF PromiseInv, IndInv, UpdatesOK, UpdateTopologyInfo, routingVars, mobilityVars
<1>2. /\ \A i \in DOMAIN updates' :
           i \in Nat /\ i + 1 \in DOMAIN updates /\ updates'[i] = updates[i + 1]
      /\ Len(updates') = Len(updates) - 1
  BY <1>1
<1>3. GroupsNamed'
  BY <1>2 DEF PromiseInv, GroupsNamed
<1>4. updates' # <<>> => /\ Len(updates') \in DOMAIN updates'
                        /\ updates'[Len(updates')] = updates[Len(updates)]
                        /\ Len(updates) > 1
  BY <1>1, <1>2
<1>5. LastIsCurrent'
  BY <1>1, <1>2, <1>4 DEF PromiseInv, LastIsCurrent
<1>6. u \in NoticeType /\ u.group # {} /\ u.group \in Groups
  <2>1. updates[1] \in NoticeType
    BY <1>1
  <2>2. updates[1].group # {}
    BY <1>1 DEF PromiseInv, GroupsNamed
  <2> QED BY <1>1, <2>1, <2>2 DEF NoticeType
<1>7. IdConfirmed'
  BY <1>6 DEF UpdateTopologyInfo, confirmedVars, PromiseInv, IdConfirmed
<1>8. CASE updates' # <<>>
  <2>1. u.change # change
    BY <1>1, <1>4, <1>8 DEF PromiseInv, LastIsCurrent
  <2>2. UNCHANGED confirmedVars
    BY <2>1 DEF UpdateTopologyInfo, IsLastNotice
  <2>3. TimeLeft' = TimeLeft
    BY <1>1, <1>4, <1>8 DEF TimeLeft
  <2> QED BY <1>1, <1>3, <1>5, <1>7, <1>8, <2>2, <2>3 DEF StableStep, confirmedVars
<1>9. CASE updates' = <<>>
  <2>1. Len(updates) = 1
    <3>1. Len(updates') = 0
      BY <1>9
    <3> QED BY <1>1, <1>2, <3>1
  <2>2. u.change = change /\ u.group = group
    BY <1>1, <2>1 DEF PromiseInv, LastIsCurrent, IndInv, Notices
  <2>3. TimeLeft = 0 /\ TimeLeft' = 0
    BY <1>1, <1>9, <2>1 DEF TimeLeft
  <2>4. group \in Groups /\ group \in SUBSET Node
    BY <1>6, <2>2 DEF Groups
  <2>5. b4group \in Groups
    BY DEF PromiseInv, TypeInv, TypeOK
  <2>6. CalculeGroupId(group) # NoId
    BY <2>4, NoIdIsNone
  <2> DEFINE Id == [g \in Groups |-> CalculeGroupId(g)]
             looks == b4group # {} /\ Id[group] = Id[b4group]
  <2>7. looks <=> groupId = CalculeGroupId(group)
    BY <2>4, <2>5, <2>6 DEF PromiseInv, IdConfirmed
  <2>8. /\ b4group' = IF looks THEN b4group ELSE group
        /\ previous_group' = IF looks THEN previous_group ELSE b4group
    BY <2>2, <2>7 DEF UpdateTopologyInfo, IsLastNotice, confirmedVars
  <2>9. Stable!Confirm
    BY <1>1, <1>9, <2>3, <2>8 DEF Stable!Confirm, Stable!LooksConfirmed
  <2> QED BY <1>3, <1>5, <1>7, <2>9 DEF StableStep
<1> QED BY <1>8, <1>9

LEMMA TickPromised ==
  ASSUME PromiseInv, Tick
  PROVE  LastIsCurrent' /\ GroupsNamed' /\ IdConfirmed' /\ StableStep
<1>1. /\ updates \in Seq(Notice)
      /\ updates' = [i \in DOMAIN updates |-> [updates[i] EXCEPT !.left = @ - 1]]
      /\ UNCHANGED <<change, group, confirmedVars>>
      /\ updates # <<>> => Head(updates).left > 0
  BY DEF PromiseInv, TypeInv, TypeOK, Notice, Tick
<1>2. \A i \in DOMAIN updates :
        /\ updates'[i].change = updates[i].change /\ updates'[i].group = updates[i].group
        /\ updates'[i].left = updates[i].left - 1
        /\ updates[i].left \in Int
  <2> TAKE i \in DOMAIN updates
  <2>1. updates[i] \in Notice /\ updates'[i] = [updates[i] EXCEPT !.left = @ - 1]
    BY <1>1
  <2> QED BY <2>1, GroupConstants DEF Notice
<1>3. /\ DOMAIN updates' = DOMAIN updates /\ Len(updates') = Len(updates)
      /\ Len(updates) \in Nat /\ (updates' # <<>>) = (updates # <<>>)
  BY <1>1
<1>4. LastIsCurrent'
  <2>1. updates # <<>> => Len(updates) \in DOMAIN updates
    BY <1>1
  <2> QED BY <1>1, <1>2, <1>3, <2>1 DEF PromiseInv, LastIsCurrent
<1>5. GroupsNamed' /\ IdConfirmed'
  BY <1>1, <1>2, <1>3 DEF PromiseInv, GroupsNamed, IdConfirmed, confirmedVars
<1>6. CASE updates = <<>>
  BY <1>1, <1>3, <1>4, <1>5, <1>6 DEF StableStep, TimeLeft, confirmedVars
<1>7. CASE updates # <<>>
  <2>1. /\ 1 \in DOMAIN updates /\ Len(updates) \in DOMAIN updates /\ 1 <= Len(updates)
        /\ updates[1].left > 0
    BY <1>1, <1>7
  <2>2. updates[Len(updates)].left > 0
    BY <1>2, <2>1 DEF PromiseInv, TypeInv, DueInOrder
  <2>3. TimeLeft > 0 /\ TimeLeft' = TimeLeft - 1
    BY <1>2, <1>3, <1>7, <2>1, <2>2 DEF TimeLeft
  <2> QED BY <1>1, <1>3, <1>4, <1>5, <1>7, <2>3 DEF StableStep, Stable!Second, confirmedVars
<1> QED BY <1>6, <1>7

LEMMA NextPromised ==
  PromiseInv /\ [Next]_vars => LastIsCurrent' /\ GroupsNamed' /\ IdConfirmed' /\ StableStep
<1> SUFFICES ASSUME PromiseInv, [Next]_vars
             PROVE  LastIsCurrent' /\ GroupsNamed' /\ IdConfirmed' /\ StableStep
  OBVIOUS
<1>1. CASE RoutesChange \/ Recompute
  <2>1. \E routes \in Tables : TableChange(routes)
    BY <1>1 DEF RoutesChange, Recompute, PromiseInv, TypeInv, TypeOK
  <2> QED BY <2>1, TableChangePromised
<1>2. CASE UpdateTopologyInfo
  BY <1>2, UpdatePromised
<1>3. CASE Tick
  BY <1>3, TickPromised
<1>4. CASE StopApplication \/ UNCHANGED vars
  <2>1. UNCHANGED <<group, change, updates, confirmedVars>>
    BY <1>4 DEF StopApplication, vars, mobilityVars, noticeVars
  <2> QED BY <2>1 DEF confirmedVars, PromiseInv, LastIsCurrent, GroupsNamed, IdConfirmed,
                      StableStep, TimeLeft
<1> QED BY <1>1, <1>2, <1>3, <1>4 DEF Next

\* For every delay and every sequence of tables, a group is confirmed exactly when
\* it has been the group of the node for the delay, at most once, unless it has the
\* identifier of the one confirmed before.
THEOREM GroupsAreStable == Spec => ConfirmsStableGroups
<1>1. Init => PromiseInv
  BY InitHolds, InitTypes, InitPromised DEF PromiseInv
<1>2. PromiseInv /\ [Next]_vars => PromiseInv'
  BY NextKeeps, NextTypes, NextPromised DEF PromiseInv
<1>3. Init => Stable!Init
  BY DEF Init, Stable!Init, TimeLeft
<1>4. PromiseInv /\ [Next]_vars =>
        [Stable!Next]_<<group, updates # <<>>, TimeLeft, b4group, previous_group>>
  BY NextPromised DEF StableStep, Stable!Next
<1> QED BY <1>1, <1>2, <1>3, <1>4, PTL DEF Spec, ConfirmsStableGroups, Stable!Spec
=============================================================================
