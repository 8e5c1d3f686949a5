---------------------------- MODULE StableGroups ----------------------------
(***************************************************************************)
(* What group management promises to the blockgraph of a node, however     *)
(* often the topology changes: a group is confirmed once it has been the   *)
(* group of the node for Delay seconds without a change, at that second,   *)
(* at most once, and the group before it is remembered.  Only a group that *)
(* cannot be told from the confirmed one is passed over.                   *)
(***************************************************************************)
EXTENDS Integers

CONSTANTS
  Groups,
  NoGroup,          \* the confirmed group while there is none
  Id,               \* the identifiers of groups, as a function
  Delay

VARIABLES
  current,          \* the group that was reported last
  open,             \* it is still to be confirmed
  left,             \* seconds until then
  confirmed, previous

Init ==
  /\ current = NoGroup /\ open = FALSE /\ left = 0
  /\ confirmed = NoGroup /\ previous = NoGroup

\* Another group is reported: whatever time had passed, it starts again.
Report ==
  /\ current' \in Groups \ {current}
  /\ open' = TRUE /\ left' = Delay
  /\ UNCHANGED <<confirmed, previous>>

Second ==
  /\ open /\ left > 0
  /\ left' = left - 1
  /\ UNCHANGED <<current, open, confirmed, previous>>

LooksConfirmed == confirmed # NoGroup /\ Id[current] = Id[confirmed]

Confirm ==
  /\ open /\ left = 0
  /\ open' = FALSE
  /\ confirmed' = IF LooksConfirmed THEN confirmed ELSE current
  /\ previous' = IF LooksConfirmed THEN previous ELSE confirmed
  /\ UNCHANGED <<current, left>>

Next == Report \/ Second \/ Confirm

Spec == Init /\ [][Next]_<<current, open, left, confirmed, previous>>
=============================================================================
