-------------------------- MODULE MCAccountPoints --------------------------
(***************************************************************************)
(* Instances of AccountPoints for TLC.  Events 1 and 2 are deposits made   *)
(* before the start; the first has expired then, the second is due at 2.   *)
(* Event 3 is a withdrawal made before, without a date: it expires at 2    *)
(* too, with the type's end date or a day after it is looked at.           *)
(***************************************************************************)
EXTENDS AccountPoints

CONSTANTS r1, r2, r3, nodeA, nodeB

Late == 9

MCNode == {nodeA, nodeB}
MCLease == [o \in Object |-> 1]

MCEvent == 1 .. 3
MCOpening ==
  [e \in MCEvent |->
     IF e = 3 THEN [began |-> "withdraw", dep |-> 0, wd |-> 2, spend |-> 0, due |-> 0]
              ELSE [began |-> "deposit", dep |-> 2, wd |-> 0, spend |-> 4, due |-> e]]

\* On one node a read and the second deposit once more with another amount,
\* before or after it expired; on the other node the withdrawal once more.
MCReq == {r1, r2, r3}
MCKind == [r \in MCReq |-> CASE r = r1 -> "read" [] r = r2 -> "deposit" [] OTHER -> "withdraw"]
MCEventOf == [r \in MCReq |-> CASE r = r1 -> 1 [] r = r2 -> 2 [] OTHER -> 3]
MCAmount == [r \in MCReq |-> IF r = r2 THEN 3 ELSE 1]
MCDueOf == [r \in MCReq |-> 0]
MCEarned == [r \in MCReq |-> 1]
MCNodeOf == [r \in MCReq |-> IF r = r3 THEN nodeB ELSE nodeA]
MCFree == [r \in MCReq |-> {}]

\* Two reads on two nodes.
MCReads == {r1, r2}
ReadsKind == [r \in MCReads |-> "read"]
ReadsEventOf == [r \in MCReads |-> 1]
ReadsAmount == [r \in MCReads |-> 1]
ReadsDueOf == [r \in MCReads |-> Late]
ReadsEarned == [r \in MCReads |-> 1]
ReadsNodeOf == [r \in MCReads |-> IF r = r1 THEN nodeA ELSE nodeB]
ReadsFree == [r \in MCReads |-> {}]
=============================================================================
