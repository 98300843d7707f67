--------------------------- MODULE MCAccountTurn ---------------------------
(***************************************************************************)
(* Instances of AccountTurn for TLC.  e1 makes the account enter nodeA and *)
(* e2 nodeB; the others and a resettlement take it from nodeA, where it is *)
(* there, to nodeB.  A contribution that is due Late outlives the clock.   *)
(***************************************************************************)
EXTENDS AccountTurn

CONSTANTS t1, t2, t3, t4, t5, t6, e1, e2, e3, e4, nodeA, nodeB, m1, m2, m3

Late == 9

MCEvent == {e1, e2, e3, e4}
MCNode == {nodeA, nodeB}
NoNodeOf == [m \in {} |-> nodeA]

Entered(ns, e) ==
  CASE e = e1 -> ns \cup {nodeA}
    [] e = e2 -> ns \cup {nodeB}
    [] OTHER -> IF nodeA \in ns THEN {nodeB} ELSE ns

Leading(eventOf) ==
  [t \in DOMAIN eventOf |-> [ns \in SUBSET MCNode |-> Entered(ns, eventOf[t])]]

\* Three turns of three events at any time, the contribution of the first one
\* decaying; or two of them at any time, whose contributions do not decay, and
\* a resettlement that is made after the first one ended.
MCThree == {t1, t2, t3}
MCEventOf == [t \in MCThree |-> CASE t = t1 -> e1 [] t = t2 -> e2 [] OTHER -> e3]
ThreeNavigate == Leading(MCEventOf)
ThreeEarly == [t \in MCThree |-> IF t = t1 THEN 1 ELSE Late]
ThreeLate == [t \in MCThree |-> Late]
ThreeFree == [t \in MCThree |-> {}]
ThirdLater == [t \in MCThree |-> IF t = t3 THEN {t1} ELSE {}]

\* One after the other: an operator's entry into nodeB (m1), a turn of e3, an
\* event of the account's own kind (t1), and one of e4 (t6), whose contributions
\* decay, a turn of e1 (t2), a resettlement (t5), a newer turn of e1 (t3), an
\* operator's exit from nodeA (m2), a turn of e2 (t4), and an operator's swap
\* into nodeB (m3).
MCSix == {t1, t2, t3, t4, t5, t6}
SixOf == [t \in MCSix |-> CASE t \in {t1, t5} -> e3 [] t = t6 -> e4
                             [] t = t4 -> e2 [] OTHER -> e1]
SixNavigate == Leading(SixOf)
SixDue == [t \in MCSix |-> IF t \in {t1, t6} THEN 1 ELSE Late]
Operators == {m1, m2, m3}
OperatorsOf == [m \in Operators |-> IF m = m2 THEN nodeA ELSE nodeB]
InOrder == <<m1, t1, t6, t2, t5, t3, m2, t4, m3>>
Chain == [c \in MCSix \cup Operators |->
            {InOrder[j] : j \in {j \in 1..9 : \E i \in 1..9 : InOrder[i] = c /\ j < i}}]
=============================================================================
