--------------------------- MODULE MCHybridCache ---------------------------
(* Instances of HybridCache for TLC. *)
EXTENDS HybridCache

CONSTANTS nodeA, nodeB, c1, c2, c3

\* Three callers meet at the semaphore of one node, so that one can leave,
\* one be inside and one wait; the third may as well write, or use the
\* distributed cache from another node, and the first calls on and on.
MCNode == {nodeA, nodeB}
MCCaller == {c1, c2, c3}
MCReader == {c1, c2, c3}
MCWriter == {c3}
MCAgain == {c1}
MCNear == [c \in MCCaller |-> IF c = c3 THEN MCNode ELSE {nodeA}]
=============================================================================
