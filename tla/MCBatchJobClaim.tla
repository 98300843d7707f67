-------------------------- MODULE MCBatchJobClaim --------------------------
(***************************************************************************)
(* Instances of BatchJobClaim for TLC: two nodes, the first with two       *)
(* workers and the second with one.                                        *)
(***************************************************************************)
EXTENDS BatchJobClaim

CONSTANTS nodeA, nodeB, w1, w2, w3

MCNode == {nodeA, nodeB}
MCWorker == {w1, w2, w3}
MCNodeOf == [w \in MCWorker |-> IF w = w3 THEN nodeB ELSE nodeA]

\* One worker.
MCOne == {nodeA}
MCSingle == {w1}
MCSingleOf == [w \in MCSingle |-> nodeA]

=============================================================================
