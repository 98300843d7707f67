------------------------------ MODULE JobQueue ------------------------------
(***************************************************************************)
(* What the claim protocol of the batch jobs promises, without documents,  *)
(* leases or ETags: a job is open until one node starts it, only that node *)
(* runs it, and once it is done it stays done.                             *)
(***************************************************************************)
CONSTANTS Job, Node, Nobody

VARIABLES phase, runner

vars == <<phase, runner>>

Init ==
  /\ phase = [j \in Job |-> "open"]
  /\ runner = [j \in Job |-> Nobody]

Start(j, n) ==
  /\ phase[j] = "open"
  /\ phase' = [phase EXCEPT ![j] = "running"]
  /\ runner' = [runner EXCEPT ![j] = n]

Finish(j) ==
  /\ phase[j] = "running"
  /\ phase' = [phase EXCEPT ![j] = "done"]
  /\ runner' = [runner EXCEPT ![j] = Nobody]

Next == \E j \in Job : Finish(j) \/ \E n \in Node : Start(j, n)

Spec == Init /\ [][Next]_vars

=============================================================================
