------------------------- MODULE MCFileTransaction -------------------------
(* Instances of FileTransaction for TLC. *)
EXTENDS FileTransaction, TLC

CONSTANTS p1, p2, p3, file, dir

MCProcess == {p1, p2, p3}
MCPath == {file, dir}
MCTree == {dir}
MCMissing == {dir}

\* One process replaces a file, whatever it holds, and then a tree, and two remove
\* the file.
MCPlan ==
  [p \in MCProcess |->
     IF p = p1
       THEN <<[kind |-> "put", path |-> file, checked |-> FALSE],
              [kind |-> "put", path |-> dir, checked |-> TRUE]>>
       ELSE <<[kind |-> "remove", path |-> file, checked |-> TRUE]>>]

\* The two have the same plan, and nothing else tells them apart.
MCSymmetry == Permutations({p2, p3})
=============================================================================
