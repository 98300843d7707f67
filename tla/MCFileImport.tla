---------------------------- MODULE MCFileImport ----------------------------
(* Instances of FileImport for TLC. *)
EXTENDS FileImport

CONSTANTS d1, d2, w1, w2

MCDelivery == {d1, d2}
MCWorker == {w1, w2}

\* A file that is not split, and one of two chunks.
MCLengths == {2, 3}
=============================================================================
