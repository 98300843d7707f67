--------------------------- MODULE MCBatchJobRun ---------------------------
(***************************************************************************)
(* Instances of BatchJobRun for TLC; the constants are numbers and sets of *)
(* line numbers, given in the configurations.                              *)
(***************************************************************************)
EXTENDS BatchJobRun

=============================================================================
