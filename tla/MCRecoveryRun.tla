--------------------------- MODULE MCRecoveryRun ---------------------------
(***************************************************************************)
(* Two workers on one recovery run.                                        *)
(***************************************************************************)
EXTENDS RecoveryRun, TLC

WorkerSymmetry == Permutations(Workers)
=============================================================================
