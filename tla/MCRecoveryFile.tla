--------------------------- MODULE MCRecoveryFile ---------------------------
(* RecoveryFile with two goroutines that may stop the session at once.     *)
EXTENDS RecoveryFile, TLC

Symmetry == Permutations(Callers)
=============================================================================
