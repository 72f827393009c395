------------------------- MODULE MCRecoveryPoints -------------------------
(* The recovery points for TLC: the kinds of jobs that reserve.            *)
EXTENDS RecoveryPoints

Both == { "create", "update" }
OnlyUpdate == { "update" }
==============================================================================
