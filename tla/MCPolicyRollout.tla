--------------------------- MODULE MCPolicyRollout ---------------------------
(* Policy rollouts for TLC.                                                *)
EXTENDS PolicyRollout

Two == 1 .. 2
Three == 1 .. 3
EveryControl == { "PAUSED", "RUNNING", "CANCELING" }
OnlyResume == { "RUNNING" }
OnlyCancel == { "CANCELING" }
==============================================================================
