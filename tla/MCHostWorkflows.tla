--------------------------- MODULE MCHostWorkflows ---------------------------
(* The workflows of the provisioner for TLC.                               *)
EXTENDS HostWorkflows

(* In a restore everything goes wrong; or the execution is not canceled, a *)
(* volume is cleared entirely or not at all, and rollbacks work.           *)
SomeRestoreFaults == { "inspect", "export", "rename", "import", "compose", "create" }
RestoreFaults ==
    { SomeRestoreFaults, SomeRestoreFaults \cup { "clear", "rollback", "cancel" } }

(* In a configuration job everything goes wrong; or no attempt is cut off;  *)
(* or attempts are canceled and rollbacks work.                            *)
CommandFaults == { "inspect", "write", "probe", "recreate" }
ConfigurationFaults ==
    { CommandFaults \cup f : f \in { { "rollback" }, { "cancel" }, { "rollback", "cancel", "crash" } } }
==============================================================================
