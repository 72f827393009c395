----------------------------- MODULE FleetDomain -----------------------------
(***************************************************************************)
(* The vocabulary the control plane and the Host Agent share: lifecycle    *)
(* statuses of an instance, statuses of a job, the job types, and for each *)
(* type the tables the store and the API handlers branch on.  No state.    *)
(* Job types carry the names of the source without the "instance." prefix; *)
(* "hermes.inspect" stands for the ten profile, capability, skill and   *)
(* toolset jobs, which the store treats alike in everything modelled here. *)
(***************************************************************************)
EXTENDS Naturals

(* The lifecycle status column of table instances, "NONE" before the row.  *)
InstanceStatuses ==
    { "NONE", "PROVISIONING", "RUNNING", "RESTARTING", "UPDATING", "STOPPED",
      "RECONCILING", "BACKING_UP", "RESTORING", "DELETING", "DELETED", "FAILED" }

(* The statuses in which a lifecycle job owns the instance.                *)
TransitionalStatuses ==
    { "PROVISIONING", "RESTARTING", "UPDATING", "RECONCILING", "BACKING_UP",
      "RESTORING" }

(* The status column of table jobs; "NONE" before the row exists, "GONE"   *)
(* once DeleteChatSession has removed it.                                  *)
JobStatuses == { "NONE", "PENDING", "LEASED", "RUNNING", "SUCCEEDED", "FAILED", "GONE" }

ActiveStatuses == { "PENDING", "LEASED", "RUNNING" }

TerminalStatuses == { "SUCCEEDED", "FAILED" }

OperationStatuses == { "NONE", "PENDING", "RUNNING", "SUCCEEDED", "FAILED", "GONE" }

(* Configuration jobs own a row with a desired and an applied revision.    *)
ConfigTypes == { "messaging.configure", "mcp.configure" }

(* Jobs queued through QueueAction or CreateInstance.                      *)
ActionTypes ==
    { "provision", "start", "stop", "delete", "runtime.repair", "runtime.sync",
      "runtime.configure", "image.reconcile", "image.repair", "recovery.create",
      "recovery.restore", "hermes.update" }

(* Every job that moves the instance to a status of its own when queued.   *)
LifecycleTypes == ActionTypes \cup ConfigTypes

(* Jobs that leave the lifecycle status alone when queued and completed.   *)
RunningInspectionTypes == { "hermes.inspect", "auth.codex" }
InspectionTypes == RunningInspectionTypes \cup { "credentials.inspect" }

JobTypes == LifecycleTypes \cup InspectionTypes \cup { "chat.send" }

(* instanceAction, configureCodex, startHermesUpdate and the recovery point *)
(* handlers: the statuses from which a job of this type may be queued.      *)
QueueableFrom(type) ==
    CASE type = "provision" -> { "FAILED" }
      [] type \in { "start", "image.reconcile", "recovery.create",
                    "recovery.restore" } -> { "STOPPED" }
      [] type \in { "stop", "runtime.repair" } -> { "RUNNING" }
      [] type \in { "runtime.sync", "runtime.configure", "image.repair" }
                    \cup ConfigTypes -> { "RUNNING", "STOPPED" }
      [] type \in { "delete", "hermes.update" } -> { "RUNNING", "STOPPED", "FAILED" }

(* The status the queueing transaction writes.                             *)
QueuedStatus(type) ==
    CASE type \in { "provision", "start", "stop" } -> "PROVISIONING"
      [] type = "runtime.repair" -> "RESTARTING"
      [] type \in { "runtime.sync", "runtime.configure", "hermes.update" }
                    \cup ConfigTypes -> "UPDATING"
      [] type \in { "image.reconcile", "image.repair" } -> "RECONCILING"
      [] type = "recovery.create" -> "BACKING_UP"
      [] type = "recovery.restore" -> "RESTORING"
      [] type = "delete" -> "DELETING"

(* The status the payload asks the Host Agent to come back to              *)
(* (desired_status, restart, original_status).  A failed instance is only  *)
(* updated with restore_status RUNNING.                                    *)
PayloadStatus(type, status) ==
    IF type = "hermes.update" /\ status = "FAILED" THEN "RUNNING" ELSE status

(* Claim order: urgent jobs first, credential inspections last.            *)
Priority(type) ==
    CASE type \in { "stop", "runtime.repair", "recovery.restore", "image.repair" } -> 0
      [] type = "credentials.inspect" -> 20
      [] OTHER -> 10

(* The instance statuses a valid result of a job may leave behind, given   *)
(* the status its payload asked for; {} for a job that leaves it alone.    *)
statusAfterSuccess(type, asked) ==
    CASE type \in { "provision", "start", "runtime.repair" } -> { "RUNNING" }
      [] type \in { "stop", "recovery.create", "recovery.restore",
                    "image.reconcile" } -> { "STOPPED" }
      [] type = "delete" -> { "DELETING" }
      [] type \in { "image.repair", "runtime.sync", "runtime.configure",
                    "hermes.update" } \cup ConfigTypes -> { asked }
      [] OTHER -> {}

statusAfterFailure(type, asked) ==
    CASE type \in { "provision", "start", "stop", "delete" } -> { "FAILED" }
      [] type = "runtime.repair" -> { "RUNNING" }
      [] type \in { "recovery.create", "image.reconcile" } -> { "STOPPED" }
      [] type = "recovery.restore" -> { "STOPPED", "FAILED" }
      [] type \in { "image.repair", "hermes.update" } -> { "RUNNING", "STOPPED", "FAILED" }
      [] type \in { "runtime.sync", "runtime.configure" } \cup ConfigTypes ->
            { asked, "FAILED" }
      [] OTHER -> {}

(* Mutants: the instance row is forgotten; every inspection but Codex      *)
(* authentication falls into the default.                                  *)
statusAfterExpiry_Forgotten(type, asked) == ""
statusAfterExpiry_Default(type, asked) ==
    CASE type = "runtime.repair" -> "RUNNING"
      [] type = "recovery.create" -> "STOPPED"
      [] type = "hermes.update" -> asked
      [] type \in { "auth.codex", "chat.send" } -> ""
      [] OTHER -> "FAILED"

(* failExpiredJobLease: where an abandoned job leaves its instance, "" for *)
(* untouched.  The inspection jobs of Hermes fall into the default and     *)
(* fail the instance.                                                      *)
statusAfterExpiry(type, asked) ==
    CASE type = "runtime.repair" -> "RUNNING"
      [] type = "recovery.create" -> "STOPPED"
      [] type = "hermes.update" -> asked
      [] type \in { "credentials.inspect", "auth.codex", "chat.send" } -> ""
      [] OTHER -> "FAILED"
==============================================================================
