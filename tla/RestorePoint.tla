---------------------------- MODULE RestorePoint ----------------------------
(***************************************************************************)
(* One instance.recovery.restore job on the host (restoreRecoveryPoint):   *)
(* the managed workspace is swapped for the one of the archive and the     *)
(* data volume is cleared and filled, with a rollback copy of each; on a   *)
(* clean host both are created.  Every command may fail half-way, the      *)
(* execution may be canceled at any moment, the agent may be restarted,    *)
(* and the job is then claimed again.                                      *)
(*                                                                         *)
(* Workspace and volume are known by where their content comes from: the   *)
(* state before ("old"), the archive ("new"), nothing, or a part of        *)
(* something ("broken").                                                   *)
(***************************************************************************)
EXTENDS Naturals, FiniteSets

CONSTANTS
    MaxClaims,  \* jobLeaseMaxClaims
    FaultSets   \* what may go wrong in a behaviour: commands that fail, "cancel"

Commands == { "inspect", "export", "rename", "clear", "import", "compose",
              "rollback", "create", "cancel" }

VARIABLES
    faults,     \* the fault set of this behaviour
    archive,    \* is the downloaded artifact what its manifest says
    ws, volume, \* managed path, data volume
    aside,      \* .X.restore-backup-*: the workspace this attempt set aside
    leftover,   \* those of earlier attempts that are still on disk
    copy,       \* .restore-volume-backup-*.tar
    mutated,    \* volumeMutated
    blocked,    \* recoveryBlocks holds the instance
    pc, cancelled, result, job, claims,
    status,     \* of the instance row
    first,      \* history: the content when the job was queued
    restored    \* history: some attempt has put the archive in place

vars == <<faults, archive, ws, volume, aside, leftover, copy, mutated, blocked, pc,
          cancelled, result, job, claims, status, first, restored>>

\* contents: "none", "old", "new", "empty", "broken"
NoResult == [ok |-> FALSE, status |-> "none"]

Init ==
    /\ faults \in FaultSets
    /\ archive \in { "good", "bad" }
    /\ ws \in { "old", "none" } /\ volume = ws /\ first = ws
    /\ aside = "none" /\ leftover = {} /\ copy = "none" /\ mutated = FALSE
    /\ blocked = FALSE /\ pc = "idle" /\ cancelled = FALSE /\ result = NoResult
    /\ job = "active" /\ claims = 0 /\ status = "RESTORING" /\ restored = FALSE

MayFail(c) == cancelled \/ c \in faults

queue == <<job, claims, status, first, archive, faults>>
disk == <<ws, volume, aside, leftover>>
self == <<cancelled, blocked, restored>>

Goto(l) == pc' = l /\ UNCHANGED <<result, copy>>

(* A return: the deferred os.Remove takes the volume's rollback copy.      *)
Return(ok, s) ==
    /\ pc' = "report" /\ result' = [ok |-> ok, status |-> s] /\ copy' = "none"

Refused == Return(FALSE, "STOPPED") /\ UNCHANGED disk

------------------------------------------------------------------------------
(* Preflight and staging: nothing is changed yet.                          *)

(* downloadRecoveryPoint: size and checksum are those of the payload.      *)
Download ==
    /\ pc = "download"
    /\ \/ MayFail("inspect") /\ Refused
       \/ ~cancelled /\ Goto("preflight") /\ UNCHANGED disk
    /\ UNCHANGED <<mutated, self, queue>>

(* restoreManagedPath: the answers, none for a quarantined instance.       *)
WorkspaceExists == IF blocked THEN {} ELSE { ws # "none" }

(* restoreVolumeExists.                                                    *)
VolumeExists == volume # "none"

(* Identity, artifact, quarantine, both or none of workspace and volume,   *)
(* stopped containers, a compatible runtime image, disk space.  Half a     *)
(* workspace may pass for a complete one.                                  *)
Preflight ==
    /\ pc = "preflight"
    /\ \/ /\ MayFail("inspect") \/ VolumeExists \notin WorkspaceExists \/ ws = "broken"
          /\ Refused
       \/ /\ ~cancelled /\ VolumeExists \in WorkspaceExists
          /\ Goto("extract") /\ UNCHANGED disk
    /\ UNCHANGED <<mutated, self, queue>>

(* extractRestoreArchive: into the staging directory, checked entry by     *)
(* entry against the manifest and the payload.                             *)
Extract ==
    /\ pc = "extract"
    /\ \/ (archive = "bad" \/ MayFail("inspect")) /\ Refused
       \/ /\ archive = "good" /\ ~cancelled
          /\ Goto(IF VolumeExists THEN "export" ELSE "create")
          /\ UNCHANGED disk
    /\ UNCHANGED <<mutated, self, queue>>

(* exportVolume: the rollback copy of the data.                            *)
Export ==
    /\ pc = "export"
    /\ \/ MayFail("export") /\ Refused
       \/ /\ ~cancelled /\ copy' = volume /\ pc' = "swap"
          /\ UNCHANGED <<result, disk>>
    /\ UNCHANGED <<mutated, self, queue>>

------------------------------------------------------------------------------
(* The mutation.                                                           *)

(* The current workspace is renamed; a canceled restore ends before it.    *)
SetAside ==
    /\ pc = "swap"
    /\ \/ MayFail("rename") /\ Refused
       \/ /\ ~cancelled
          /\ ws' = "none" /\ aside' = ws /\ Goto("publish")
          /\ UNCHANGED <<volume, leftover>>
    /\ UNCHANGED <<mutated, self, queue>>

(* The staged workspace takes its place, or the old one is renamed back,   *)
(* whether that works or not.                                              *)
Publish ==
    /\ pc = "publish"
    /\ \/ /\ ws' = "new" /\ Goto("clear") /\ mutated' = FALSE
          /\ UNCHANGED <<volume, aside, leftover>>
       \/ /\ "rename" \in faults /\ Return(FALSE, "STOPPED")
          /\ ws' = aside /\ aside' = "none" /\ UNCHANGED <<volume, leftover, mutated>>
       \/ /\ "rename" \in faults /\ Return(FALSE, "STOPPED")
          /\ leftover' = leftover \cup { aside } /\ aside' = "none"
          /\ UNCHANGED <<ws, volume, mutated>>
    /\ UNCHANGED <<self, queue>>

(* clearVolume: counted as a mutation only when it has succeeded.          *)
Clear ==
    /\ pc = "clear"
    /\ \/ ~cancelled /\ volume' = "empty" /\ mutated' = TRUE /\ Goto("import")
       \/ /\ MayFail("clear") /\ volume' \in { volume, "broken" }
          /\ Goto("rollbackVolume") /\ UNCHANGED mutated
    /\ UNCHANGED <<ws, aside, leftover, self, queue>>

(* Only restoreRecoveryPointToAbsentState comes here with nothing set      *)
(* aside.                                                                  *)
CleanHost == aside = "none"

(* Mutant: a failed import is not noticed.                                 *)
Import_Unchecked ==
    /\ pc = "import" /\ Goto("check")
    /\ volume' \in { "new" } \cup (IF MayFail("import") THEN { "broken" } ELSE {})
    /\ UNCHANGED <<ws, aside, leftover, mutated, self, queue>>

Import ==
    /\ pc = "import"
    /\ \/ ~cancelled /\ volume' = "new" /\ Goto("check")
       \/ /\ MayFail("import") /\ volume' \in { volume, "broken" }
          /\ Goto(IF CleanHost THEN "rollbackAbsent" ELSE "rollbackVolume")
    /\ UNCHANGED <<ws, aside, leftover, mutated, self, queue>>

(* compose config, no running containers; then the old workspace is        *)
(* removed as far as that goes.                                            *)
Check ==
    /\ pc = "check"
    /\ \/ /\ ~cancelled /\ Return(TRUE, "STOPPED")
          /\ leftover' \in { leftover } \cup
                (IF aside # "none" /\ "rename" \in faults THEN { leftover \cup { "broken" } } ELSE {})
          /\ aside' = "none" /\ restored' = TRUE
       \/ /\ MayFail("compose")
          /\ Goto(IF CleanHost THEN "rollbackAbsent" ELSE "rollbackVolume")
          /\ UNCHANGED <<aside, leftover, restored>>
    /\ UNCHANGED <<ws, volume, mutated, cancelled, blocked, queue>>

------------------------------------------------------------------------------
(* The rollback.  Its context is derived from the one of the execution.    *)

(* replaceVolume, when the volume has been cleared.                        *)
RollbackVolume ==
    /\ pc = "rollbackVolume"
    /\ \/ ~mutated /\ UNCHANGED volume /\ Goto("rollbackWorkspace")
       \/ mutated /\ ~cancelled /\ volume' = copy /\ Goto("rollbackWorkspace")
       \/ /\ mutated /\ MayFail("rollback")
          /\ volume' \in { volume, "empty", "broken" } /\ Goto("rollbackWorkspaceFailed")
    /\ UNCHANGED <<ws, aside, leftover, mutated, self, queue>>

(* The restored workspace is removed and the old one renamed back; with an *)
(* error in any of the two rollbacks the instance is FAILED.               *)
RollbackWorkspace ==
    /\ pc \in { "rollbackWorkspace", "rollbackWorkspaceFailed" }
    /\ \/ /\ ~cancelled /\ ws' = aside /\ UNCHANGED leftover
          /\ Return(FALSE, IF pc = "rollbackWorkspace" THEN "STOPPED" ELSE "FAILED")
       \/ /\ MayFail("rollback") /\ ws' \in { ws, "broken", "none" }
          /\ leftover' = leftover \cup { aside } /\ Return(FALSE, "FAILED")
    /\ aside' = "none"
    /\ UNCHANGED <<volume, mutated, self, queue>>

------------------------------------------------------------------------------
(* restoreRecoveryPointToAbsentState.                                      *)

CreateVolume ==
    /\ pc = "create"
    /\ \/ MayFail("create") /\ volume' \in { volume, "empty" } /\ Return(FALSE, "STOPPED")
       \/ ~cancelled /\ volume' = "empty" /\ Goto("publishAbsent")
    /\ UNCHANGED <<ws, aside, leftover, mutated, self, queue>>

PublishAbsent ==
    /\ pc = "publishAbsent"
    /\ \/ ws' = "new" /\ Goto("import")
       \/ "rename" \in faults /\ UNCHANGED ws /\ Goto("rollbackAbsent")
    /\ UNCHANGED <<volume, aside, leftover, mutated, self, queue>>

(* Its context is independent of the execution.                            *)
RollbackAbsent ==
    /\ pc = "rollbackAbsent"
    /\ \/ ws' = "none" /\ volume' = "none" /\ Return(FALSE, "STOPPED")
       \/ /\ "rollback" \in faults /\ Return(FALSE, "FAILED")
          /\ ws' \in { "none", "broken" } /\ volume' \in { "none", volume }
          /\ ws' = "broken" \/ volume' # "none"
    /\ UNCHANGED <<aside, leftover, mutated, self, queue>>

------------------------------------------------------------------------------
(* The job around the execution.                                           *)

(* completeJob; a result of a canceled execution is dropped.               *)
Report ==
    /\ pc = "report" /\ pc' = "idle"
    /\ \/ /\ ~cancelled
          /\ job' = IF result.ok THEN "done" ELSE "failed"
          /\ status' = result.status
       \/ cancelled /\ UNCHANGED <<job, status>>
    /\ UNCHANGED <<disk, copy, mutated, self, result, claims, first, archive, faults>>

Cancel ==
    /\ "cancel" \in faults /\ pc # "idle" /\ ~cancelled /\ cancelled' = TRUE
    /\ UNCHANGED <<disk, copy, mutated, blocked, restored, pc, result, queue>>

(* Mutant: a workspace that was set aside is taken for an old file.        *)
Restart_NoQuarantine ==
    /\ pc' = "idle" /\ copy' = "none"
    /\ leftover' = leftover \cup ({ aside } \ { "none" }) /\ aside' = "none"
    /\ blocked' = FALSE
    /\ UNCHANGED <<ws, volume, mutated, cancelled, restored, result, queue>>

(* The agent dies and New runs cleanupRecoveryStaging: staging and volume  *)
(* copies are removed, a workspace that was set aside blocks the instance. *)
Restart ==
    /\ pc # "idle" \/ blocked # (leftover # {})
    /\ pc' = "idle" /\ copy' = "none"
    /\ leftover' = leftover \cup ({ aside } \ { "none" }) /\ aside' = "none"
    /\ blocked' = (leftover' # {})
    /\ UNCHANGED <<ws, volume, mutated, cancelled, restored, result, queue>>

Claim ==
    /\ pc = "idle" /\ job = "active" /\ claims < MaxClaims
    /\ claims' = claims + 1 /\ pc' = "download"
    /\ cancelled' = FALSE /\ mutated' = FALSE /\ result' = NoResult
    /\ UNCHANGED <<disk, copy, blocked, restored, job, status, first, archive, faults>>

GiveUp ==
    /\ pc = "idle" /\ job = "active" /\ claims = MaxClaims
    /\ job' = "failed" /\ status' = "FAILED" /\ result' = NoResult
    /\ UNCHANGED <<disk, copy, mutated, self, pc, claims, first, archive, faults>>

(* A start job afterwards: safeManagedPath lets it through.                *)
Start ==
    /\ pc = "idle" /\ status = "STOPPED" /\ ~blocked /\ ws # "none"
    /\ status' = "RUNNING"
    /\ UNCHANGED <<disk, copy, mutated, self, pc, result, job, claims, first, archive, faults>>

Step ==
    \/ Download \/ Preflight \/ Extract \/ Export \/ SetAside \/ Publish \/ Clear \/ Import
    \/ Check \/ RollbackVolume \/ RollbackWorkspace
    \/ CreateVolume \/ PublishAbsent \/ RollbackAbsent \/ Report

Next == Step \/ Cancel \/ Restart \/ Claim \/ GiveUp \/ Start

(* The agent goes on, its host polls, leases run out.                      *)
Spec == Init /\ [][Next]_vars /\ WF_vars(Step) /\ WF_vars(Claim) /\ WF_vars(GiveUp)

------------------------------------------------------------------------------
(* A restore that is recorded as done has the workspace and the data of    *)
(* the archive, whatever earlier attempts left behind.                     *)
SuccessIsComplete == job = "done" => ws = "new" /\ volume = "new"

(* Until an attempt has succeeded the former workspace is in its place or    *)
(* set aside, through crashes, failed rollbacks and further attempts.      *)
OldWorkspaceKept ==
    first = "old" /\ ~restored =>
        "old" \in { ws, aside } \cup leftover

(* An archive that does not match its recovery point changes nothing.      *)
BadArchiveChangesNothing == archive = "bad" => ws = first /\ volume = first

(* The workspace and the data an instance runs on belong together: a       *)
(* restore cut off by a crash is not started, however it is retried.       *)
RunsWhole ==
    status = "RUNNING" /\ first = "old" => ws = volume /\ ws \in { "old", "new" }

(* The agent uses an independent bounded context to roll back partial      *)
(* failure: an attempt does not end between two states.                    *)
EndsWhole == pc = "report" /\ first = "old" => ws = volume

(* The last message of restoreRecoveryPoint: a restore that failed with     *)
(* STOPPED has restored the original stopped state.                        *)
OriginalRestored ==
    job = "failed" /\ status = "STOPPED" => ws = first /\ volume = first
==============================================================================
