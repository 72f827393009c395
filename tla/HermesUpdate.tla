---------------------------- MODULE HermesUpdate ----------------------------
(***************************************************************************)
(* One instance.hermes.update job from its claim to its end: the workflow  *)
(* of the Host Agent (executeHermesUpdate), the installer it calls         *)
(* (upgradeHermes and its rollback), the recovery point the control plane  *)
(* keeps for it, and what the control plane records.  Every command may    *)
(* fail half-way, the execution may be canceled at any moment, the agent   *)
(* may crash, and the job is then claimed again.                           *)
(*                                                                         *)
(* The runtime on the host is four facts: the image its manifest names,    *)
(* the image of its containers, whether they run, and its data: "orig"     *)
(* until the target runtime has run on it ("touched"); "partial" while a   *)
(* restore is half done.  restoreRecoveryPoint is here only what it leaves *)
(* behind; RestorePoint has its steps.                                     *)
(***************************************************************************)
EXTENDS Naturals

CONSTANT MaxClaims          \* jobLeaseMaxClaims

VARIABLES
    original,   \* payload.OriginalStatus
    host,       \* the runtime on the host
    blocked,    \* recoveryBlocks: quarantined after an interrupted restore
    point,      \* the recovery point of this update, at the control plane
    staged,     \* the plaintext archive the agent holds for a rollback
    pc, caller, \* where the attempt is, and who called restoreRecoveryPoint
    cancelled,  \* the execution context has ended
    lost,       \* leaseLost
    res,        \* the result being built
    job, claims,
    record      \* the instance row

vars == <<original, host, blocked, point, staged, pc, caller, cancelled, lost,
          res, job, claims, record>>

\* images: "current", "target"; data: "orig", "touched", "partial"
NoResult == [ok |-> FALSE, status |-> "STOPPED", image |-> "none"]

Init ==
    /\ original \in { "RUNNING", "STOPPED" }
    /\ host = [manifest |-> "current", image |-> "current", up |-> original = "RUNNING",
               data |-> "orig", leftover |-> FALSE]
    /\ blocked = FALSE
    /\ point = [status |-> "CREATING", data |-> "orig"]
    /\ staged = "none"
    /\ pc = "idle" /\ caller = "none" /\ cancelled = FALSE /\ lost = FALSE
    /\ res = NoResult
    /\ job = "active" /\ claims = 0
    /\ record = [status |-> "UPDATING", image |-> "current"]

Fenced == lost \/ cancelled
Executing == pc \notin { "idle", "report" }

server == <<job, claims, record>>
attempt == <<original, cancelled, blocked>>

Goto(l) == pc' = l /\ UNCHANGED <<res, caller>>
Finish(ok, status, image) ==
    /\ pc' = "report" /\ res' = [ok |-> ok, status |-> status, image |-> image]
    /\ UNCHANGED caller

(* report(stage): recorded, not recorded, or refused with the lease lost.  *)
Reports == { "recorded" } \cup { "error" } \cup { "refused" }
Report(r) ==
    /\ lost' = (lost \/ r = "refused")
    /\ Fenced => r # "recorded"

------------------------------------------------------------------------------
(* The commands, each with what it may leave behind.                       *)

(* The target runtime leaves its mark on the data it runs on.              *)
Ran(image, data) == IF image = "target" THEN "touched" ELSE data

(* prepareRuntimeLifecycle, up -d, verifyRuntimeLifecycle: the manifest is  *)
(* written for the image of the request before anything is started.        *)
StartOutcomes(image) ==
    LET written == [host EXCEPT !.manifest = image]
        created == [written EXCEPT !.image = image, !.data = Ran(image, @)]
        refused == [ok |-> FALSE, host |-> host]
    IN IF blocked \/ Fenced THEN { refused }
       ELSE { refused, [ok |-> FALSE, host |-> written] }
            \cup { [ok |-> FALSE, host |-> [created EXCEPT !.up = up]] : up \in BOOLEAN }
            \cup { [ok |-> TRUE, host |-> [created EXCEPT !.up = TRUE]] }

StopOutcomes ==
    LET stopped == [host EXCEPT !.up = FALSE]
        refused == [ok |-> FALSE, host |-> host]
    IN IF blocked \/ Fenced THEN { refused }
       ELSE { refused, [ok |-> FALSE, host |-> stopped], [ok |-> TRUE, host |-> stopped] }

(* restoreOriginalState: the current image again, if it ran and the lease  *)
(* is still ours.                                                          *)
RestoreOriginalState ==
    /\ pc = "restoreOriginal"
    /\ IF original # "RUNNING" \/ Fenced
       THEN Finish(FALSE, "STOPPED", "none") /\ UNCHANGED host
       ELSE \E o \in StartOutcomes("current") :
               /\ host' = o.host
               /\ Finish(FALSE, IF o.ok THEN "RUNNING" ELSE "FAILED", "none")
    /\ UNCHANGED <<attempt, lost, point, staged, server>>

------------------------------------------------------------------------------
(* The stages of executeHermesUpdate.                                      *)

(* PREPARING_RELEASE: the target image is verified or built.               *)
Prepare ==
    /\ pc = "prepare"
    /\ \E r \in Reports, ok \in BOOLEAN :
          /\ Report(r)
          /\ IF r = "recorded" /\ ok
             THEN Goto("stop") ELSE Finish(FALSE, original, "none")
    /\ UNCHANGED <<attempt, host, point, staged, server>>

(* STOPPING: always, so that a reclaimed job finds the containers at rest. *)
Stop ==
    /\ pc = "stop"
    /\ \E r \in Reports :
          /\ Report(r)
          /\ IF r # "recorded" THEN Finish(FALSE, original, "none") /\ UNCHANGED host
             ELSE \E o \in StopOutcomes :
                     /\ host' = o.host
                     /\ Goto(IF o.ok THEN "backup" ELSE "restoreOriginal")
    /\ UNCHANGED <<attempt, point, staged, server>>

(* BACKING_UP: downloadExistingUpdateBackup.  The control plane answers    *)
(* with a READY point, verifies an UPLOADED one first, says 404 to one     *)
(* still being created, and refuses a failed one.                          *)
FetchBackup ==
    /\ pc = "backup"
    /\ \E r \in Reports :
          /\ Report(r)
          /\ \/ r # "recorded" /\ Goto("restoreOriginal") /\ UNCHANGED <<point, staged>>
             \/ /\ r = "recorded" /\ point.status \in { "UPLOADED", "READY" }
                /\ point' = [point EXCEPT !.status = "READY"]
                /\ staged' = point.data /\ Goto("install")
             \/ /\ r = "recorded" /\ point.status = "CREATING"
                /\ Goto("create") /\ UNCHANGED <<point, staged>>
             \/ /\ r = "recorded" /\ Goto("restoreOriginal") /\ UNCHANGED staged
                /\ point' \in { point } \cup (IF point.status = "UPLOADED"
                                             THEN { [point EXCEPT !.status = "READY"] } ELSE {})
    /\ UNCHANGED <<attempt, host, server>>

(* createRecoveryPoint refuses containers that run or are not the recorded *)
(* image.                                                                  *)
BackupAllowed == ~Fenced /\ ~blocked /\ ~host.up /\ host.image = "current"

(* Its archive is uploaded; the answer to the upload may be lost.          *)
CreateBackup ==
    /\ pc = "create"
    /\ \/ /\ BackupAllowed
          /\ point' = [status |-> "UPLOADED", data |-> host.data]
          /\ Goto("verify") \/ Goto("restoreOriginal")
       \/ Goto("restoreOriginal") /\ UNCHANGED point
    /\ UNCHANGED <<attempt, host, lost, staged, server>>

(* Mutant: the agent installs while the verification is under way.         *)
VerifyBackup_NotAwaited ==
    /\ pc = "verify" /\ staged' = point.data /\ Goto("install")
    /\ UNCHANGED <<attempt, host, lost, point, server>>

(* verifyRecoveryPointForUpdate, then decryptRecoveryArtifact: an archive  *)
(* that fails its integrity check fails the point.                         *)
VerifyBackup ==
    /\ pc = "verify"
    /\ \/ /\ ~Fenced
          /\ point' = [point EXCEPT !.status = "READY"]
          /\ \/ staged' = point.data /\ Goto("install")
             \/ UNCHANGED staged /\ Goto("restoreOriginal")
       \/ /\ point' \in { point, [point EXCEPT !.status = "FAILED"] }
          /\ UNCHANGED staged /\ Goto("restoreOriginal")
    /\ UNCHANGED <<attempt, host, lost, server>>

------------------------------------------------------------------------------
(* upgradeHermes, from the stopped source to the stopped target.           *)

StoppedTarget == host.manifest = "target" /\ host.image = "target" /\ ~host.up
StoppedSource == host.manifest = "current" /\ host.image = "current" /\ ~host.up

(* INSTALLING: done before; refused before any change; the manifest names  *)
(* the target now, or did already.                                         *)
WriteManifest ==
    /\ pc = "install"
    /\ \E r \in Reports :
          /\ Report(r)
          /\ \/ r # "recorded" /\ Goto("restoreOriginal") /\ UNCHANGED host
             \/ /\ r = "recorded" /\ StoppedTarget
                /\ Goto("restoreState") /\ UNCHANGED host
             \/ /\ r = "recorded" /\ Goto("restoreOriginal") /\ UNCHANGED host
             \/ /\ r = "recorded" /\ ~StoppedTarget
                /\ StoppedSource \/ host.manifest = "target"
                /\ host' = [host EXCEPT !.manifest = "target"]
                /\ Goto("recreate")
    /\ UNCHANGED <<attempt, point, staged, server>>

(* up --force-recreate, health, readiness, stop, verification.             *)
Recreate ==
    /\ pc = "recreate"
    /\ LET created == [host EXCEPT !.image = "target", !.data = "touched"]
       IN \/ /\ ~Fenced
             /\ host' = [created EXCEPT !.up = FALSE] /\ Goto("restoreState")
          \/ /\ host' \in { host } \cup { [created EXCEPT !.up = up] : up \in BOOLEAN }
             /\ Goto("rollback")
    /\ UNCHANGED <<attempt, lost, point, staged, server>>

(* rollbackHermesUpgrade: a stop whose failure is ignored, then the        *)
(* restore.  Its context is the one of the execution.                      *)
Rollback ==
    /\ pc = "rollback"
    /\ \E o \in StopOutcomes : host' = o.host
    /\ pc' = "restoring" /\ caller' = "installer"
    /\ UNCHANGED <<attempt, lost, point, staged, res, server>>

RollbackFailed == Finish(FALSE, "FAILED", "none")

(* The restored runtime is recreated, checked, stopped and verified.       *)
RecreateSource ==
    /\ pc = "recreateSource"
    /\ \/ /\ ~Fenced
          /\ host' = [host EXCEPT !.image = "current", !.up = FALSE]
          /\ Goto("restoreOriginal")
       \/ /\ host' \in { host } \cup { [host EXCEPT !.image = "current", !.up = up] : up \in BOOLEAN }
          /\ RollbackFailed
    /\ UNCHANGED <<attempt, lost, point, staged, server>>

(* restoreRecoveryPoint past its preflight: the workspace is swapped, the   *)
(* volume cleared.  A preflight that fails, and a refusal, change nothing. *)
BeginRestore ==
    /\ pc = "restoring"
    /\ \/ /\ ~Fenced /\ ~blocked /\ ~host.up
          /\ host' = [host EXCEPT !.manifest = "current", !.data = "partial", !.leftover = TRUE]
          /\ Goto("swapped")
       \/ RollbackFailed /\ UNCHANGED host
    /\ UNCHANGED <<attempt, lost, point, staged, server>>

(* The archive is in place; or the swap is undone and the caller fails; or *)
(* it cannot be undone.                                                    *)
EndRestore ==
    /\ pc = "swapped"
    /\ \/ /\ ~Fenced
          /\ host' = [host EXCEPT !.data = staged, !.leftover = FALSE]
          /\ Goto(IF caller = "installer" THEN "recreateSource" ELSE "startOriginal")
       \/ /\ ~Fenced
          /\ host' = [host EXCEPT !.manifest = "target", !.data = "touched", !.leftover = FALSE]
          /\ RollbackFailed
       \/ RollbackFailed /\ UNCHANGED host
    /\ UNCHANGED <<attempt, lost, point, staged, server>>

------------------------------------------------------------------------------
(* After the install: the target is verified, whatever is recorded.        *)

RestoreState ==
    /\ pc = "restoreState"
    /\ \E r \in Reports :
          /\ Report(r)
          /\ IF r # "recorded" /\ (Fenced \/ r = "refused")
             THEN Finish(FALSE, "STOPPED", "target")
             ELSE IF original = "RUNNING" THEN Goto("startTarget") ELSE Goto("finalReport")
    /\ UNCHANGED <<attempt, host, point, staged, server>>

StartTarget ==
    /\ pc = "startTarget"
    /\ IF Fenced THEN Finish(FALSE, "STOPPED", "target") /\ UNCHANGED host
       ELSE \E o \in StartOutcomes("target") :
               /\ host' = o.host
               /\ \/ o.ok /\ Goto("finalReport")
                  \/ ~o.ok /\ Goto("startFailed")
    /\ UNCHANGED <<attempt, lost, point, staged, server>>

(* The target does not start: stop it, restore, and start the original.    *)
StopTarget ==
    /\ pc = "startFailed"
    /\ IF Fenced THEN Finish(FALSE, "STOPPED", "target") /\ UNCHANGED host
       ELSE \E o \in StopOutcomes :
               /\ host' = o.host
               /\ IF o.ok THEN pc' = "restoring" /\ caller' = "workflow" /\ UNCHANGED res
                  ELSE Finish(FALSE, "FAILED", "none")
    /\ UNCHANGED <<attempt, lost, point, staged, server>>

StartOriginal ==
    /\ pc = "startOriginal"
    /\ \E o \in StartOutcomes("current") :
          /\ host' = o.host
          /\ Finish(FALSE, IF o.ok THEN "RUNNING" ELSE "FAILED", "none")
    /\ UNCHANGED <<attempt, lost, point, staged, server>>

(* VERIFYING_VERSION: only recorded; the update has succeeded.             *)
FinalReport ==
    /\ pc = "finalReport"
    /\ \E r \in Reports : Report(r)
    /\ Finish(TRUE, original, "target")
    /\ UNCHANGED <<attempt, host, point, staged, server>>

------------------------------------------------------------------------------
(* The end of the attempt.                                                 *)

(* completeJob on both sides: the row takes the status and, with a result  *)
(* that carries the target's ID, the target image; a point that was not    *)
(* verified is failed.                                                     *)
Complete ==
    /\ pc = "report" /\ ~lost
    /\ cancelled => res.image = "target"
    /\ job' = "ended"
    /\ record' = [status |-> res.status,
                  image |-> IF res.image = "target" THEN "target" ELSE record.image]
    /\ point' = IF point.status \in { "CREATING", "UPLOADED" }
                THEN [point EXCEPT !.status = "FAILED"] ELSE point
    /\ pc' = "idle" /\ staged' = "none"
    /\ UNCHANGED <<original, host, blocked, caller, cancelled, lost, res, claims>>

(* A result nobody takes: the context is gone, or the lease is.            *)
Drop ==
    /\ pc = "report" /\ Fenced
    /\ pc' = "idle" /\ staged' = "none"
    /\ UNCHANGED <<original, host, blocked, point, caller, cancelled, lost, res, server>>

(* The renewal loop, a shutdown's grace period: the context ends.          *)
Cancel ==
    /\ pc # "idle" /\ ~cancelled
    /\ cancelled' = TRUE
    /\ UNCHANGED <<original, host, blocked, point, staged, pc, caller, lost, res, server>>

(* The agent dies; the next one quarantines what a restore left over.      *)
Crash ==
    /\ pc # "idle"
    /\ pc' = "idle" /\ staged' = "none" /\ blocked' = host.leftover
    /\ UNCHANGED <<original, host, point, caller, cancelled, lost, res, server>>

(* The job is claimed, again once its lease has run out.                   *)
Claim ==
    /\ pc = "idle" /\ job = "active" /\ claims < MaxClaims
    /\ claims' = claims + 1 /\ pc' = "prepare"
    /\ cancelled' = FALSE /\ lost' = FALSE /\ res' = NoResult
    /\ UNCHANGED <<original, host, blocked, point, staged, caller, job, record>>

(* failExpiredJobLease: the status the instance had before the update; the  *)
(* unfinished reservation goes with the next poll of the host.             *)
GiveUp ==
    /\ pc = "idle" /\ job = "active" /\ claims = MaxClaims
    /\ job' = "abandoned"
    /\ record' = [record EXCEPT !.status = original]
    /\ point' = IF point.status \in { "CREATING", "UPLOADED" }
                THEN [point EXCEPT !.status = "NONE"] ELSE point
    /\ UNCHANGED <<original, host, blocked, staged, pc, caller, cancelled, lost, res, claims>>

Step ==
    \/ Prepare \/ Stop \/ FetchBackup \/ CreateBackup \/ VerifyBackup
    \/ WriteManifest \/ Recreate \/ Rollback \/ RecreateSource
    \/ BeginRestore \/ EndRestore \/ RestoreOriginalState
    \/ RestoreState \/ StartTarget \/ StopTarget \/ StartOriginal \/ FinalReport
    \/ Complete \/ Drop

Next == Step \/ Claim \/ GiveUp \/ Cancel \/ Crash

(* The agent goes on with what it executes, the host polls for jobs, and a *)
(* lease runs out; nothing makes an execution be canceled or a crash.      *)
Spec == Init /\ [][Next]_vars /\ WF_vars(Step) /\ WF_vars(Claim) /\ WF_vars(GiveUp)

------------------------------------------------------------------------------
(* The runtime is changed only after the control plane has verified the    *)
(* backup, and that backup is of the data as it was before the update,     *)
(* however often the job is claimed again after a crash.                   *)
ChangesOnlyBehindBackup ==
    host.manifest = "target" \/ host.image = "target" \/ host.data # "orig" =>
        point.status = "READY" /\ point.data = "orig"

(* A success that the control plane records is true on the host: manifest  *)
(* and containers are the target, and the instance is in the state it had. *)
SuccessIsReal ==
    job = "ended" /\ res.ok =>
        /\ host.manifest = "target" /\ host.image = "target" /\ record.image = "target"
        /\ record.status = original /\ (host.up <=> original = "RUNNING")

(* A failure that names the target says what is on the host: the report of *)
(* a verified install survives the end of its lease.                       *)
RecordedTargetIsInstalled ==
    record.image = "target" => host.manifest = "target" /\ host.image = "target"

(* completeJob: the status that a result leaves on record is the state of  *)
(* the runtime on the host, unless it is FAILED, or the install was        *)
(* interrupted while the target was started.                               *)
RecordedStatusIsTrue ==
    job = "ended" /\ record.status # "FAILED" /\ (res.ok \/ res.image = "none") =>
        /\ host.up <=> record.status = "RUNNING"
        /\ host.manifest = record.image /\ host.image = record.image

(* A failed installation uses the verified pre-update archive for          *)
(* rollback: a failed update that leaves the instance on its old image,    *)
(* not FAILED, leaves it the data of before the update.                    *)
OldImageHasOldData ==
    job = "ended" /\ ~res.ok /\ record.status # "FAILED" /\ record.image = "current" =>
        host.data = "orig"

(* Only successful lease-fenced completion records the new image reference *)
(* and immutable ID.                                                       *)
OnlySuccessRecordsTarget == record.image = "target" => res.ok
==============================================================================
