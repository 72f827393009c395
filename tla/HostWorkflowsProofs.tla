-------------------------- MODULE HostWorkflowsProofs --------------------------
(***************************************************************************)
(* Proofs about HostWorkflows for every number of claims, jobs, frames and *)
(* outputs and every choice of faults.  Each workflow has an invariant of  *)
(* its own, proved from its module's steps; the provisioner has that of    *)
(* the workflow its job selects.                                           *)
(***************************************************************************)
EXTENDS HostWorkflows, TLAPS

------------------------------------------------------------------------------
(* The Hermes update.                                                      *)

Images == { "current", "target" }
Typed(h) ==
    /\ DOMAIN h = { "manifest", "image", "up", "data", "leftover" }
    /\ h.manifest \in Images /\ h.image \in Images /\ h.data \in { "orig", "touched", "partial" }
Undoing == { "rollback", "restoring", "swapped", "recreateSource", "startOriginal" }
Installed == { "restoreState", "startTarget", "startFailed", "finalReport" }
Changing == { "install", "recreate" } \cup Undoing \cup Installed
Backing == { "backup", "create", "verify" }

UpdateTyped ==
    /\ original \in { "RUNNING", "STOPPED" } /\ Typed(host)
    /\ DOMAIN point = { "status", "data" } /\ point.data = "orig"
    /\ point.status \in { "CREATING", "UPLOADED", "READY", "FAILED", "NONE" }
    /\ pc \in { "idle", "prepare", "stop", "restoreOriginal", "report" } \cup Backing \cup Changing
    /\ caller \in { "none", "installer", "workflow" }
    /\ res.status \in { "RUNNING", "STOPPED", "FAILED" } /\ res.image \in { "none", "target" }
    /\ job \in { "active", "ended", "abandoned" } /\ claims \in Nat
    /\ DOMAIN record = { "status", "image" } /\ record.image \in Images

(* The stages behind the backup have it, verified.                         *)
BackupHeld ==
    /\ job # "active" => pc = "idle"
    /\ pc = "create" => point.status = "CREATING"
    /\ pc = "verify" => point.status = "UPLOADED"
    /\ pc \in Changing => point.status = "READY" /\ staged = "orig"

OnTarget == host.manifest = "target" /\ host.image = "target"

(* The target is on the host from the end of its installation on, and so    *)
(* it is when a result names it.                                           *)
TargetInstalled ==
    /\ pc = "recreate" => host.manifest = "target"
    /\ pc \in Installed => OnTarget
    /\ pc \in { "restoreState", "startTarget" } => ~host.up
    /\ pc \in { "startTarget", "startFailed" } => original = "RUNNING"
    /\ pc = "finalReport" => (host.up <=> original = "RUNNING")
    /\ pc = "report" /\ res.image = "target" => OnTarget
    /\ pc = "report" /\ res.ok =>
          res.image = "target" /\ res.status = original /\ (host.up <=> original = "RUNNING")
    /\ job = "active" => record.image = "current"

OnSource == host.manifest = "current" /\ host.image = "current" /\ host.data = "orig"

(* A first attempt meets the runtime as it was.                            *)
FirstAttempt ==
    claims <= 1 =>
        /\ claims = 0 => pc = "idle" /\ job # "ended"
        /\ claims = 0 \/ pc \in { "prepare", "stop" } => OnSource /\ (host.up <=> original = "RUNNING")
        /\ pc \in Backing \cup { "install" } => OnSource /\ ~host.up
        /\ pc = "restoreOriginal" => OnSource /\ (host.up => original = "RUNNING")
        /\ pc = "swapped" => host.manifest = "current"
        /\ pc \in { "recreateSource", "startOriginal" } =>
              host.manifest = "current" /\ host.data = "orig"
        /\ pc = "report" /\ ~U!Fenced /\ res.image = "none" /\ res.status # "FAILED" =>
              OnSource /\ (host.up <=> res.status = "RUNNING")

UpdateInv ==
    /\ UpdateTyped /\ BackupHeld /\ TargetInstalled /\ FirstAttempt
    /\ U!ChangesOnlyBehindBackup /\ U!SuccessIsReal /\ U!RecordedTargetIsInstalled
    /\ claims <= 1 => U!RecordedStatusIsTrue /\ U!OldImageHasOldData

(* What the commands leave behind: a start the manifest and the containers  *)
(* of its image, as far as it got; a stop at most stopped containers.      *)
LEMMA StartOutcome ==
  ASSUME Typed(host), NEW image \in Images, NEW o \in U!StartOutcomes(image)
  PROVE  /\ Typed(o.host) /\ (U!Fenced => ~o.ok /\ o.host = host)
         /\ o.host.manifest \in { host.manifest, image } /\ o.host.image \in { host.image, image }
         /\ o.host.data = host.data \/ (image = "target" /\ o.host.data = "touched")
         /\ o.ok => o.host.manifest = image /\ o.host.image = image /\ o.host.up
<1> DEFINE written == [host EXCEPT !.manifest = image]
           created == [written EXCEPT !.image = image, !.data = U!Ran(image, @)]
           ran == [created EXCEPT !.up = TRUE]
           stopped == [created EXCEPT !.up = FALSE]
<1>1. \/ o = [ok |-> FALSE, host |-> host]
      \/ ~U!Fenced /\ o = [ok |-> FALSE, host |-> written]
      \/ ~U!Fenced /\ o = [ok |-> FALSE, host |-> ran]
      \/ ~U!Fenced /\ o = [ok |-> FALSE, host |-> stopped]
      \/ ~U!Fenced /\ o = [ok |-> TRUE, host |-> ran]
  BY Zenon DEF U!StartOutcomes
<1>2. /\ Typed(written) /\ written.manifest = image /\ written.image = host.image
      /\ written.data = host.data
  BY DEF Typed
<1>3. /\ Typed(ran) /\ ran.manifest = image /\ ran.image = image /\ ran.up
      /\ ran.data = host.data \/ (image = "target" /\ ran.data = "touched")
  BY DEF Typed, Images, U!Ran
<1>4. /\ Typed(stopped) /\ stopped.manifest = image /\ stopped.image = image
      /\ stopped.data = host.data \/ (image = "target" /\ stopped.data = "touched")
  BY DEF Typed, Images, U!Ran
<1> HIDE DEF written, ran, stopped
<1> QED
  BY <1>1, <1>2, <1>3, <1>4

(* What a stop leaves: manifest, image and data as they were.              *)
LEMMA StopOutcome ==
  ASSUME Typed(host), NEW o \in U!StopOutcomes
  PROVE  /\ Typed(o.host) /\ (U!Fenced => ~o.ok)
         /\ o.host.manifest = host.manifest /\ o.host.image = host.image /\ o.host.data = host.data
         /\ o.host.up => host.up
         /\ o.ok => ~o.host.up
<1> DEFINE stopped == [host EXCEPT !.up = FALSE]
<1>1. \/ o = [ok |-> FALSE, host |-> host]
      \/ ~U!Fenced /\ o = [ok |-> FALSE, host |-> stopped]
      \/ ~U!Fenced /\ o = [ok |-> TRUE, host |-> stopped]
  BY SMT DEF U!StopOutcomes
<1>2. /\ Typed(stopped) /\ ~stopped.up /\ stopped.manifest = host.manifest
      /\ stopped.image = host.image /\ stopped.data = host.data
  BY DEF Typed
<1> HIDE DEF stopped
<1> QED
  BY <1>1, <1>2

(* The stages of an attempt, one at a time.                                *)
LEMMA UpdateStep ==
  ASSUME UpdateInv, U!Step
  PROVE  UpdateInv'
<1> USE DEF UpdateInv, UpdateTyped, BackupHeld, TargetInstalled, FirstAttempt,
            U!ChangesOnlyBehindBackup,
            U!SuccessIsReal, U!RecordedTargetIsInstalled, U!RecordedStatusIsTrue, U!OldImageHasOldData,
            OnTarget, OnSource, Images, Typed, Undoing, Installed, Changing, Backing,
            U!Fenced, U!Goto, U!Finish, U!RollbackFailed, U!Report, U!Reports, U!server, U!attempt
<1>1. CASE U!Prepare
  BY <1>1, SMTT(30) DEF U!Prepare
<1>2. CASE U!Stop
  BY <1>2, StopOutcome, SMTT(30) DEF U!Stop
<1>3. CASE U!FetchBackup
  BY <1>3, SMTT(30) DEF U!FetchBackup
<1>4. CASE U!CreateBackup
  BY <1>4, SMTT(30) DEF U!CreateBackup, U!BackupAllowed
<1>5. CASE U!VerifyBackup
  BY <1>5, SMTT(30) DEF U!VerifyBackup
<1>6. CASE U!WriteManifest
  BY <1>6, SMTT(30) DEF U!WriteManifest, U!StoppedTarget, U!StoppedSource
<1>7. CASE U!Recreate
  <2> DEFINE created == [host EXCEPT !.image = "target", !.data = "touched"]
             ran == [created EXCEPT !.up = TRUE]
             stopped == [created EXCEPT !.up = FALSE]
  <2>1. \/ pc' = "restoreState" /\ host' = stopped
        \/ pc' = "rollback" /\ host' \in { host, ran, stopped }
    BY <1>7, Zenon DEF U!Recreate
  <2>2. /\ Typed(ran) /\ ran.manifest = host.manifest
        /\ Typed(stopped) /\ stopped.manifest = host.manifest /\ stopped.image = "target" /\ ~stopped.up
    BY SMTT(30)
  <2> HIDE DEF ran, stopped
  <2>3. /\ pc = "recreate"
        /\ UNCHANGED <<original, lost, cancelled, point, staged, res, caller, job, claims, record>>
    BY <1>7, Zenon DEF U!Recreate
  <2> QED
    BY <2>1, <2>2, <2>3, SMTT(30)
<1>8. CASE U!Rollback
  BY <1>8, StopOutcome, SMTT(30) DEF U!Rollback
<1>9. CASE U!RecreateSource
  <2> DEFINE ran == [host EXCEPT !.image = "current", !.up = TRUE]
             stopped == [host EXCEPT !.image = "current", !.up = FALSE]
  <2>1. \/ pc' = "restoreOriginal" /\ host' = stopped /\ UNCHANGED res
        \/ U!RollbackFailed /\ host' \in { host, ran, stopped }
    BY <1>9, Zenon DEF U!RecreateSource
  <2>2. /\ Typed(ran) /\ ran.manifest = host.manifest /\ ran.data = host.data
        /\ Typed(stopped) /\ stopped.manifest = host.manifest /\ stopped.data = host.data
        /\ stopped.image = "current" /\ ~stopped.up
    BY SMTT(30)
  <2> HIDE DEF ran, stopped
  <2>3. /\ pc = "recreateSource"
        /\ UNCHANGED <<original, lost, cancelled, point, staged, caller, job, claims, record>>
    BY <1>9, Zenon DEF U!RecreateSource
  <2> QED
    BY <2>1, <2>2, <2>3, SMTT(30)
<1>10. CASE U!BeginRestore
  <2> DEFINE half == [host EXCEPT !.manifest = "current", !.data = "partial", !.leftover = TRUE]
  <2>1. Typed(half) /\ half.manifest = "current" /\ half.image = host.image /\ half.data = "partial"
    BY SMTT(30)
  <2> HIDE DEF half
  <2>2. \/ pc' = "swapped" /\ host' = half /\ UNCHANGED res
        \/ U!RollbackFailed /\ UNCHANGED host
    BY <1>10, Zenon DEF half, U!BeginRestore
  <2> QED
    BY <1>10, <2>1, <2>2, SMTT(30) DEF U!BeginRestore
<1>11. CASE U!EndRestore
  <2> DEFINE old == [host EXCEPT !.data = staged, !.leftover = FALSE]
             back == [host EXCEPT !.manifest = "target", !.data = "touched", !.leftover = FALSE]
  <2>1. pc = "swapped" /\ point.status = "READY" /\ staged = "orig"
        /\ UNCHANGED <<original, lost, cancelled, point, staged, caller, job, claims, record>>
    BY <1>11, SMTT(30) DEF U!EndRestore
  <2>2. Typed(old) /\ old.manifest = host.manifest /\ old.image = host.image /\ old.data = "orig"
    BY <2>1, SMTT(30)
  <2>3. Typed(back) /\ back.image = host.image
    BY SMTT(30)
  <2> HIDE DEF old, back
  <2>4. \/ pc' \in { "recreateSource", "startOriginal" } /\ host' = old /\ UNCHANGED res
        \/ U!RollbackFailed /\ host' \in { host, back }
    BY <1>11, Zenon DEF old, back, U!EndRestore
  <2> QED
    BY <2>1, <2>2, <2>3, <2>4, SMTT(30)
<1>12. CASE U!RestoreOriginalState
  BY <1>12, StartOutcome, SMTT(30) DEF U!RestoreOriginalState
<1>13. CASE U!RestoreState
  BY <1>13, SMTT(30) DEF U!RestoreState
<1>14. CASE U!StartTarget
  BY <1>14, StartOutcome, SMTT(30) DEF U!StartTarget
<1>15. CASE U!StopTarget
  BY <1>15, StopOutcome, SMTT(30) DEF U!StopTarget
<1>16. CASE U!StartOriginal
  BY <1>16, StartOutcome, SMTT(30) DEF U!StartOriginal
<1>17. CASE U!FinalReport
  BY <1>17, SMTT(30) DEF U!FinalReport
<1>18. CASE U!Complete
  BY <1>18, SMTT(30) DEF U!Complete
<1>19. CASE U!Drop
  BY <1>19, SMTT(30) DEF U!Drop
<1> QED
  BY <1>1, <1>2, <1>3, <1>4, <1>5, <1>6, <1>7, <1>8, <1>9, <1>10, <1>11, <1>12, <1>13, <1>14,
     <1>15, <1>16, <1>17, <1>18, <1>19 DEF U!Step

(* Its claims, its cancellation, a crash and the end of its claims.         *)
LEMMA UpdateAround ==
  ASSUME UpdateInv, U!Claim \/ U!GiveUp \/ U!Cancel \/ U!Crash
  PROVE  UpdateInv'
<1> USE DEF UpdateInv, UpdateTyped, BackupHeld, TargetInstalled, FirstAttempt,
            U!ChangesOnlyBehindBackup,
            U!SuccessIsReal, U!RecordedTargetIsInstalled, U!RecordedStatusIsTrue, U!OldImageHasOldData,
            OnTarget, OnSource, Images, Typed, Undoing, Installed, Changing, Backing, U!Fenced, U!server
<1>1. CASE U!Claim
  BY <1>1, SMTT(30) DEF U!Claim, U!NoResult
<1>2. CASE U!GiveUp
  BY <1>2, SMTT(30) DEF U!GiveUp
<1>3. CASE U!Cancel
  BY <1>3, SMTT(30) DEF U!Cancel
<1>4. CASE U!Crash
  BY <1>4, SMTT(30) DEF U!Crash
<1> QED
  BY <1>1, <1>2, <1>3, <1>4

(* Where an update starts.                                                 *)
LEMMA InitUpdate == U!Init => UpdateInv
<1> SUFFICES ASSUME U!Init
             PROVE  UpdateInv
  OBVIOUS
<1>1. /\ Typed(host) /\ OnSource
  BY SMT DEF U!Init, Typed, Images, OnSource
<1>2. host.up <=> original = "RUNNING"
  BY Zenon DEF U!Init
<1> QED
  BY <1>1, <1>2, SMT DEF U!Init, U!NoResult, UpdateInv, UpdateTyped, BackupHeld, TargetInstalled,
      FirstAttempt, U!ChangesOnlyBehindBackup, U!SuccessIsReal, U!RecordedTargetIsInstalled,
      U!RecordedStatusIsTrue, U!OldImageHasOldData, OnTarget, OnSource, Undoing, Installed, Changing,
      Backing, Images
------------------------------------------------------------------------------
(* The restore of a recovery point.                                        *)

Contents == { "none", "old", "new", "empty", "broken" }
Swapped == { "clear", "import", "check", "rollbackVolume", "rollbackWorkspace", "rollbackWorkspaceFailed" }
OnCleanHost == { "create", "publishAbsent", "rollbackAbsent" }

RestoreTyped ==
    /\ archive \in { "good", "bad" } /\ first \in { "old", "none" }
    /\ ws \in Contents /\ volume \in Contents /\ aside \in Contents /\ copy \in Contents
    /\ job \in { "active", "done", "failed" } /\ claims \in Nat
    /\ status \in { "RESTORING", "STOPPED", "FAILED", "RUNNING" }
    /\ pc \in { "idle", "download", "preflight", "extract", "export", "swap", "publish", "report" }
              \cup Swapped \cup OnCleanHost

(* Which workspace is in place, and that one is set aside only while the    *)
(* attempt that did it goes on.                                            *)
WorkspacePlaced ==
    /\ job # "active" => pc = "idle"
    /\ status \in { "STOPPED", "RUNNING" } => job # "active"
    /\ aside # "none" => pc \in { "publish" } \cup Swapped
    /\ aside = "none" => pc \notin { "publish", "clear", "rollbackVolume", "rollbackWorkspace",
                                     "rollbackWorkspaceFailed" }
    /\ pc \in { "extract", "export", "swap" } => ~blocked /\ (ws # "none" <=> volume # "none")
    /\ pc \in { "export", "swap" } => ws # "none"
    /\ pc \in { "publish", "create", "publishAbsent" } => ws = "none"
    /\ pc \in Swapped => ws = "new"
    /\ pc = "rollbackAbsent" => ws \in { "none", "new" }
    /\ blocked => leftover # {}
    /\ pc = "report" => result.status \in { "STOPPED", "FAILED" }

(* What a success has seen.                                                *)
ArchiveInPlace ==
    /\ pc = "check" => volume = "new"
    /\ pc = "report" /\ result.ok => ws = "new" /\ volume = "new"
    /\ job = "done" => ws = "new" /\ volume = "new"

BadArchiveRefused ==
    archive = "bad" =>
        /\ ws = first /\ volume = first
        /\ pc \in { "idle", "download", "preflight", "extract", "report" }

Belongs == ws = volume /\ ws \in { "old", "new" }

(* Between two mutations workspace and data belong together, or what was    *)
(* set aside quarantines the instance; during one the two copies are those  *)
(* of one state.                                                           *)
RestoredWhole ==
    first = "old" /\ "clear" \notin faults /\ "rollback" \notin faults /\ "cancel" \notin faults =>
        /\ ~cancelled /\ volume # "none"
        /\ pc \notin OnCleanHost \cup { "rollbackWorkspaceFailed" }
        /\ pc \in { "idle", "download", "preflight", "extract", "export", "swap", "report" } =>
              \/ Belongs \/ blocked
              \/ ws = "none" /\ leftover # {} /\ (pc = "report" \/ job # "active")
        /\ pc = "swap" => copy = volume
        /\ pc \in { "publish" } \cup Swapped => copy = aside /\ aside \in { "old", "new" }
        /\ pc \in { "publish", "clear" } => volume = aside
        /\ pc \in { "import", "check", "rollbackVolume" } => mutated
        /\ pc = "rollbackWorkspace" => volume = aside
        /\ status = "RUNNING" => Belongs

RestoreInv ==
    /\ RestoreTyped /\ WorkspacePlaced /\ ArchiveInPlace /\ BadArchiveRefused
    /\ R!OldWorkspaceKept /\ RestoredWhole

(* The steps of a restore, from the download to the report.                *)
LEMMA RestoreStep ==
  ASSUME RestoreInv, R!Step
  PROVE  RestoreInv'
<1> USE DEF RestoreInv, RestoreTyped, WorkspacePlaced, ArchiveInPlace, BadArchiveRefused, RestoredWhole,
            R!OldWorkspaceKept, Belongs, Contents, Swapped, OnCleanHost,
            R!MayFail, R!Goto, R!Return, R!Refused, R!queue, R!disk, R!self
<1>1. CASE R!Download
  BY <1>1, SMTT(30) DEF R!Download, R!VolumeExists, R!WorkspaceExists, R!CleanHost
<1>2. CASE R!Preflight
  BY <1>2, SMTT(30) DEF R!Preflight, R!VolumeExists, R!WorkspaceExists, R!CleanHost
<1>3. CASE R!Extract
  BY <1>3, SMTT(30) DEF R!Extract, R!VolumeExists, R!WorkspaceExists, R!CleanHost
<1>4. CASE R!Export
  BY <1>4, SMTT(30) DEF R!Export, R!VolumeExists, R!WorkspaceExists, R!CleanHost
<1>5. CASE R!SetAside
  BY <1>5, SMTT(30) DEF R!SetAside, R!VolumeExists, R!WorkspaceExists, R!CleanHost
<1>6. CASE R!Publish
  BY <1>6, SMTT(30) DEF R!Publish, R!VolumeExists, R!WorkspaceExists, R!CleanHost
<1>7. CASE R!Clear
  BY <1>7, SMTT(30) DEF R!Clear, R!VolumeExists, R!WorkspaceExists, R!CleanHost
<1>8. CASE R!Import
  BY <1>8, SMTT(30) DEF R!Import, R!VolumeExists, R!WorkspaceExists, R!CleanHost
<1>9. CASE R!Check
  BY <1>9, SMTT(30) DEF R!Check, R!VolumeExists, R!WorkspaceExists, R!CleanHost
<1>10. CASE R!RollbackVolume
  BY <1>10, SMTT(30) DEF R!RollbackVolume, R!VolumeExists, R!WorkspaceExists, R!CleanHost
<1>11. CASE R!RollbackWorkspace
  BY <1>11, SMTT(30) DEF R!RollbackWorkspace, R!VolumeExists, R!WorkspaceExists, R!CleanHost
<1>12. CASE R!CreateVolume
  BY <1>12, SMTT(30) DEF R!CreateVolume, R!VolumeExists, R!WorkspaceExists, R!CleanHost
<1>13. CASE R!PublishAbsent
  BY <1>13, SMTT(30) DEF R!PublishAbsent, R!VolumeExists, R!WorkspaceExists, R!CleanHost
<1>14. CASE R!RollbackAbsent
  BY <1>14, SMTT(30) DEF R!RollbackAbsent, R!VolumeExists, R!WorkspaceExists, R!CleanHost
<1>15. CASE R!Report
  BY <1>15, SMTT(30) DEF R!Report, R!VolumeExists, R!WorkspaceExists, R!CleanHost
<1> QED
  BY <1>1, <1>2, <1>3, <1>4, <1>5, <1>6, <1>7, <1>8, <1>9, <1>10, <1>11, <1>12, <1>13, <1>14,
     <1>15 DEF R!Step

(* The attempts: claimed, cut off, given up, and a start afterwards.        *)
LEMMA RestoreAround ==
  ASSUME RestoreInv, R!Cancel \/ R!Restart \/ R!Claim \/ R!GiveUp \/ R!Start
  PROVE  RestoreInv'
<1> USE DEF RestoreInv, RestoreTyped, WorkspacePlaced, ArchiveInPlace, BadArchiveRefused, RestoredWhole,
            R!OldWorkspaceKept, Belongs, Contents, Swapped, OnCleanHost, R!NoResult, R!queue,
            R!disk, R!self
<1>1. CASE R!Cancel
  BY <1>1, SMTT(30) DEF R!Cancel
<1>2. CASE R!Restart
  <2>1. /\ pc' = "idle" /\ copy' = "none" /\ aside' = "none" /\ (blocked' <=> leftover' # {})
        /\ leftover \subseteq leftover' /\ (aside # "none" => aside \in leftover')
        /\ UNCHANGED <<ws, volume, mutated, cancelled, restored, result, job, claims, status, first,
                      archive, faults>>
    BY <1>2 DEF R!Restart
  <2>2. (leftover # {} => leftover' # {}) /\ (aside # "none" => leftover' # {})
    BY <2>1
  <2>3. RestoreTyped' /\ WorkspacePlaced' /\ ArchiveInPlace' /\ BadArchiveRefused' /\ R!OldWorkspaceKept'
    BY <2>1
  <2>4. RestoredWhole'
    BY <2>1, <2>2
  <2> QED
    BY <2>3, <2>4
<1>3. CASE R!Claim
  BY <1>3, SMTT(30) DEF R!Claim
<1>4. CASE R!GiveUp
  BY <1>4, SMTT(30) DEF R!GiveUp
<1>5. CASE R!Start
  BY <1>5, SMTT(30) DEF R!Start
<1> QED
  BY <1>1, <1>2, <1>3, <1>4, <1>5

(* A restore that has not begun.                                           *)
LEMMA InitRestore == R!Init => RestoreInv
  BY SMTT(30) DEF R!Init, R!NoResult, RestoreInv, RestoreTyped, WorkspacePlaced, ArchiveInPlace,
     BadArchiveRefused, RestoredWhole,
            R!OldWorkspaceKept, Belongs, Contents, Swapped, OnCleanHost

(* What the properties of HostWorkflows need of it.                         *)
LEMMA RestoreKeeps ==
  RestoreInv => /\ R!SuccessIsComplete /\ R!OldWorkspaceKept /\ R!BadArchiveChangesNothing
                /\ faults \cap { "clear", "rollback", "cancel" } = {} => R!RunsWhole
<1> SUFFICES ASSUME RestoreInv
             PROVE  /\ R!SuccessIsComplete /\ R!OldWorkspaceKept /\ R!BadArchiveChangesNothing
                    /\ faults \cap { "clear", "rollback", "cancel" } = {} => R!RunsWhole
  OBVIOUS
<1> USE DEF RestoreInv
<1>1. R!SuccessIsComplete
  BY DEF ArchiveInPlace, R!SuccessIsComplete
<1>2. R!BadArchiveChangesNothing
  BY DEF BadArchiveRefused, R!BadArchiveChangesNothing
<1>3. ASSUME faults \cap { "clear", "rollback", "cancel" } = {}
      PROVE  R!RunsWhole
  <2>1. "clear" \notin faults /\ "rollback" \notin faults /\ "cancel" \notin faults
    BY <1>3
  <2> QED
    BY <2>1 DEF RestoredWhole, Belongs, R!RunsWhole
<1> QED
  BY <1>1, <1>2, <1>3
------------------------------------------------------------------------------
(* The configuration jobs.                                                 *)

(* A step is among those left; the containers are recreated behind the      *)
(* files.                                                                  *)
Left(x, s) == \E i \in 1..Len(s) : s[i] = x
FilesFirst(s) == \A i, j \in 1..Len(s) : s[i] = "recreate" /\ s[j] \in C!Files => j < i

Writes == IF kind = "messaging" THEN C!Files ELSE { "env", "config", "marker" }
Content == Writes \ { "marker" }
Are(version, files) == \A f \in Content : files[f] = version
Programme == C!Files \cup { "compose", "verify", "health", "report", "recreate" }

ConfigurationTyped ==
    /\ kind \in ConfigurationKinds /\ want \in { "RUNNING", "STOPPED" }
    /\ DOMAIN file = C!Files
    /\ pc \in { "idle", "prepare", "run", "undo", "report" }
    /\ job \in { "active", "done", "failed" }
    /\ todo \in Seq(Programme)
    /\ FilesFirst(todo)
    /\ job # "active" => pc = "idle"
    /\ pc = "run" => todo # <<>>

(* A stopped instance has no step that starts it.                          *)
NothingStarts ==
    /\ C!StoppedStays
    /\ want = "STOPPED" => ~Left("recreate", todo)

(* What the steps behind have done.                                        *)
OnNew == containers = "running" /\ Are("new", on)
AllNew == (\A f \in Writes : file[f] = "new") /\ (want = "RUNNING" => OnNew)
RunProgress ==
    pc = "run" =>
        /\ Len(todo) <= Len(C!Steps)
        /\ \A f \in Writes : Left(f, todo) \/ file[f] = "new"
        /\ want = "RUNNING" => Left("recreate", todo) \/ OnNew
UndoProgress ==
    pc = "undo" /\ ~failedUndo =>
        /\ \A f \in Writes : Left(f, todo) \/ file[f] = C!Restored(f)
        /\ want = "RUNNING" =>
              \/ Left("recreate", todo)
              \/ containers = "running" /\ \A f \in Content : on[f] = C!Restored(f)
Succeeded ==
    /\ pc = "report" /\ result.ok => AllNew
    /\ job = "done" => AllNew

(* As long as no attempt is cut off there is one, and it meets the old      *)
(* configuration.                                                          *)
Fresh ==
    /\ Are("old", file) /\ file["marker"] # "new"
    /\ want = "RUNNING" => containers = "running" /\ Are("old", on)
OneAttempt ==
    "cancel" \notin faults /\ "crash" \notin faults =>
        /\ ~cancelled
        /\ pc = "prepare" \/ (pc = "idle" /\ job = "active") => Fresh
        /\ pc \in { "run", "undo" } => Are("old", snap) /\ snap["marker"] # "new"
        /\ pc = "run" /\ Len(todo) = Len(C!Steps) => Fresh
        /\ pc = "report" /\ ~result.ok /\ result.status # "FAILED" => Fresh
        /\ job = "failed" /\ status # "FAILED" => Fresh

(* The MCP job puts back what it found even when it is canceled.            *)
Version(v) == Are(v, file) /\ (want = "RUNNING" => Are(v, on))
OneVersion ==
    kind = "mcp" /\ "rollback" \notin faults /\ "crash" \notin faults =>
        /\ ~failedUndo
        /\ pc \in { "idle", "prepare", "report" } => \E v \in { "old", "new" } : Version(v)
        /\ pc \in { "run", "undo" } => \E v \in { "old", "new" } : Are(v, snap)

ConfigurationInv ==
    /\ ConfigurationTyped /\ NothingStarts /\ RunProgress /\ UndoProgress /\ Succeeded
    /\ OneAttempt /\ OneVersion

(* Steps of a tuple, of a concatenation, of the rest of a sequence.         *)
LEMMA LeftTuple ==
  ASSUME NEW x, NEW a, NEW b, NEW c
  PROVE  /\ ~Left(x, <<>>) /\ (Left(x, <<a>>) <=> x = a)
         /\ Left(x, <<a, b>>) <=> x = a \/ x = b
         /\ Left(x, <<a, b, c>>) <=> x = a \/ x = b \/ x = c
  BY DEF Left

(* One after the other: what is left, and in which order.                   *)
LEMMA LeftConcat ==
  ASSUME NEW S, NEW s \in Seq(S), NEW t \in Seq(S)
  PROVE  /\ s \o t \in Seq(S) /\ Len(s \o t) = Len(s) + Len(t)
         /\ \A x : Left(x, s \o t) <=> Left(x, s) \/ Left(x, t)
         /\ FilesFirst(s) /\ FilesFirst(t) /\ (~Left("recreate", s) \/ \A f \in C!Files : ~Left(f, t))
               => FilesFirst(s \o t)
<1>1. /\ s \o t \in Seq(S) /\ Len(s \o t) = Len(s) + Len(t) /\ Len(s) \in Nat /\ Len(t) \in Nat
  OBVIOUS
<1>2. \A i \in 1..Len(s) : (s \o t)[i] = s[i] /\ i \in 1..Len(s \o t)
  BY <1>1
<1>3. \A i \in 1..Len(t) : (s \o t)[i + Len(s)] = t[i] /\ i + Len(s) \in 1..Len(s \o t)
  BY <1>1
<1>4. ASSUME NEW i \in 1..Len(s \o t)
      PROVE  \/ i \in 1..Len(s) /\ (s \o t)[i] = s[i]
             \/ i - Len(s) \in 1..Len(t) /\ (s \o t)[i] = t[i - Len(s)]
  BY <1>1
<1>5. ASSUME NEW x
      PROVE  Left(x, s \o t) <=> Left(x, s) \/ Left(x, t)
  <2>1. ASSUME Left(x, s \o t)
        PROVE  Left(x, s) \/ Left(x, t)
    <3>1. PICK i \in 1..Len(s \o t) : (s \o t)[i] = x
      BY <2>1 DEF Left
    <3> QED
      BY <1>4, <3>1 DEF Left
  <2>2. ASSUME Left(x, s)
        PROVE  Left(x, s \o t)
    <3>1. PICK i \in 1..Len(s) : s[i] = x
      BY <2>2 DEF Left
    <3> QED
      BY <1>2, <3>1 DEF Left
  <2>3. ASSUME Left(x, t)
        PROVE  Left(x, s \o t)
    <3>1. PICK i \in 1..Len(t) : t[i] = x
      BY <2>3 DEF Left
    <3> QED
      BY <1>3, <3>1 DEF Left
  <2> QED
    BY <2>1, <2>2, <2>3
<1>6. ASSUME FilesFirst(s), FilesFirst(t), ~Left("recreate", s) \/ \A f \in C!Files : ~Left(f, t)
      PROVE  FilesFirst(s \o t)
  <2> SUFFICES ASSUME NEW i \in 1..Len(s \o t), NEW j \in 1..Len(s \o t),
                      (s \o t)[i] = "recreate", (s \o t)[j] \in C!Files
               PROVE  j < i
    BY DEF FilesFirst
  <2>1. CASE i \in 1..Len(s) /\ (s \o t)[i] = s[i]
    <3>1. j \in 1..Len(s) /\ (s \o t)[j] = s[j]
      BY <1>4, <1>6, <2>1 DEF Left
    <3> QED
      BY <1>6, <2>1, <3>1 DEF FilesFirst
  <2>2. CASE i - Len(s) \in 1..Len(t) /\ (s \o t)[i] = t[i - Len(s)]
    <3>1. CASE j \in 1..Len(s)
      BY <1>1, <2>2, <3>1
    <3>2. CASE j - Len(s) \in 1..Len(t) /\ (s \o t)[j] = t[j - Len(s)]
      <4>1. j - Len(s) < i - Len(s)
        BY <1>6, <2>2, <3>2 DEF FilesFirst
      <4> QED
        BY <1>1, <4>1
    <3> QED
      BY <1>4, <3>1, <3>2
  <2> QED
    BY <1>4, <2>1, <2>2
<1> QED
  BY <1>1, <1>5, <1>6

(* One step further.                                                       *)
LEMMA LeftTail ==
  ASSUME NEW S, NEW s \in Seq(S), s # <<>>
  PROVE  /\ Tail(s) \in Seq(S) /\ Len(Tail(s)) = Len(s) - 1 /\ Len(s) \in Nat \ {0}
         /\ Head(s) \in S
         /\ \A x : Left(x, s) <=> x = Head(s) \/ Left(x, Tail(s))
         /\ FilesFirst(s) => FilesFirst(Tail(s))
         /\ FilesFirst(s) /\ Head(s) = "recreate" => \A f \in C!Files : ~Left(f, s)
<1>1. /\ Tail(s) \in Seq(S) /\ Len(Tail(s)) = Len(s) - 1 /\ Len(s) \in Nat \ {0} /\ Head(s) = s[1]
      /\ Head(s) \in S
  OBVIOUS
<1>2. \A i \in 1..Len(Tail(s)) : Tail(s)[i] = s[i + 1] /\ i + 1 \in 1..Len(s)
  BY <1>1
<1>3. ASSUME NEW x
      PROVE  Left(x, s) <=> x = Head(s) \/ Left(x, Tail(s))
  <2>1. ASSUME Left(x, s), x # Head(s)
        PROVE  Left(x, Tail(s))
    <3>1. PICK i \in 1..Len(s) : s[i] = x
      BY <2>1 DEF Left
    <3>2. i - 1 \in 1..Len(Tail(s)) /\ (i - 1) + 1 = i
      BY <1>1, <2>1, <3>1
    <3>3. Tail(s)[i - 1] = x
      BY <1>2, <3>1, <3>2
    <3> QED
      BY <3>2, <3>3 DEF Left
  <2>2. ASSUME Left(x, Tail(s))
        PROVE  Left(x, s)
    <3>1. PICK i \in 1..Len(Tail(s)) : Tail(s)[i] = x
      BY <2>2 DEF Left
    <3> QED
      BY <1>2, <3>1 DEF Left
  <2>3. Left(Head(s), s)
    BY <1>1 DEF Left
  <2> QED
    BY <2>1, <2>2, <2>3
<1>4. ASSUME FilesFirst(s)
      PROVE  FilesFirst(Tail(s))
  <2> SUFFICES ASSUME NEW i \in 1..Len(Tail(s)), NEW j \in 1..Len(Tail(s)),
                      Tail(s)[i] = "recreate", Tail(s)[j] \in C!Files
               PROVE  j < i
    BY DEF FilesFirst
  <2>1. j + 1 < i + 1
    BY <1>2, <1>4 DEF FilesFirst
  <2> QED
    BY <1>1, <2>1
<1>5. ASSUME FilesFirst(s), Head(s) = "recreate", NEW f \in C!Files, Left(f, s)
      PROVE  FALSE
  <2>1. PICK j \in 1..Len(s) : s[j] = f
    BY <1>5 DEF Left
  <2>2. j < 1
    BY <1>1, <1>5, <2>1 DEF FilesFirst
  <2> QED
    BY <1>1, <2>1, <2>2
<1> QED
  BY <1>1, <1>3, <1>4, <1>5

(* A part of a job: its steps are those of X, the files first.              *)
Part(s, X) == s \in Seq(Programme) /\ FilesFirst(s) /\ \A x : Left(x, s) <=> x \in X

(* Without a recreation, or without files, the files come first.           *)
LEMMA FilesFirstPart ==
  ASSUME NEW s, ~Left("recreate", s) \/ \A f \in C!Files : ~Left(f, s)
  PROVE  FilesFirst(s)
  BY DEF Left, FilesFirst

(* The programme without steps.                                            *)
LEMMA PartNone == Part(<<>>, {})
<1>1. <<>> \in Seq(Programme) /\ \A x : ~Left(x, <<>>)
  BY DEF Left
<1> QED
  BY <1>1, FilesFirstPart DEF Part

(* A programme of up to three steps, from the set of its steps.            *)
LEMMA PartTuple ==
  ASSUME NEW a \in Programme, NEW b \in Programme, NEW c \in Programme
  PROVE  /\ Part(<<a>>, {a})
         /\ {a, b} \cap C!Files = {} \/ "recreate" \notin {a, b} => Part(<<a, b>>, {a, b})
         /\ "recreate" \notin {a, b, c} \/ {a, b, c} \cap C!Files = {} => Part(<<a, b, c>>, {a, b, c})
<1>1. /\ <<>> \in Seq(Programme) /\ <<a>> \in Seq(Programme)
      /\ <<a, b>> \in Seq(Programme) /\ <<a, b, c>> \in Seq(Programme)
  OBVIOUS
<1>2. ASSUME NEW x
      PROVE  /\ ~Left(x, <<>>) /\ (Left(x, <<a>>) <=> x \in {a})
             /\ Left(x, <<a, b>>) <=> x \in {a, b}
             /\ Left(x, <<a, b, c>>) <=> x \in {a, b, c}
  BY LeftTuple
<1>3. "recreate" \notin C!Files
  BY DEF C!Files
<1> QED
  BY <1>1, <1>2, <1>3, FilesFirstPart DEF Part

(* Two programmes one after the other.                                     *)
LEMMA PartConcat ==
  ASSUME NEW s, NEW t, NEW X, NEW Y, Part(s, X), Part(t, Y),
         "recreate" \notin X \/ Y \cap C!Files = {}
  PROVE  Part(s \o t, X \cup Y)
  BY LeftConcat DEF Part

(* The part of a programme that only a running instance has.               *)
LEMMA PartRunning ==
  ASSUME NEW s, NEW X, Part(s, X)
  PROVE  Part(C!Running(s), IF want = "RUNNING" THEN X ELSE {})
  BY PartNone DEF C!Running, Part

(* A job and its rollback write the same files, all before they start a     *)
(* running instance anew; a stopped one they do not start.                  *)
Job(s) ==
    /\ s \in Seq(Programme) /\ s # <<>> /\ FilesFirst(s)
    /\ \A f \in C!Files : Left(f, s) <=> f \in Writes
    /\ Left("recreate", s) <=> want = "RUNNING"

(* What each configuration job does, as the set of its steps.              *)
LEMMA StepsOfJob ==
  ASSUME kind \in ConfigurationKinds, want \in { "RUNNING", "STOPPED" }
  PROVE  Job(C!Steps)
<1> DEFINE a == <<"config", "marker">>
           If(X) == IF want = "RUNNING" THEN X ELSE {}
           h == C!Running(<<"recreate", "health">>)
           m == C!Running(<<"recreate", "health", "verify">>)
           v == <<"verify">>
           e == <<"env">>
           r == <<"report">>
           c == <<"env", "manifest", "compose">>
           d == <<"env", "config", "marker">>
           A == { "config", "marker" }
           E == { "env", "manifest", "compose" }
           D == { "env", "config", "marker" }
           H == If({ "recreate", "health" })
           M == If({ "recreate", "health", "verify" })
<1>1. Part(a, A) /\ Part(e, {"env"}) /\ Part(v, {"verify"}) /\ Part(r, {"report"}) /\ Part(c, E)
      /\ Part(d, D)
  BY PartTuple DEF Programme, C!Files
<1>2. Part(<<"recreate", "health">>, { "recreate", "health" })
      /\ Part(<<"recreate", "health", "verify">>, { "recreate", "health", "verify" })
  BY PartTuple DEF Programme, C!Files
<1>3. Part(h, H) /\ Part(m, M)
  BY <1>2, PartRunning
<1>4. ASSUME NEW s, NEW X, Part(s, X), X \cap C!Files = Writes, "recreate" \in X <=> want = "RUNNING"
      PROVE  Job(s)
  <2>1. "config" \in X /\ ~Left("config", <<>>)
    BY <1>4 DEF Writes, C!Files, Left
  <2> QED
    BY <1>4, <2>1 DEF Part, Job
<1>5. CASE kind = "runtime.sync"
  <2>1. Part(e \o a, {"env"} \cup A)
    BY <1>1, PartConcat, Zenon
  <2>2. Part((e \o a) \o h, ({"env"} \cup A) \cup H)
    BY <1>3, <2>1, PartConcat
  <2>3. Part(((e \o a) \o h) \o v, (({"env"} \cup A) \cup H) \cup {"verify"})
    BY <1>1, <2>2, PartConcat DEF C!Files
  <2>4. C!Steps = ((e \o a) \o h) \o v
    BY <1>5 DEF C!Steps, C!syncRuntimeConfiguration, C!runtimeStateApply
  <2> DEFINE X == (({"env"} \cup A) \cup H) \cup {"verify"}
  <2>5. X \cap C!Files = Writes /\ ("recreate" \in X <=> want = "RUNNING")
    BY <1>5 DEF C!Files, Writes
  <2> QED
    BY <1>4, <2>3, <2>4, <2>5
<1>6. CASE kind = "messaging"
  <2>1. Part(c \o a, E \cup A)
    BY <1>1, PartConcat
  <2>2. Part((c \o a) \o v, (E \cup A) \cup {"verify"})
    BY <1>1, <2>1, PartConcat
  <2>3. Part(((c \o a) \o v) \o m, ((E \cup A) \cup {"verify"}) \cup M)
    BY <1>3, <2>2, PartConcat
  <2>4. C!Steps = ((c \o a) \o v) \o m
    BY <1>6 DEF C!Steps, C!configureMessaging, C!messagingConfigApplyScript
  <2> DEFINE X == ((E \cup A) \cup {"verify"}) \cup M
  <2>5. X \cap C!Files = Writes /\ ("recreate" \in X <=> want = "RUNNING")
    BY <1>6 DEF C!Files, Writes
  <2> QED
    BY <1>4, <2>3, <2>4, <2>5
<1>7. CASE kind = "mcp"
  <2>1. Part(d \o v, D \cup {"verify"})
    BY <1>1, PartConcat
  <2>2. Part((d \o v) \o h, (D \cup {"verify"}) \cup H)
    BY <1>3, <2>1, PartConcat
  <2>3. Part(((d \o v) \o h) \o r, ((D \cup {"verify"}) \cup H) \cup {"report"})
    BY <1>1, <2>2, PartConcat DEF C!Files
  <2>4. C!Steps = ((d \o v) \o h) \o r
    BY <1>7 DEF C!Steps, C!configureMCP, C!mcpConfigApplyScript
  <2> DEFINE X == ((D \cup {"verify"}) \cup H) \cup {"report"}
  <2>5. X \cap C!Files = Writes /\ ("recreate" \in X <=> want = "RUNNING")
    BY <1>7 DEF C!Files, Writes
  <2> QED
    BY <1>4, <2>3, <2>4, <2>5
<1> QED
  BY <1>5, <1>6, <1>7 DEF ConfigurationKinds

(* What each rollback does, as the set of its steps.                       *)
LEMMA UndoOfJob ==
  ASSUME kind \in ConfigurationKinds, want \in { "RUNNING", "STOPPED" }
  PROVE  Job(C!Undo)
<1> DEFINE a == <<"config", "marker">>
           h == C!Running(<<"recreate">>)
           v == <<"verify">>
           e == <<"env">>
           c == <<"env", "manifest">>
           d == <<"config", "env", "marker">>
           A == { "config", "marker" }
           E == { "env", "manifest" }
           D == { "env", "config", "marker" }
           H == IF want = "RUNNING" THEN { "recreate" } ELSE {}
<1>1. Part(a, A) /\ Part(e, {"env"}) /\ Part(v, {"verify"}) /\ Part(c, E) /\ Part(<<"recreate">>, { "recreate" })
  BY PartTuple DEF Programme, C!Files
<1>2. Part(d, D)
  <2>1. Part(d, { "config", "env", "marker" })
    BY PartTuple DEF Programme, C!Files
  <2> QED
    BY <2>1 DEF Part
<1>3. Part(h, H)
  BY <1>1, PartRunning
<1>4. ASSUME NEW s, NEW X, Part(s, X), X \cap C!Files = Writes, "recreate" \in X <=> want = "RUNNING"
      PROVE  Job(s)
  <2>1. "config" \in X /\ ~Left("config", <<>>)
    BY <1>4 DEF Writes, C!Files, Left
  <2> QED
    BY <1>4, <2>1 DEF Part, Job
<1>5. CASE kind = "runtime.sync"
  <2>1. Part(e \o a, {"env"} \cup A)
    BY <1>1, PartConcat, Zenon
  <2>2. Part((e \o a) \o h, ({"env"} \cup A) \cup H)
    BY <1>3, <2>1, PartConcat
  <2>3. Part(((e \o a) \o h) \o v, (({"env"} \cup A) \cup H) \cup {"verify"})
    BY <1>1, <2>2, PartConcat DEF C!Files
  <2>4. C!Undo = ((e \o a) \o h) \o v
    BY <1>5 DEF C!Undo, C!runtimeConfigRestoreScript
  <2> DEFINE X == (({"env"} \cup A) \cup H) \cup {"verify"}
  <2>5. X \cap C!Files = Writes /\ ("recreate" \in X <=> want = "RUNNING")
    BY <1>5 DEF C!Files, Writes
  <2> QED
    BY <1>4, <2>3, <2>4, <2>5
<1>6. CASE kind = "messaging"
  <2>1. Part(c \o a, E \cup A)
    BY <1>1, PartConcat
  <2>2. Part((c \o a) \o h, (E \cup A) \cup H)
    BY <1>3, <2>1, PartConcat
  <2>3. C!Undo = (c \o a) \o h
    BY <1>6 DEF C!Undo, C!messagingConfigRestoreScript
  <2> DEFINE X == (E \cup A) \cup H
  <2>4. X \cap C!Files = Writes /\ ("recreate" \in X <=> want = "RUNNING")
    BY <1>6 DEF C!Files, Writes
  <2> QED
    BY <1>4, <2>2, <2>3, <2>4
<1>7. CASE kind = "mcp"
  <2>1. Part(d \o h, D \cup H)
    BY <1>2, <1>3, PartConcat
  <2>2. C!Undo = d \o h
    BY <1>7 DEF C!Undo, C!mcpConfigRestoreScript
  <2> DEFINE X == D \cup H
  <2>3. X \cap C!Files = Writes /\ ("recreate" \in X <=> want = "RUNNING")
    BY <1>7 DEF C!Files, Writes
  <2> QED
    BY <1>4, <2>1, <2>2, <2>3
<1> QED
  BY <1>5, <1>6, <1>7 DEF ConfigurationKinds

(* The files a job owns, and the rest of a rollback that failed.            *)
LEMMA OwnedFiles ==
  ASSUME kind \in ConfigurationKinds, want \in { "RUNNING", "STOPPED" }
  PROVE  C!Owned = Writes /\ Writes \subseteq C!Files /\ { "config", "marker" } \subseteq Writes
<1>1. DOMAIN C!Steps = 1..Len(C!Steps) /\ \A f \in C!Files : Left(f, C!Steps) <=> f \in Writes
  BY StepsOfJob DEF Job
<1>2. Writes \subseteq C!Files /\ { "config", "marker" } \subseteq Writes
  BY DEF Writes, C!Files
<1>3. \A f \in C!Files : f \in C!Owned <=> Left(f, C!Steps)
  BY <1>1 DEF C!Owned, Left
<1> QED
  BY <1>1, <1>2, <1>3 DEF C!Owned

(* What a rollback still does after a failure is part of its programme.    *)
LEMMA AfterFailurePart ==
  ASSUME kind \in ConfigurationKinds, want \in { "RUNNING", "STOPPED" }, todo \in Seq(Programme),
         todo # <<>>, FilesFirst(todo), want = "STOPPED" => ~Left("recreate", todo)
  PROVE  /\ C!AfterFailure \in Seq(Programme) /\ FilesFirst(C!AfterFailure)
         /\ want = "STOPPED" => ~Left("recreate", C!AfterFailure)
<1>1. Part(<<>>, {}) /\ Part(<<"config", "marker">>, { "config", "marker" })
      /\ Part(<<"recreate">>, { "recreate" })
  BY PartNone, PartTuple DEF Programme, C!Files
<1>2. Part(C!Running(<<"recreate">>), IF want = "RUNNING" THEN { "recreate" } ELSE {})
  BY <1>1, PartRunning
<1>3. CASE kind = "runtime.sync"
  BY <1>1, <1>3 DEF C!AfterFailure, C!runtimeConfigRestoreScript, Part
<1>4. CASE kind = "messaging"
  BY <1>2, <1>4, LeftTail DEF C!AfterFailure, Part
<1>5. CASE kind = "mcp"
  BY <1>1, <1>5 DEF C!AfterFailure, Part
<1> QED
  BY <1>3, <1>4, <1>5 DEF ConfigurationKinds

(* The steps depend on the job alone.                                      *)
LEMMA SameJob ==
  ASSUME kind' = kind, want' = want
  PROVE  C!Steps' = C!Steps
  BY DEF C!Steps, C!syncRuntimeConfiguration, C!runtimeStateApply, C!configureMessaging,
     C!messagingConfigApplyScript,
         C!configureMCP, C!mcpConfigApplyScript, C!Running

(* Nothing is left of an empty programme.                                  *)
LEMMA NoneLeft == Len(<<>>) = 0 /\ FilesFirst(<<>>) /\ <<>> \in Seq(Programme) /\ \A x : ~Left(x, <<>>)
  BY DEF Left, FilesFirst

(* The step done, or the whole job.                                        *)
LEMMA StepDone ==
  ASSUME ConfigurationTyped, pc = "run", C!Next1
  PROVE  /\ todo' \in Seq(Programme) /\ FilesFirst(todo') /\ Len(todo') < Len(todo)
         /\ \A x : Left(x, todo') => Left(x, todo)
         /\ \A x : Left(x, todo) => x = Head(todo) \/ Left(x, todo')
         /\ \/ pc' = "report" /\ result'.ok /\ \A x : ~Left(x, todo')
            \/ pc' = "run" /\ todo' # <<>> /\ UNCHANGED result
<1>1. /\ Tail(todo) \in Seq(Programme) /\ Len(Tail(todo)) = Len(todo) - 1 /\ Len(todo) \in Nat \ {0}
      /\ \A x : Left(x, todo) <=> x = Head(todo) \/ Left(x, Tail(todo))
      /\ FilesFirst(Tail(todo))
  BY LeftTail DEF ConfigurationTyped
<1>2. CASE Len(todo) = 1
  <2>1. todo' = <<>> /\ pc' = "report" /\ result'.ok
    BY <1>2 DEF C!Next1, C!Return
  <2>2. \A x : ~Left(x, Tail(todo))
    BY <1>1, <1>2 DEF Left
  <2> QED
    BY <1>1, <1>2, <2>1, <2>2, NoneLeft
<1>3. CASE Len(todo) # 1
  <2>1. todo' = Tail(todo) /\ UNCHANGED <<pc, result>>
    BY <1>3 DEF C!Next1
  <2>2. Len(Tail(todo)) # 0
    BY <1>1, <1>3
  <2>3. Tail(todo) # <<>>
    BY <2>2, NoneLeft
  <2> QED
    BY <1>1, <2>1, <2>3
<1> QED
  BY <1>2, <1>3

(* The steps of a configuration job and of its rollback.                   *)
LEMMA ConfigurationStep ==
  ASSUME ConfigurationInv, C!Step
  PROVE  ConfigurationInv'
<1> USE DEF ConfigurationInv, ConfigurationTyped, NothingStarts, RunProgress, UndoProgress,
            Succeeded, OneAttempt,
            OneVersion, Fresh, Version, AllNew, OnNew, Are, Content, Writes, C!StoppedStays,
            C!Files, C!queue
<1>0. kind' = kind /\ want' = want /\ faults' = faults /\ C!Steps' = C!Steps
  BY SameJob DEF C!Step, C!Prepare, C!Write, C!Probe, C!Recreate, C!UndoStep, C!UndoEnds, C!Report
<1>1. CASE C!Prepare
  <2> USE <1>0, <1>1, StepsOfJob, NoneLeft DEF C!Prepare, C!Return, Job, C!PreconditionsHold, C!validateMessagingTarget, C!validateRuntimeSyncTarget
  <2>1. ConfigurationTyped'
    OBVIOUS
  <2>2. NothingStarts'
    OBVIOUS
  <2>3. RunProgress'
    OBVIOUS
  <2>4. UndoProgress'
    OBVIOUS
  <2>5. Succeeded'
    OBVIOUS
  <2>6. OneAttempt'
    OBVIOUS
  <2>7. OneVersion'
    OBVIOUS
  <2> QED
    BY <2>1, <2>2, <2>3, <2>4, <2>5, <2>6, <2>7
<1>2. CASE C!Write
  <2> USE <1>0, <1>2, StepDone, LeftTail, UndoOfJob, NoneLeft DEF C!Write, C!Return, C!Rollback, Job, C!Untouched, C!Restored
  <2>1. ConfigurationTyped'
    OBVIOUS
  <2>2. NothingStarts'
    OBVIOUS
  <2>3. RunProgress'
    OBVIOUS
  <2>4. UndoProgress'
    OBVIOUS
  <2>5. Succeeded'
    OBVIOUS
  <2>6. OneAttempt'
    OBVIOUS
  <2>7. OneVersion'
    OBVIOUS
  <2> QED
    BY <2>1, <2>2, <2>3, <2>4, <2>5, <2>6, <2>7
<1>3. CASE C!Probe
  <2> USE <1>0, <1>3, StepDone, LeftTail, UndoOfJob, NoneLeft DEF C!Probe, C!Rollback, Job, C!Restored
  <2>1. ConfigurationTyped'
    OBVIOUS
  <2>2. NothingStarts'
    OBVIOUS
  <2>3. RunProgress'
    OBVIOUS
  <2>4. UndoProgress'
    OBVIOUS
  <2>5. Succeeded'
    OBVIOUS
  <2>6. OneAttempt'
    OBVIOUS
  <2>7. OneVersion'
    OBVIOUS
  <2> QED
    BY <2>1, <2>2, <2>3, <2>4, <2>5, <2>6, <2>7
<1>4. CASE C!Recreate
  <2> USE <1>0, <1>4, StepDone, LeftTail, UndoOfJob, NoneLeft DEF C!Recreate, C!Rollback, Job, C!Restored
  <2>1. ConfigurationTyped'
    OBVIOUS
  <2>2. NothingStarts'
    OBVIOUS
  <2>3. RunProgress'
    OBVIOUS
  <2>4. UndoProgress'
    OBVIOUS
  <2>5. Succeeded'
    OBVIOUS
  <2>6. OneAttempt'
    OBVIOUS
  <2>7. OneVersion'
    OBVIOUS
  <2> QED
    BY <2>1, <2>2, <2>3, <2>4, <2>5, <2>6, <2>7
<1>5. CASE C!UndoStep
  <2> DEFINE h == Head(todo)
             t == Tail(todo)
             a == C!AfterFailure
  <2>1. /\ pc = "undo" /\ pc' = "undo" /\ job = "active"
        /\ UNCHANGED <<snap, cancelled, result, job, claims, status>>
    BY <1>5 DEF C!UndoStep
  <2>2. /\ t \in Seq(Programme) /\ FilesFirst(t)
        /\ \A x : Left(x, todo) <=> x = h \/ Left(x, t)
        /\ h = "recreate" => \A f \in C!Files : ~Left(f, todo)
    BY <1>5, LeftTail DEF C!UndoStep
  <2>3. /\ a \in Seq(Programme) /\ FilesFirst(a) /\ (want = "STOPPED" => ~Left("recreate", a))
    BY <1>5, AfterFailurePart DEF C!UndoStep
  <2>4. \/ /\ UNCHANGED failedUndo /\ todo' \in { t, <<>> } /\ (~failedUndo => todo' = t)
           /\ file' = IF h \in C!Files THEN [file EXCEPT ![h] = C!Restored(h)] ELSE file
           /\ \/ h = "recreate" /\ containers' = "running" /\ on' = file
              \/ h # "recreate" /\ UNCHANGED <<containers, on>>
        \/ /\ "rollback" \in faults \/ kind # "mcp"
           /\ failedUndo' /\ todo' = a /\ UNCHANGED <<file, on>>
           /\ h # "recreate" => UNCHANGED containers
    BY <1>5 DEF C!UndoStep, C!UndoMayFail
  <2> HIDE DEF h, t, a
  <2>5. ConfigurationTyped'
    BY <1>0, <2>1, <2>2, <2>3, <2>4, NoneLeft
  <2>6. NothingStarts'
    BY <1>0, <2>1, <2>2, <2>3, <2>4, NoneLeft
  <2>7. RunProgress' /\ Succeeded' /\ OneAttempt'
    BY <1>0, <2>1
  <2>8. UndoProgress'
    BY <1>0, <2>1, <2>2, <2>4 DEF C!Restored
  <2>9. OneVersion'
    BY <1>0, <2>1, <2>4
  <2> QED
    BY <2>5, <2>6, <2>7, <2>8, <2>9
<1>6. CASE C!UndoEnds
  BY <1>0, <1>6, NoneLeft DEF C!UndoEnds, C!Return, C!Restored
<1>7. CASE C!Report
  BY <1>0, <1>7 DEF C!Report
<1> QED
  BY <1>1, <1>2, <1>3, <1>4, <1>5, <1>6, <1>7 DEF C!Step

(* The attempts of a configuration job: canceled, dead, claimed, given up. *)
LEMMA ConfigurationAround ==
  ASSUME ConfigurationInv, C!Cancel \/ C!Crash \/ C!Claim \/ C!GiveUp
  PROVE  ConfigurationInv'
<1> USE DEF ConfigurationInv, ConfigurationTyped, NothingStarts, RunProgress, UndoProgress,
            Succeeded, OneAttempt,
            OneVersion, Fresh, Version, AllNew, OnNew, Are, Content, Writes, C!StoppedStays,
            C!Files, C!queue
<1>0. kind' = kind /\ want' = want /\ faults' = faults /\ C!Steps' = C!Steps
  BY SameJob DEF C!Cancel, C!Crash, C!Claim, C!GiveUp
<1>1. CASE C!Cancel
  BY <1>0, <1>1 DEF C!Cancel, C!Restored
<1>2. CASE C!Crash
  BY <1>0, <1>2, NoneLeft DEF C!Crash
<1>3. CASE C!Claim
  BY <1>0, <1>3 DEF C!Claim
<1>4. CASE C!GiveUp
  BY <1>0, <1>4 DEF C!GiveUp
<1> QED
  BY <1>1, <1>2, <1>3, <1>4

(* Where a configuration job starts.                                       *)
LEMMA InitConfiguration == C!Init => ConfigurationInv
<1> SUFFICES ASSUME C!Init
             PROVE  ConfigurationInv
  OBVIOUS
<1>1. /\ DOMAIN file = C!Files /\ \A f \in C!Files : file[f] = "old" /\ on[f] = "old" /\ snap[f] = "old"
  BY DEF C!Init, C!Old
<1>2. kind \in ConfigurationKinds /\ want \in { "RUNNING", "STOPPED" } /\ todo = <<>> /\ pc = "idle"
      /\ job = "active" /\ ~cancelled /\ ~failedUndo
      /\ (want = "RUNNING" => containers = "running") /\ (want = "STOPPED" => containers = "stopped")
  BY DEF C!Init
<1> QED
  BY <1>1, <1>2, NoneLeft DEF ConfigurationInv, ConfigurationTyped, NothingStarts, RunProgress,
     UndoProgress,
      Succeeded, OneAttempt, OneVersion, Fresh, Version, Are, Content, Writes, C!StoppedStays, C!Files

(* What the properties of HostWorkflows need of it.                         *)
LEMMA ConfigurationKeeps ==
  ASSUME ConfigurationInv
  PROVE  /\ C!SuccessApplied /\ C!StoppedStays
         /\ faults \cap { "cancel", "crash" } = {} => C!FailureRestored /\ C!MarkerMatches
         /\ kind = "mcp" /\ faults \cap { "rollback", "crash" } = {} => C!FailureWhole
<1> USE DEF ConfigurationInv, ConfigurationTyped, Are
<1>1. C!Owned = Writes /\ { "config", "marker" } \subseteq Writes
  BY OwnedFiles
<1>2. \A v, files : C!Is(v, files) <=> Are(v, files)
  BY <1>1 DEF C!Is, Content
<1>3. C!SuccessApplied /\ C!StoppedStays
  BY <1>1, <1>2 DEF C!SuccessApplied, Succeeded, AllNew, OnNew, NothingStarts, Content
<1>4. ASSUME faults \cap { "cancel", "crash" } = {}
      PROVE  C!FailureRestored /\ C!MarkerMatches
  <2>1. "cancel" \notin faults /\ "crash" \notin faults
    BY <1>4
  <2>2. C!FailureRestored
    BY <1>2, <2>1 DEF C!FailureRestored, OneAttempt, Fresh
  <2>3. C!MarkerMatches
    BY <1>1, <1>2, <2>1 DEF C!MarkerMatches, OneAttempt, Fresh, Succeeded, AllNew
  <2> QED
    BY <2>2, <2>3
<1>5. ASSUME kind = "mcp", faults \cap { "rollback", "crash" } = {}
      PROVE  C!FailureWhole
  <2>1. "rollback" \notin faults /\ "crash" \notin faults
    BY <1>5
  <2> QED
    BY <1>2, <1>5, <2>1 DEF C!FailureWhole, OneVersion, Version
<1> QED
  BY <1>3, <1>4, <1>5
------------------------------------------------------------------------------
(* The jobs of the runtime.                                                *)

Runs(s) == box[s].state = "running"
AllRun == \A s \in J!Services : Runs(s)
NoneRuns == \A s \in J!Services : ~Runs(s)

Making == { "env", "envOpen", "compose", "composeOpen" }
Starting == { "up", "restart", "verify", "migrate" }
Repairing == { "recheck", "start", "restore" }
Uppers == { "provision", "start", "runtime.repair" }
ImageKinds == { "image.reconcile", "image.repair" }

Container(c) ==
    DOMAIN c = { "state", "image", "env" } /\ c.state \in { "none", "running", "stopped" }
Containers == \A s \in J!Services : Container(box[s])
Kept(c, d) ==
    Container(c) /\ c.image = d.image /\ c.env = d.env /\ (c.state = "none" <=> d.state = "none")

RuntimeTyped ==
    /\ kind \in J!Kinds /\ job \in { "none", "active", "done", "failed" }
    /\ env \in Nat \cup { J!Torn } /\ compose \in { J!Absent, J!Torn, 1 } /\ jobs \in Nat /\ claims \in Nat
    /\ DOMAIN result = { "ok", "status", "image" }
    /\ pc \in { "idle", "begin", "image", "down", "stop", "report" } \cup Making \cup Starting \cup Repairing
    /\ Containers

(* Which job is where.                                                     *)
JobPlaced ==
    /\ job # "active" => pc = "idle"
    /\ pc \in Making \cup { "image" } => kind = "provision"
    /\ pc \in Starting => kind \in Uppers
    /\ pc = "stop" => kind \in { "stop", "image.repair" }
    /\ pc = "down" => kind \in { "delete", "runtime.repair" }
    /\ pc \in Repairing => kind = "image.repair"

(* The files, and what runs on them.                                       *)
OnItsFiles ==
    \A s \in J!Services : box[s].state # "none" => env > 0 /\ compose = 1 /\ box[s].env = env
FilesWritten ==
    /\ compose # J!Absent => env > 0
    /\ pc \in { "env", "envOpen" } => compose = J!Absent
    /\ pc = "env" => env = J!Absent
    /\ pc = "envOpen" => env = J!Torn
    /\ pc \in { "compose", "composeOpen" } => env > 0 /\ compose # 1
    /\ pc \in Starting \cup { "image" } => env > 0 /\ compose = 1
    /\ pc = "down" /\ kind = "runtime.repair" => env > 0 /\ compose = 1

(* What a success has seen.                                                *)
SeenDone(image) ==
    /\ kind \in Uppers => AllRun
    /\ kind = "stop" => NoneRuns
    /\ kind = "delete" => \A s \in J!Services : box[s].state = "none"
    /\ kind \in ImageKinds => \A s \in J!Services : box[s].image = image
DoneSeen ==
    /\ pc = "start" => \A s \in J!Services : box[s].image = result.image
    /\ pc = "report" /\ result.ok => SeenDone(result.image)
    /\ job = "done" => SeenDone(imageID)

(* A job of an image that fails at its first attempt.                      *)
StatusHolds(s) == (s = "RUNNING" => AllRun) /\ (s = "STOPPED" => NoneRuns)
FirstFailure ==
    /\ kind = "image.reconcile" /\ honest => NoneRuns
    /\ pc \in Repairing \/ (pc = "stop" /\ kind = "image.repair") =>
          \A s \in J!Services : box[s].state # "none"
    /\ kind = "image.repair" /\ honest /\ (claims = 0 \/ (claims = 1 /\ pc = "begin")) => StatusHolds(before)
    /\ claims = 0 => pc = "idle" /\ job # "failed"
    /\ kind = "image.repair" /\ honest /\ claims = 1 /\ pc = "report" /\ ~result.ok => StatusHolds(result.status)
    /\ job = "failed" /\ honest /\ claims = 1 /\ kind # "runtime.repair" => StatusHolds(status)

RuntimeInv ==
    /\ RuntimeTyped /\ JobPlaced /\ OnItsFiles /\ FilesWritten /\ DoneSeen /\ FirstFailure

(* What a command does to a container: it is left there with its image and  *)
(* secrets, running or not; it is gone; or it is created on the files.       *)
LEMMA StopsContainer ==
  ASSUME NEW c, Container(c)
  PROVE  Kept(J!Stopped(c), c) /\ J!Stopped(c).state # "running"
  BY DEF Container, Kept, J!Stopped

(* A start changes no image and no secrets.                                *)
LEMMA StartsContainer ==
  ASSUME NEW c, Container(c)
  PROVE  Kept(J!Started(c), c) /\ (c.state # "none" => J!Started(c).state = "running")
  BY DEF Container, Kept, J!Started

(* A container that is gone, and one made from the present files.          *)
LEMMA NewContainer ==
  /\ Container(J!Gone) /\ J!Gone.state = "none"
  /\ Container(J!Created) /\ J!Created.state = "running" /\ J!Created.env = env
  BY DEF Container, J!Gone, J!Created

(* The containers where a command left them.                               *)
LEMMA KeptContainers ==
  ASSUME Containers, NEW b,
         \A s \in J!Services : b[s] \in { box[s], J!Stopped(box[s]), J!Started(box[s]) }
  PROVE  \A s \in J!Services : Kept(b[s], box[s])
  BY StopsContainer, StartsContainer DEF Containers, Container, Kept

(* Containers that were stopped, removed or made anew.                     *)
LEMMA DownContainers ==
  ASSUME Containers, NEW b,
         \A s \in J!Services : b[s] \in { box[s], J!Stopped(box[s]), J!Gone, J!Created }
  PROVE  \A s \in J!Services :
            Container(b[s]) /\ (Kept(b[s], box[s]) \/ b[s].state = "none" \/ b[s].env = env)
<1>1. ASSUME NEW s \in J!Services
      PROVE  /\ Kept(box[s], box[s]) /\ Kept(J!Stopped(box[s]), box[s])
             /\ Container(J!Gone) /\ J!Gone.state = "none" /\ Container(J!Created) /\ J!Created.env = env
  BY StopsContainer, NewContainer DEF Containers, Kept
<1> QED
  BY <1>1 DEF Kept

(* Containers that were stopped or removed.                                *)
LEMMA GoneContainers ==
  ASSUME Containers, NEW b,
         \A s \in J!Services : b[s] \in { box[s], J!Stopped(box[s]), J!Gone }
  PROVE  \A s \in J!Services : Container(b[s]) /\ (Kept(b[s], box[s]) \/ b[s].state = "none")
<1>1. ASSUME NEW s \in J!Services
      PROVE  /\ Kept(box[s], box[s]) /\ Kept(J!Stopped(box[s]), box[s])
             /\ Container(J!Gone) /\ J!Gone.state = "none"
  BY StopsContainer, NewContainer DEF Containers, Kept
<1> QED
  BY <1>1 DEF Kept

(* The steps of a runtime job.                                             *)
LEMMA RuntimeStep ==
  ASSUME RuntimeInv, J!Step
  PROVE  RuntimeInv'
<1> USE DEF RuntimeInv, RuntimeTyped, JobPlaced, OnItsFiles, FilesWritten, DoneSeen, FirstFailure,
            SeenDone, StatusHolds,
            AllRun, NoneRuns, Runs, Containers, Container, Kept, Making, Starting, Repairing,
            Uppers, ImageKinds,
            J!Kinds, J!Absent, J!Torn, J!row, J!host, J!Goto, J!Return, J!Fail, J!Succeed, J!All
<1>1. CASE J!ProvisionBegin
  BY <1>1, SMTT(30) DEF J!ProvisionBegin, J!Prepared
<1>2. CASE J!OpenFile
  BY <1>2, SMTT(30) DEF J!OpenFile
<1>3. CASE J!WriteFile
  <2>1. jobs * MaxClaims + claims + 1 \in Nat /\ jobs * MaxClaims + claims + 1 > 0
    <3>1. jobs \in Nat /\ claims \in Nat /\ MaxClaims \in Nat
      BY BoundsAssumption
    <3>2. jobs * MaxClaims \in Nat
      BY <3>1, SMT
    <3> QED
      BY <3>1, <3>2
  <2> QED
    BY <1>3, <2>1, SMTT(30) DEF J!WriteFile
<1>4. CASE J!InspectImage
  BY <1>4, SMTT(30) DEF J!InspectImage
<1>5. CASE J!ComposeUp
  <2>1. pc = "up" /\ Containers /\ UNCHANGED <<env, compose, tag, kind, before, meta, imageID, jobs, honest, job, claims, status>>
    BY <1>5 DEF J!ComposeUp
  <2>2. \/ /\ \A s \in J!Services : Container(box'[s]) /\ box'[s].state = "running" /\ box'[s].env = env
           /\ pc' \in { "restart", "verify" } /\ UNCHANGED result
        \/ /\ \A s \in J!Services : Container(box'[s]) /\ (Kept(box'[s], box[s]) \/ box'[s].state = "none" \/ box'[s].env = env)
           /\ J!Fail
    BY <1>5, <2>1, NewContainer, DownContainers DEF J!ComposeUp, J!Each
  <2> QED
    BY <2>1, <2>2, SMTT(30) DEF Container, Kept
<1>6. CASE J!ComposeRestart
  <2>1. pc = "restart" /\ Containers /\ UNCHANGED <<env, compose, tag, kind, before, meta, imageID, jobs, honest, job, claims, status>>
    BY <1>6 DEF J!ComposeRestart
  <2>2. \/ UNCHANGED <<box, result>> /\ pc' = "verify"
        \/ (\A s \in J!Services : Kept(box'[s], box[s])) /\ J!Fail
    BY <1>6, <2>1, KeptContainers DEF J!ComposeRestart, J!Each
  <2> QED
    BY <2>1, <2>2, SMTT(30) DEF Container, Kept
<1>7. CASE J!Verify
  BY <1>7, SMTT(30) DEF J!Verify
<1>8. CASE J!Migrate
  <2>1. pc = "migrate" /\ Containers /\ UNCHANGED <<env, compose, tag, kind, before, meta, imageID, jobs, honest, job, claims, status>>
    BY <1>8 DEF J!Migrate
  <2>2. \/ /\ \A s \in J!Services : Container(box'[s]) /\ box'[s].state = "running" /\ box'[s].env = env
           /\ J!Succeed
        \/ /\ \A s \in J!Services : Container(box'[s]) /\ (Kept(box'[s], box[s]) \/ box'[s].state = "none" \/ box'[s].env = env)
           /\ J!Fail
    BY <1>8, <2>1, NewContainer, DownContainers DEF J!Migrate, J!Each
  <2> QED
    BY <2>1, <2>2, SMTT(30) DEF Container, Kept
<1>9. CASE J!PrepareLifecycle
  BY <1>9, SMTT(30) DEF J!PrepareLifecycle, J!safeManagedPath
<1>10. CASE J!StopBegin
  BY <1>10, SMTT(30) DEF J!StopBegin, J!safeManagedPath
<1>11. CASE J!DeleteBegin
  BY <1>11, SMTT(30) DEF J!DeleteBegin, J!safeManagedPath
<1>12. CASE J!ComposeStop
  <2>1. pc = "stop" /\ Containers /\ UNCHANGED <<env, compose, tag, kind, before, meta, imageID, jobs, honest, job, claims, status>>
    BY <1>12 DEF J!ComposeStop
  <2>2. CASE ~cancelled /\ box' = [s \in J!Services |-> J!Stopped(box[s])] /\ IF kind = "stop" THEN J!Succeed ELSE J!Goto("recheck")
    <3>1. \A s \in J!Services : Kept(box'[s], box[s]) /\ box'[s].state # "running"
      BY <2>1, <2>2, StopsContainer DEF Containers
    <3> QED
      BY <2>1, <2>2, <3>1, SMTT(30) DEF Container, Kept
  <2>3. CASE /\ box' \in J!Each(LAMBDA s : { box[s], J!Stopped(box[s]) })
             /\ IF kind = "stop" THEN J!Fail ELSE J!Return(FALSE, "FAILED", "none")
    <3>1. \A s \in J!Services : box'[s] \in { box[s], J!Stopped(box[s]) }
      BY <2>3 DEF J!Each
    <3>2. \A s \in J!Services : Kept(box'[s], box[s])
      BY <2>1, <3>1, KeptContainers
    <3>3. IF kind = "stop" THEN J!Fail ELSE J!Return(FALSE, "FAILED", "none")
      BY <2>3
    <3> QED
      BY <2>1, <3>2, <3>3, SMTT(30) DEF Container, Kept
  <2> QED
    BY <1>12, <2>2, <2>3 DEF J!ComposeStop
<1>13. CASE J!ComposeDown
  <2>1. pc = "down" /\ Containers /\ UNCHANGED <<env, compose, tag, kind, before, meta, imageID, jobs, honest, job, claims, status>>
    BY <1>13 DEF J!ComposeDown
  <2>2. CASE ~cancelled /\ box' = [s \in J!Services |-> J!Gone] /\ IF kind = "delete" THEN J!Succeed ELSE J!Goto("up")
    <3>1. \A s \in J!Services : Container(box'[s]) /\ box'[s].state = "none"
      BY <2>1, <2>2, NewContainer DEF Containers
    <3> QED
      BY <2>1, <2>2, <3>1, SMTT(30) DEF Container, Kept
  <2>3. CASE /\ box' \in J!Each(LAMBDA s : { box[s], J!Stopped(box[s]), J!Gone })
             /\ J!Fail
    <3>1. \A s \in J!Services : box'[s] \in { box[s], J!Stopped(box[s]), J!Gone }
      BY <2>3 DEF J!Each
    <3>2. \A s \in J!Services : Container(box'[s]) /\ (Kept(box'[s], box[s]) \/ box'[s].state = "none")
      BY <2>1, <3>1, GoneContainers
    <3>3. J!Fail
      BY <2>3
    <3> QED
      BY <2>1, <3>2, <3>3, SMTT(30) DEF Container, Kept
  <2> QED
    BY <1>13, <2>2, <2>3 DEF J!ComposeDown
<1>14. CASE J!ReconcileImage
  BY <1>14, SMTT(30) DEF J!ReconcileImage, J!verifyImageCandidate, J!safeManagedPath
<1>15. CASE J!RepairImage
  BY <1>15, SMTT(30) DEF J!RepairImage, J!verifyImageCandidate, J!safeManagedPath, J!Restart
<1>16. CASE J!RecheckImage
  BY <1>16, SMTT(30) DEF J!RecheckImage, J!verifyImageCandidate, J!safeManagedPath
<1>17. CASE J!ComposeStart
  <2>1. pc = "start" /\ Containers /\ UNCHANGED <<env, compose, tag, kind, before, meta, imageID, jobs, honest, job, claims, status>>
    BY <1>17 DEF J!ComposeStart
  <2>2. CASE ~cancelled /\ box' = [s \in J!Services |-> J!Started(box[s])] /\ J!Return(TRUE, "RUNNING", result.image)
    <3>1. \A s \in J!Services : Kept(box'[s], box[s]) /\ (box[s].state # "none" => box'[s].state = "running")
      BY <2>1, <2>2, StartsContainer DEF Containers
    <3> QED
      BY <2>1, <2>2, <3>1, SMTT(30) DEF Container, Kept
  <2>3. CASE /\ box' \in J!Each(LAMBDA s : { box[s], J!Started(box[s]) })
             /\ J!Return(FALSE, "FAILED", "none")
    <3>1. \A s \in J!Services : box'[s] \in { box[s], J!Started(box[s]) }
      BY <2>3 DEF J!Each
    <3>2. \A s \in J!Services : Kept(box'[s], box[s])
      BY <2>1, <3>1, KeptContainers
    <3>3. J!Return(FALSE, "FAILED", "none")
      BY <2>3
    <3> QED
      BY <2>1, <3>2, <3>3, SMTT(30) DEF Container, Kept
  <2> QED
    BY <1>17, <2>2, <2>3 DEF J!ComposeStart
<1>18. CASE J!failedImageRepairWithRestore
  <2>1. pc = "restore" /\ Containers /\ UNCHANGED <<env, compose, tag, kind, before, meta, imageID, jobs, honest, job, claims, status>>
    BY <1>18 DEF J!failedImageRepairWithRestore
  <2>2. CASE ~cancelled /\ box' = [s \in J!Services |-> J!Started(box[s])] /\ J!Return(FALSE, "RUNNING", "none")
    <3>1. \A s \in J!Services : Kept(box'[s], box[s]) /\ (box[s].state # "none" => box'[s].state = "running")
      BY <2>1, <2>2, StartsContainer DEF Containers
    <3> QED
      BY <2>1, <2>2, <3>1, SMTT(30) DEF Container, Kept
  <2>3. CASE /\ box' \in J!Each(LAMBDA s : { box[s], J!Started(box[s]) })
             /\ J!Return(FALSE, "FAILED", "none")
    <3>1. \A s \in J!Services : box'[s] \in { box[s], J!Started(box[s]) }
      BY <2>3 DEF J!Each
    <3>2. \A s \in J!Services : Kept(box'[s], box[s])
      BY <2>1, <3>1, KeptContainers
    <3>3. J!Return(FALSE, "FAILED", "none")
      BY <2>3
    <3> QED
      BY <2>1, <3>2, <3>3, SMTT(30) DEF Container, Kept
  <2> QED
    BY <1>18, <2>2, <2>3 DEF J!failedImageRepairWithRestore
<1>19. CASE J!Report
  <2>1. pc = "report" /\ pc' = "idle" /\ UNCHANGED <<env, compose, tag, box, kind, before, jobs, honest, claims, result>>
    BY <1>19 DEF J!Report
  <2>2. CASE cancelled
    BY <1>19, <2>1, <2>2, SMTT(30) DEF J!Report
  <2>3. CASE ~cancelled /\ result.ok
    BY <1>19, <2>1, <2>3, SMTT(30) DEF J!Report
  <2>4. CASE ~cancelled /\ ~result.ok
    <3>1. kind = "image.repair" => J!OutcomeStatus = result.status
      BY DEF J!OutcomeStatus
    <3>2. kind \in J!Kinds \ { "image.repair", "image.reconcile", "runtime.repair" } => J!OutcomeStatus = "FAILED"
      BY <2>4, SMTT(30) DEF J!OutcomeStatus, J!statusAfterFailure
    <3>3. kind = "image.reconcile" => J!OutcomeStatus \in { "STOPPED", "FAILED" }
      BY <2>4, SMTT(30) DEF J!OutcomeStatus, J!statusAfterFailure
    <3> QED
      BY <1>19, <2>1, <2>4, <3>1, <3>2, <3>3, SMTT(30) DEF J!Report
  <2> QED
    BY <1>19, <2>2, <2>3, <2>4 DEF J!Report
<1> QED
  BY <1>1, <1>2, <1>3, <1>4, <1>5, <1>6, <1>7, <1>8, <1>9, <1>10, <1>11, <1>12, <1>13, <1>14,
     <1>15, <1>16, <1>17, <1>18, <1>19 DEF J!Step

(* The jobs as the operator asks for them, and their attempts: claimed, cut *)
(* off, given up.                                                          *)
LEMMA RuntimeAround ==
  ASSUME RuntimeInv,
  J!Claim \/ J!GiveUp \/ J!Cancel \/ J!Crash \/ J!Retag \/ (\E k \in J!Kinds : J!Request(k))
  PROVE  RuntimeInv'
<1> USE DEF RuntimeInv, RuntimeTyped, JobPlaced, OnItsFiles, FilesWritten, DoneSeen, FirstFailure,
            SeenDone, StatusHolds,
            AllRun, NoneRuns, Runs, Containers, Container, Making, Starting, Repairing, Uppers,
            ImageKinds,
            J!Kinds, J!Absent, J!Torn, J!row, J!host
<1>1. CASE J!Claim
  BY <1>1, SMTT(30) DEF J!Claim, J!NoResult
<1>2. CASE J!GiveUp
  <2>1. MaxClaims \in Nat \ {0}
    BY BoundsAssumption
  <2>2. kind # "runtime.repair" => J!statusAfterExpiry(kind, before) = "FAILED"
    BY SMTT(30) DEF J!statusAfterExpiry
  <2> QED
    BY <1>2, <2>1, <2>2, SMTT(30) DEF J!GiveUp
<1>3. CASE J!Cancel
  BY <1>3, SMTT(30) DEF J!Cancel
<1>4. CASE J!Crash
  BY <1>4, SMTT(30) DEF J!Crash
<1>5. CASE J!Retag
  BY <1>5, SMTT(30) DEF J!Retag
<1>6. ASSUME NEW k \in J!Kinds, J!Request(k)
      PROVE  RuntimeInv'
  <2>1. k = "image.reconcile" => status = "STOPPED"
    <3>1. J!QueueableFrom("image.reconcile") = { "STOPPED" }
      BY SMTT(30) DEF J!QueueableFrom, J!ConfigTypes
    <3> QED
      BY <1>6, <3>1, Zenon DEF J!Request
  <2>2. honest' => StatusHolds(status)
    BY <1>6, Zenon DEF J!Request, J!StatusTrue, J!All
  <2> QED
    BY <1>6, <2>1, <2>2, SMTT(30) DEF J!Request
<1> QED
  BY <1>1, <1>2, <1>3, <1>4, <1>5, <1>6

(* The first job of an instance, or of one that is up.                     *)
LEMMA InitRuntime == J!Init => RuntimeInv
<1> SUFFICES ASSUME J!Init PROVE RuntimeInv
  OBVIOUS
<1> USE DEF RuntimeInv, RuntimeTyped, JobPlaced, OnItsFiles, FilesWritten, DoneSeen, FirstFailure,
            SeenDone, StatusHolds,
            AllRun, NoneRuns, Runs, Containers, Container, Making, Starting, Repairing, Uppers,
            ImageKinds,
            J!Kinds, J!Absent, J!Torn, J!Gone, J!NoResult
<1>1. /\ kind = "provision" /\ pc = "idle" /\ claims = 0 /\ jobs = 0 /\ result = J!NoResult /\ job \in { "none", "active" }
      /\ env \in { 0, 1 } /\ compose = env
  BY DEF J!Init
<1>2. \/ env = 0 /\ \A s \in J!Services : box[s] = J!Gone
      \/ env = 1 /\ \E up \in { "running", "stopped" } : \A s \in J!Services : box[s] = [state |-> up, image |-> "a", env |-> 1]
  <2>1. CASE /\ env = J!Absent /\ box = [s \in J!Services |-> J!Gone]
    BY <2>1
  <2>2. CASE /\ env = 1
             /\ box = [s \in J!Services |->
                        [state |-> IF status = "RUNNING" THEN "running" ELSE "stopped", image |-> "a", env |-> 1]]
    BY <2>2
  <2> QED
    BY <2>1, <2>2, Zenon DEF J!Init
<1> QED
  BY <1>1, <1>2, SMTT(30)

(* What the properties of HostWorkflows need of it.                         *)
LEMMA RuntimeKeeps ==
  RuntimeInv => J!SuccessIsTrue /\ J!RunsOnItsFiles /\ J!FirstFailureIsTrue
<1> USE DEF RuntimeInv, RuntimeTyped, OnItsFiles, DoneSeen, FirstFailure, SeenDone, StatusHolds,
            AllRun, NoneRuns, Runs, Uppers, ImageKinds, J!All, J!Kinds
<1>1. RuntimeInv => J!SuccessIsTrue
  BY SMTT(30) DEF J!SuccessIsTrue
<1>2. RuntimeInv => J!RunsOnItsFiles
  BY SMTT(30) DEF J!RunsOnItsFiles, J!Existing
<1>3. RuntimeInv => J!FirstFailureIsTrue
  BY SMTT(30) DEF J!FirstFailureIsTrue, J!StatusTrue
<1> QED
  BY <1>1, <1>2, <1>3
------------------------------------------------------------------------------
(* The chat turn.                                                          *)

Outcomes == { "ready", "rejected", "failed", "missing" }
LockedStages == { "checked", "verified", "moved" }
EventTyped(e) ==
    /\ DOMAIN e = { "sequence", "type", "text", "output", "status" }
    /\ IF e.type = "artifact" THEN e.output \in T!Outputs ELSE e.output = 0
    /\ e.status \in { "preparing", "upload" } => e.type = "artifact"
RequestTyped(r) ==
    /\ DOMAIN r = { "event", "stage", "live" } /\ EventTyped(r.event)
    /\ r.stage \in { "new", "record" } \cup LockedStages
    /\ r.stage = "record" => r.event.type = "artifact" /\ r.event.status # "upload"
    /\ r.stage \in LockedStages => r.event.status = "upload"

TurnTyped ==
    /\ pc \in { "idle", "begin", "session", "lock", "open", "stream", "call", "outputs", "upload", "final", "report" }
    /\ job \in { "active", "done", "failed", "deleted" } /\ claims \in { 0, 1 }
    /\ claims = 0 => pc = "idle"
    /\ DOMAIN stream = { "frames", "text", "flushed", "sequence", "ended" }
    /\ stream.text \in Nat /\ stream.flushed \in Nat /\ stream.flushed <= stream.text
    /\ stream.sequence \in Nat
    /\ outputs \in Seq({ "staged" } \cup Outcomes) /\ Len(outputs) <= MaxOutputs
    /\ out \in 0 .. Len(outputs)
    /\ pc \in { "upload", "final" } => out > 0
    /\ pc \in { "begin", "session", "lock", "open", "stream" } \/ claims = 0 => out = 0
    /\ DOMAIN registry = T!Outputs

(* The agent waits for one request at a time.                              *)
Requests ==
    /\ \A r \in requests :
          RequestTyped(r) /\ (r.live => pc = "call" /\ r.event.output = out)
    /\ \A r, q \in requests : r.live /\ q.live => r = q

(* One request has the mutex, and what it stores no manifest calls ready.  *)
LockHeld ==
    /\ \A r, q \in requests : r.stage \in LockedStages /\ q.stage \in LockedStages => r = q
    /\ \A r \in requests :
          /\ r.stage \in LockedStages => registry[r.event.output] # "ready"
          /\ r.stage = "moved" => r.event.output \in stored
DiscardedWithSession == session # "open" => T!Outputs \subseteq discarded

(* The storage of the outputs.                                             *)
StorageInv == TurnTyped /\ Requests /\ LockHeld /\ T!ReadyIsStored /\ DiscardedWithSession

(* The turn may still succeed, or has.                                     *)
Open ==
    \/ job = "done"
    \/ /\ job = "active" /\ ~cancelled
       /\ pc = "idle" => claims = 0
       /\ pc = "report" => result # "failed"

NotBegun ==
    job = "active" /\ pc \in { "idle", "begin", "session", "lock", "open" } =>
        /\ stream = T!NoStream /\ outputs = <<>> /\ out = 0
        /\ events = {} /\ requests = {}

(* The agent is in the stream, at its outputs, or through with them.       *)
Placed ==
    /\ pc = "upload" => outputs[out] = "staged"
    /\ pc = "final" => outputs[out] \in Outcomes
    /\ out > 0 \/ pc \in { "outputs", "report" } \/ job = "done" => stream.flushed = stream.text
    /\ pc = "report" \/ job = "done" => out = Len(outputs)
    /\ pc = "report" => result = "ok"
    /\ job = "done" => pc = "idle"
    /\ \A r \in requests :
          r.live /\ r.event.status \in { "preparing", "upload" } => outputs[out] = "staged"

(* What was ever said: the recorded events, and those on their way.        *)
Said == events \cup { r.event : r \in requests }
Final(o) == T!ArtifactEvent(stream.sequence + 2 * o, o, outputs[o])
Piece(e) ==
    /\ e.text \in Seq(Nat) /\ e.sequence \in Nat /\ e.sequence <= stream.sequence
    /\ \A i \in 1 .. Len(e.text) :
          e.text[i] \in 1 .. stream.flushed /\ e.text[i] = e.text[1] + i - 1
Sayable(e) ==
    \/ e.type # "artifact" /\ e.output = 0 /\ (e.type = "delta" => Piece(e))
    \/ e.type = "artifact" /\ e.output \in 1 .. out /\ e.status \in { "preparing", "upload" }
    \/ e.output \in 1 .. out /\ outputs[e.output] \in Outcomes /\ e = Final(e.output)
SaidWell ==
    /\ \A e \in Said : Sayable(e)
    /\ \A d, e \in Said : d.type = "delta" /\ e.type = "delta" =>
          d = e \/ T!Precedes(d, e) \/ T!Precedes(e, d)
    /\ \A r \in requests : r.stage = "record" => r.event \in events
    /\ \A e \in events : e.status # "upload"

(* Every chunk reported is recorded, or on its way; every outcome is.      *)
Holds(e, c) == e.type = "delta" /\ \E i \in 1 .. Len(e.text) : e.text[i] = c
ChunksSaid ==
    \A c \in 1 .. stream.flushed :
        \/ \E e \in events : Holds(e, c)
        \/ pc = "call" /\ \E r \in requests : r.live /\ Holds(r.event, c)
OutcomesSaid ==
    \A o \in 1 .. out :
        o < out \/ pc \in { "outputs", "report" } \/ job = "done" =>
            Final(o) \in events /\ outputs[o] \in Outcomes

(* What the agent calls ready was stored.                                  *)
ReadyWasStored ==
    /\ \A o \in 1 .. Len(outputs) :
          outputs[o] = "ready" => registry[o] \in { "ready", "expired" } \/ o \in discarded
    /\ \A o \in T!Outputs : registry[o] = "expired" => job = "done" /\ requests = {}

TurnInv == Open => NotBegun /\ Placed /\ SaidWell /\ ChunksSaid /\ OutcomesSaid /\ ReadyWasStored
ChatInv == StorageInv /\ TurnInv

(* The steps of the agent and of the job's row, and those of the control    *)
(* plane.                                                                  *)
AgentStep(f) ==
    \/ T!Begin \/ T!ensureHermesChatSession \/ T!lockHermesChatSessionRuntime \/ T!OpenStream
    \/ T!ReadFrame(f) \/ T!EndOfStream \/ T!FlushRest \/ T!prepareChatArtifacts
    \/ T!NextOutput \/ T!StartUpload \/ T!ReportOutcome \/ T!OutputsReported
    \/ T!Interrupted \/ T!Report \/ T!StreamFails \/ T!UploadFails \/ T!CancelActiveChat
    \/ T!Claim \/ T!GiveUp \/ T!Cancel \/ T!Crash
PlaneStep(r, o, aged) ==
    \/ /\ r \in requests
       /\ \/ T!AppendChatEvent(r) \/ T!Record(r) \/ T!PutBegin(r) \/ T!PutVerify(r)
          \/ T!PutMove(r) \/ T!PutFinish(r) \/ T!HandlerFails(r) \/ T!Resend(r)
    \/ T!Reconcile(aged) \/ T!RestartControlPlane(aged) \/ (o \in T!Outputs /\ T!DeleteArtifact(o, aged))
    \/ T!DeleteChatSession \/ T!DeleteSession

(* The shape of what is sent, given up and carried on.                     *)
LEMMA RequestShapes ==
  /\ \A e : EventTyped(e) => /\ RequestTyped(T!New(e)) /\ T!New(e).event = e
                             /\ T!New(e).stage = "new" /\ T!New(e).live
  /\ \A r : RequestTyped(r) => LET q == [r EXCEPT !.live = FALSE]
                               IN RequestTyped(q) /\ q.event = r.event /\ q.stage = r.stage /\ ~q.live
  /\ \A r, s : RequestTyped(r) => LET q == [r EXCEPT !.stage = s]
                                  IN /\ DOMAIN q = DOMAIN r /\ q.event = r.event /\ q.live = r.live /\ q.stage = s
  BY DEF RequestTyped, T!New, LockedStages

(* The fields of an event and of an output's event.                        *)
LEMMA EventShapes ==
  /\ \A n, type, text : type # "artifact" => EventTyped(T!Event(n, type, text))
  /\ \A n, s : \A o \in T!Outputs : EventTyped(T!ArtifactEvent(n, o, s))
  /\ \A n, type, text : LET e == T!Event(n, type, text)
                        IN e.sequence = n /\ e.type = type /\ e.text = text /\ e.output = 0 /\ e.status = "none"
  /\ \A n, o, s : LET e == T!ArtifactEvent(n, o, s)
                  IN e.sequence = n /\ e.type = "artifact" /\ e.text = <<>> /\ e.output = o /\ e.status = s
  BY DEF EventTyped, T!Event, T!ArtifactEvent

(* A request is added, all are given up, one is answered, one goes on.     *)
LEMMA Calls ==
  ASSUME StorageInv, NEW e, EventTyped(e), pc # "call", requests' = requests \cup { T!New(e) },
         pc' = "call", e.output = out', UNCHANGED <<registry, stored>>
  PROVE  Requests' /\ LockHeld'
<1>1. /\ RequestTyped(T!New(e)) /\ T!New(e).event = e /\ T!New(e).stage = "new" /\ T!New(e).live
  BY RequestShapes
<1>2. \A r \in requests : RequestTyped(r) /\ ~r.live
  BY DEF StorageInv, Requests
<1>3. Requests'
  BY <1>1, <1>2 DEF Requests
<1>4. LockHeld'
  BY <1>1 DEF StorageInv, LockHeld, LockedStages
<1> QED
  BY <1>3, <1>4

(* A request that is given up keeps its stage and its mutex.               *)
LEMMA Abandons ==
  ASSUME StorageInv, T!Abandon, UNCHANGED <<registry, stored>>
  PROVE  Requests' /\ LockHeld'
<1>1. ASSUME NEW q \in requests'
      PROVE  \E r \in requests : /\ q = [r EXCEPT !.live = FALSE] /\ RequestTyped(q)
                                 /\ q.event = r.event /\ q.stage = r.stage /\ ~q.live
  <2>1. PICK r \in requests : q = [r EXCEPT !.live = FALSE]
    BY DEF T!Abandon
  <2>2. RequestTyped(r)
    BY DEF StorageInv, Requests
  <2> QED
    BY <2>1, <2>2, RequestShapes
<1>2. \A q \in requests' : RequestTyped(q) /\ ~q.live
  BY <1>1
<1>3. Requests'
  BY <1>2 DEF Requests
<1>4. ASSUME NEW p \in requests', NEW q \in requests', p.stage \in LockedStages, q.stage \in LockedStages
      PROVE  p = q
  <2>1. PICK r \in requests : p = [r EXCEPT !.live = FALSE] /\ p.stage = r.stage
    BY <1>1
  <2>2. PICK s \in requests : q = [s EXCEPT !.live = FALSE] /\ q.stage = s.stage
    BY <1>1
  <2>3. r = s
    BY <1>4, <2>1, <2>2, Zenon DEF StorageInv, LockHeld
  <2> QED
    BY <2>1, <2>2, <2>3
<1>5. \A q \in requests' :
         /\ q.stage \in LockedStages => registry'[q.event.output] # "ready"
         /\ q.stage = "moved" => q.event.output \in stored'
  BY <1>1 DEF StorageInv, LockHeld
<1>6. \A p, q \in requests' : p.stage \in LockedStages /\ q.stage \in LockedStages => p = q
  BY <1>4
<1>7. LockHeld'
  BY <1>5, <1>6, Zenon DEF LockHeld, LockedStages
<1> QED
  BY <1>3, <1>7

(* An answered request is gone.                                            *)
LEMMA Answered ==
  ASSUME StorageInv, NEW r \in requests, requests' = requests \ { r }, r.live \/ UNCHANGED <<pc, out>>
  PROVE  Requests' /\ (UNCHANGED <<registry, stored>> => LockHeld')
<1>1. Requests'
  BY DEF StorageInv, Requests
<1>2. UNCHANGED <<registry, stored>> => LockHeld'
  BY DEF StorageInv, LockHeld
<1> QED
  BY <1>1, <1>2

(* A request goes on to its next stage.                                    *)
LEMMA GoesOn ==
  ASSUME StorageInv, NEW r \in requests, NEW s, T!AtStage(r, s), UNCHANGED <<pc, out>>,
         s \in { "new", "record" } \cup LockedStages,
         s = "record" => r.event.type = "artifact" /\ r.event.status # "upload",
         s \in LockedStages => r.event.status = "upload"
  PROVE  Requests'
<1> DEFINE q == [r EXCEPT !.stage = s]
<1>1. RequestTyped(r) /\ DOMAIN q = DOMAIN r /\ q.event = r.event /\ q.live = r.live /\ q.stage = s
  BY RequestShapes DEF StorageInv, Requests
<1>2. RequestTyped(q)
  BY <1>1 DEF RequestTyped
<1>3. requests' = (requests \ { r }) \cup { q }
  BY DEF T!AtStage
<1> HIDE DEF q
<1> QED
  BY <1>1, <1>2, <1>3 DEF StorageInv, Requests

(* What an answer does to the agent.                                       *)
LEMMA ReturnTyped ==
  ASSUME StorageInv, NEW r \in requests, NEW a, r.live, T!Returned(r, a),
  DOMAIN registry' = T!Outputs, UNCHANGED <<job, claims>>
  PROVE  TurnTyped'
<1>1. claims = 1 /\ (IF r.event.type = "artifact" THEN out \in 1 .. Len(outputs) ELSE out = 0) /\ (r.event.status \in { "preparing", "upload" } => r.event.type = "artifact")
  BY SMTT(30) DEF StorageInv, Requests, TurnTyped, RequestTyped, EventTyped, T!Outputs
<1>2. \A s \in Outcomes : out \in 1 .. Len(outputs) =>
         LET n == [outputs EXCEPT ![out] = s] IN n \in Seq({ "staged" } \cup Outcomes) /\ Len(n) = Len(outputs)
  BY DEF StorageInv, TurnTyped
<1>3. CASE UNCHANGED <<stream, outputs, out>> /\ (pc' \in { "report", "outputs" } \/ (pc' = "stream" /\ r.event.type # "artifact"))
  BY <1>1, <1>3 DEF StorageInv, TurnTyped
<1>4. CASE UNCHANGED <<stream, outputs, out>> /\ pc' = "upload" /\ r.event.type = "artifact"
  BY <1>1, <1>4 DEF StorageInv, TurnTyped
<1>5. CASE T!Leave
  BY <1>1, <1>5, BoundsAssumption DEF StorageInv, TurnTyped, T!Leave, T!NoStream, Outcomes
<1>6. ASSUME NEW s \in Outcomes, T!Outcome(s), UNCHANGED <<stream, out>>, r.event.status = "upload"
      PROVE  TurnTyped'
  <2>1. outputs' \in Seq({ "staged" } \cup Outcomes) /\ Len(outputs') = Len(outputs)
    BY <1>1, <1>2, <1>6 DEF T!Outcome
  <2>2. pc' = "final"
    BY <1>6 DEF T!Outcome
  <2> QED
    BY <1>1, <1>6, <2>1, <2>2 DEF StorageInv, TurnTyped
<1> QED
  BY <1>1, <1>3, <1>4, <1>5, <1>6, SMTT(30) DEF T!Returned, T!Fail, T!IsUpload, Outcomes

(* What is left when nothing was sent, or nothing of the storage changes.   *)
LEMMA SameStorage ==
  ASSUME StorageInv, TurnTyped', Requests', LockHeld', UNCHANGED <<registry, stored, discarded,
  session>>
  PROVE  StorageInv'
  BY DEF StorageInv, T!ReadyIsStored, DiscardedWithSession, T!Outputs

(* A step of the agent that touches neither requests nor storage.          *)
LEMMA SameRequests ==
  ASSUME StorageInv, TurnTyped', UNCHANGED <<requests, registry, stored, discarded, session>>,
         pc # "call" \/ UNCHANGED <<pc, out>>
  PROVE  StorageInv'
<1>1. Requests'
  BY DEF StorageInv, Requests
<1>2. LockHeld'
  BY DEF StorageInv, LockHeld
<1> QED
  BY <1>1, <1>2, SameStorage

(* A request of the stream.                                                *)
LEMMA SpeaksUp ==
  ASSUME StorageInv, TurnTyped', UNCHANGED <<registry, stored, discarded, session>>, pc # "call",
         out' = 0, \E n, type, text : type # "artifact" /\ T!Call(T!Event(n, type, text))
  PROVE  StorageInv'
<1>1. PICK n, type, text : type # "artifact" /\ T!Call(T!Event(n, type, text))
  OBVIOUS
<1>2. EventTyped(T!Event(n, type, text)) /\ T!Event(n, type, text).output = 0
  BY <1>1, EventShapes
<1>3. Requests' /\ LockHeld'
  BY <1>1, <1>2, Calls DEF T!Call
<1> QED
  BY <1>3, SameStorage

(* A request about the present output.                                     *)
LEMMA SpeaksOfOutput ==
  ASSUME StorageInv, TurnTyped', UNCHANGED <<registry, stored, discarded, session>>, pc # "call",
  out' > 0,
         \E n, s : T!Call(T!ArtifactEvent(n, out', s))
  PROVE  StorageInv'
<1>1. PICK n, s : T!Call(T!ArtifactEvent(n, out', s))
  OBVIOUS
<1>2. out' \in T!Outputs
  BY BoundsAssumption DEF StorageInv, TurnTyped, T!Outputs
<1>3. EventTyped(T!ArtifactEvent(n, out', s)) /\ T!ArtifactEvent(n, out', s).output = out'
  BY <1>2, EventShapes
<1>4. Requests' /\ LockHeld'
  BY <1>1, <1>3, Calls DEF T!Call
<1> QED
  BY <1>4, SameStorage

(* The storage, through the agent's steps ...                              *)
LEMMA AgentStorage ==
  ASSUME StorageInv, NEW f, AgentStep(f)
  PROVE  StorageInv'
<1> USE BoundsAssumption
<1>1. CASE T!Report
  <2>1. job' \in { job, "done", "failed" } /\ pc' = "idle" /\ pc = "report" /\ UNCHANGED claims
    BY <1>1 DEF T!Report, T!Ended, T!Leave, T!storage
  <2>2. UNCHANGED <<stream, outputs, out>> \/ T!Leave
    BY <1>1 DEF T!Report
  <2>3. UNCHANGED <<requests, registry, stored, discarded, session>>
    BY <1>1 DEF T!Report, T!storage
  <2>4. TurnTyped'
    <3>1. CASE UNCHANGED <<stream, outputs, out>>
      BY <2>1, <2>3, <3>1 DEF StorageInv, TurnTyped, Outcomes
    <3>2. CASE T!Leave
      BY <2>1, <2>3, <3>2 DEF StorageInv, TurnTyped, Outcomes, T!Leave, T!NoStream
    <3> QED
      BY <2>2, <3>1, <3>2
  <2> QED
    BY <2>1, <2>3, <2>4, SameRequests
<1>2. CASE T!Begin
  <2>1. TurnTyped' /\ (pc # "call" \/ UNCHANGED <<pc, out>>)
    BY <1>2, SMTT(30) DEF StorageInv, TurnTyped, Outcomes, T!client, T!storage, T!Begin, T!Fail,
       T!Leave, T!NoStream
  <2>2. UNCHANGED <<requests, registry, stored, discarded, session>>
    BY <1>2 DEF T!Begin, T!storage
  <2> QED
    BY <2>1, <2>2, SameRequests
<1>3. CASE T!ensureHermesChatSession
  <2>1. TurnTyped' /\ (pc # "call" \/ UNCHANGED <<pc, out>>)
    BY <1>3, SMTT(30) DEF StorageInv, TurnTyped, Outcomes, T!client, T!storage,
       T!ensureHermesChatSession, T!Fail, T!Leave, T!NoStream
  <2>2. UNCHANGED <<requests, registry, stored, discarded, session>>
    BY <1>3 DEF T!ensureHermesChatSession, T!storage
  <2> QED
    BY <2>1, <2>2, SameRequests
<1>4. CASE T!lockHermesChatSessionRuntime
  <2>1. TurnTyped' /\ (pc # "call" \/ UNCHANGED <<pc, out>>)
    BY <1>4, SMTT(30) DEF StorageInv, TurnTyped, Outcomes, T!client, T!storage,
       T!lockHermesChatSessionRuntime, T!Fail, T!Leave, T!NoStream
  <2>2. UNCHANGED <<requests, registry, stored, discarded, session>>
    BY <1>4 DEF T!lockHermesChatSessionRuntime, T!storage
  <2> QED
    BY <2>1, <2>2, SameRequests
<1>5. CASE T!EndOfStream
  <2>1. TurnTyped' /\ (pc # "call" \/ UNCHANGED <<pc, out>>)
    BY <1>5, SMTT(30) DEF StorageInv, TurnTyped, Outcomes, T!client, T!storage, T!EndOfStream,
       T!Fail, T!Leave, T!NoStream
  <2>2. UNCHANGED <<requests, registry, stored, discarded, session>>
    BY <1>5 DEF T!EndOfStream, T!storage
  <2> QED
    BY <2>1, <2>2, SameRequests
<1>6. CASE T!OutputsReported
  <2>1. TurnTyped' /\ (pc # "call" \/ UNCHANGED <<pc, out>>)
    BY <1>6, SMTT(30) DEF StorageInv, TurnTyped, Outcomes, T!client, T!storage, T!OutputsReported,
       T!Fail, T!Leave, T!NoStream
  <2>2. UNCHANGED <<requests, registry, stored, discarded, session>>
    BY <1>6 DEF T!OutputsReported, T!storage
  <2> QED
    BY <2>1, <2>2, SameRequests
<1>7. CASE T!Claim
  <2>1. TurnTyped' /\ (pc # "call" \/ UNCHANGED <<pc, out>>)
    BY <1>7, SMTT(30) DEF StorageInv, TurnTyped, Outcomes, T!client, T!storage, T!Claim, T!Fail,
       T!Leave, T!NoStream
  <2>2. UNCHANGED <<requests, registry, stored, discarded, session>>
    BY <1>7 DEF T!Claim, T!storage
  <2> QED
    BY <2>1, <2>2, SameRequests
<1>8. CASE T!GiveUp
  <2>1. TurnTyped' /\ (pc # "call" \/ UNCHANGED <<pc, out>>)
    BY <1>8, SMTT(30) DEF StorageInv, TurnTyped, Outcomes, T!client, T!storage, T!GiveUp, T!Fail,
       T!Leave, T!NoStream, T!Ended
  <2>2. UNCHANGED <<requests, registry, stored, discarded, session>>
    BY <1>8 DEF T!GiveUp, T!storage
  <2> QED
    BY <2>1, <2>2, SameRequests
<1>9. CASE T!Cancel
  <2>1. TurnTyped' /\ (pc # "call" \/ UNCHANGED <<pc, out>>)
    BY <1>9, SMTT(30) DEF StorageInv, TurnTyped, Outcomes, T!client, T!storage, T!Cancel, T!Fail,
       T!Leave, T!NoStream
  <2>2. UNCHANGED <<requests, registry, stored, discarded, session>>
    BY <1>9 DEF T!Cancel, T!storage
  <2> QED
    BY <2>1, <2>2, SameRequests
<1>10. CASE T!CancelActiveChat
  <2>1. TurnTyped' /\ (pc # "call" \/ UNCHANGED <<pc, out>>)
    BY <1>10, SMTT(30) DEF StorageInv, TurnTyped, Outcomes, T!client, T!storage,
       T!CancelActiveChat, T!Fail, T!Leave, T!NoStream, T!Ended
  <2>2. UNCHANGED <<requests, registry, stored, discarded, session>>
    BY <1>10 DEF T!CancelActiveChat, T!storage
  <2> QED
    BY <2>1, <2>2, SameRequests
<1>11. CASE T!OpenStream
  <2>1. TurnTyped' /\ pc # "call" /\ out' = 0
    BY <1>11, SMTT(30) DEF StorageInv, TurnTyped, Outcomes, T!client, T!storage, T!OpenStream,
       T!Call, T!Fail
  <2>2. UNCHANGED <<registry, stored, discarded, session>>
    BY <1>11 DEF T!OpenStream, T!storage
  <2>3. UNCHANGED requests \/ (\E n, type, text : type # "artifact" /\ T!Call(T!Event(n, type, text)))
    BY <1>11, Zenon DEF T!OpenStream
  <2> QED
    BY <2>1, <2>2, <2>3, SameRequests, SpeaksUp
<1>12. CASE T!FlushRest
  <2>1. TurnTyped' /\ pc # "call" /\ out' = 0
    BY <1>12, SMTT(30) DEF StorageInv, TurnTyped, Outcomes, T!client, T!storage, T!FlushRest,
       T!Flush, T!Call, T!Fail
  <2>2. UNCHANGED <<registry, stored, discarded, session>>
    BY <1>12 DEF T!FlushRest, T!storage
  <2>3. (\E n, type, text : type # "artifact" /\ T!Call(T!Event(n, type, text)))
    BY <1>12, Zenon DEF T!FlushRest, T!Flush
  <2> QED
    BY <2>1, <2>2, <2>3, SameRequests, SpeaksUp
<1>13. CASE T!ReadFrame(f)
  <2>1. /\ pc = "stream" /\ pc' \in { "stream", "call" } /\ UNCHANGED <<outputs, out, job, claims, registry, stored, discarded, session>>
        /\ DOMAIN stream' = DOMAIN stream
    BY <1>13, Zenon DEF T!ReadFrame, T!Flush, T!Call, T!storage
  <2>2. /\ stream'.text \in { stream.text, stream.text + 1 }
        /\ stream'.flushed \in { stream.flushed, stream'.text }
        /\ stream'.sequence \in { stream.sequence, stream.sequence + 1 }
    <3> DEFINE fresh == f.text /\ (~f.done \/ stream.text = 0)
               s == [stream EXCEPT !.frames = IF f.done THEN 0 ELSE @ + 1, !.ended = f.done,
                                   !.text = IF fresh THEN @ + 1 ELSE @]
    <3>1. stream' = [s EXCEPT !.sequence = @ + 1] \/ stream' = [s EXCEPT !.sequence = @ + 1, !.flushed = s.text] \/ stream' = s
      BY <1>13, Zenon DEF T!ReadFrame, T!Flush
    <3>2. DOMAIN stream = { "frames", "text", "flushed", "sequence", "ended" }
      BY DEF StorageInv, TurnTyped
    <3>3. s.text \in { stream.text, stream.text + 1 } /\ s.flushed = stream.flushed /\ s.sequence = stream.sequence /\ DOMAIN s = DOMAIN stream
      BY <3>2
    <3> HIDE DEF s
    <3> QED
      BY <3>1, <3>2, <3>3
  <2>3. TurnTyped' /\ out' = 0
    BY <2>1, <2>2, SMTT(30) DEF StorageInv, TurnTyped, Outcomes
  <2>4. UNCHANGED requests \/ (\E n, type, text : type # "artifact" /\ T!Call(T!Event(n, type, text)))
    BY <1>13, Zenon DEF T!ReadFrame, T!Flush
  <2> QED
    BY <2>1, <2>3, <2>4, SameRequests, SpeaksUp
<1>14. CASE T!NextOutput
  <2>1. TurnTyped' /\ pc # "call" /\ out' > 0
    BY <1>14, SMTT(30) DEF StorageInv, TurnTyped, Outcomes, T!client, T!storage, T!NextOutput,
       T!Call, T!Fail
  <2>2. UNCHANGED <<registry, stored, discarded, session>>
    BY <1>14 DEF T!NextOutput, T!storage
  <2>3. UNCHANGED requests \/ (\E n, s : T!Call(T!ArtifactEvent(n, out', s)))
    BY <1>14, Zenon DEF T!NextOutput
  <2> QED
    BY <2>1, <2>2, <2>3, SameRequests, SpeaksOfOutput
<1>15. CASE T!StartUpload
  <2>1. TurnTyped' /\ pc # "call" /\ out' > 0
    BY <1>15, SMTT(30) DEF StorageInv, TurnTyped, Outcomes, T!client, T!storage, T!StartUpload,
       T!UploadOf, T!Call, T!Fail
  <2>2. UNCHANGED <<registry, stored, discarded, session>>
    BY <1>15 DEF T!StartUpload, T!storage
  <2>3. (\E n, s : T!Call(T!ArtifactEvent(n, out', s)))
    BY <1>15, Zenon DEF T!StartUpload, T!UploadOf
  <2> QED
    BY <2>1, <2>2, <2>3, SameRequests, SpeaksOfOutput
<1>16. CASE T!ReportOutcome
  <2>1. TurnTyped' /\ pc # "call" /\ out' > 0
    BY <1>16, SMTT(30) DEF StorageInv, TurnTyped, Outcomes, T!client, T!storage, T!ReportOutcome,
       T!Call, T!Fail
  <2>2. UNCHANGED <<registry, stored, discarded, session>>
    BY <1>16 DEF T!ReportOutcome, T!storage
  <2>3. (\E n, s : T!Call(T!ArtifactEvent(n, out', s)))
    BY <1>16, Zenon DEF T!ReportOutcome
  <2> QED
    BY <2>1, <2>2, <2>3, SameRequests, SpeaksOfOutput
<1>17. CASE T!prepareChatArtifacts
  <2>1. UNCHANGED <<requests, registry, stored, discarded, session, stream, out, job, claims>> /\ pc = "stream"
    BY <1>17 DEF T!prepareChatArtifacts, T!storage
  <2>2. outputs' = outputs \/ \E k \in 0 .. MaxOutputs : outputs' \in [1 .. k -> { "staged", "missing" }]
    BY <1>17 DEF T!prepareChatArtifacts
  <2>3. outputs' \in Seq({ "staged" } \cup Outcomes) /\ Len(outputs') <= MaxOutputs
    <3>1. CASE outputs' = outputs
      BY <3>1 DEF StorageInv, TurnTyped, Outcomes
    <3>2. ASSUME NEW k \in 0 .. MaxOutputs, outputs' \in [1 .. k -> { "staged", "missing" }]
          PROVE  outputs' \in Seq({ "staged" } \cup Outcomes) /\ Len(outputs') <= MaxOutputs
      BY <3>2 DEF Outcomes
    <3> QED
      BY <2>2, <3>1, <3>2
  <2>5. TurnTyped'
    <3>1. pc' \in { "report", "outputs" }
      BY <1>17 DEF T!prepareChatArtifacts, T!Fail
    <3> QED
      BY <2>1, <2>3, <3>1 DEF StorageInv, TurnTyped, Outcomes
  <2> QED
    BY <2>1, <2>5, SameRequests
<1>18. CASE T!Interrupted
  <2>1. pc \in { "stream", "call" } /\ UNCHANGED <<job, claims, registry, stored, discarded, session>> /\ T!Abandon
    BY <1>18 DEF T!Interrupted, T!storage
  <2>2. TurnTyped'
    <3>1. CASE T!Fail /\ UNCHANGED <<stream, outputs, out>>
      BY <2>1, <3>1 DEF StorageInv, TurnTyped, Outcomes, T!Fail
    <3>2. CASE T!Leave
      BY <2>1, <3>2 DEF StorageInv, TurnTyped, Outcomes, T!Leave, T!NoStream
    <3> QED
      BY <1>18, <3>1, <3>2 DEF T!Interrupted
  <2> QED
    BY <2>1, <2>2, Abandons, SameStorage
<1>19. CASE T!StreamFails
  <2>1. TurnTyped'
    BY <1>19, SMTT(30) DEF StorageInv, TurnTyped, Outcomes, T!client, T!storage, T!StreamFails,
       T!Fail, T!Leave, T!NoStream
  <2>2. UNCHANGED <<registry, stored, discarded, session>> /\ T!Abandon
    BY <1>19 DEF T!StreamFails, T!storage
  <2> QED
    BY <2>1, <2>2, Abandons, SameStorage
<1>20. CASE T!Crash
  <2>1. TurnTyped'
    BY <1>20, SMTT(30) DEF StorageInv, TurnTyped, Outcomes, T!client, T!storage, T!Crash, T!Fail,
       T!Leave, T!NoStream
  <2>2. UNCHANGED <<registry, stored, discarded, session>> /\ T!Abandon
    BY <1>20 DEF T!Crash, T!storage
  <2> QED
    BY <2>1, <2>2, Abandons, SameStorage
<1>21. CASE T!UploadFails
  <2>1. PICK r \in requests : r.live /\ r.event.status = "upload"
    BY <1>21 DEF T!UploadFails, T!IsUpload
  <2>2. out \in 1 .. Len(outputs)
    BY <2>1 DEF StorageInv, TurnTyped, Requests, RequestTyped, EventTyped, T!Outputs
  <2>3. outputs' = [outputs EXCEPT ![out] = "failed"] /\ pc' = "final" /\ pc = "call" /\ UNCHANGED <<out, stream, job, claims, registry>>
    BY <1>21 DEF T!UploadFails, T!Outcome, T!storage
  <2>4. outputs' \in Seq({ "staged" } \cup Outcomes) /\ Len(outputs') = Len(outputs)
    BY <2>2, <2>3 DEF StorageInv, TurnTyped, Outcomes
  <2>5. TurnTyped'
    BY <2>2, <2>3, <2>4 DEF StorageInv, TurnTyped, Outcomes
  <2>6. UNCHANGED <<registry, stored, discarded, session>> /\ T!Abandon
    BY <1>21 DEF T!UploadFails, T!storage
  <2> QED
    BY <2>5, <2>6, Abandons, SameStorage
<1> QED
  BY <1>1, <1>2, <1>3, <1>4, <1>5, <1>6, <1>7, <1>8, <1>9, <1>10, <1>11, <1>12, <1>13, <1>14,
     <1>15, <1>16, <1>17, <1>18, <1>19, <1>20, <1>21, Zenon DEF AgentStep

(* The agent is left alone.                                                *)
LEMMA Untouched ==
  ASSUME StorageInv, UNCHANGED T!client, UNCHANGED <<job, claims>>,
  DOMAIN registry' = T!Outputs \/ UNCHANGED registry
  PROVE  /\ DOMAIN registry' = T!Outputs
         /\ (UNCHANGED requests => TurnTyped' /\ Requests') /\ TurnTyped'
  BY DEF StorageInv, TurnTyped, Requests, T!client

(* Storage changes while no request has the mutex.                         *)
LEMMA KeptStorage ==
  ASSUME StorageInv, UNCHANGED T!client, UNCHANGED <<job, claims, requests>>, ~T!Locked,
         DOMAIN registry' = T!Outputs, session' # "open" => session # "open",
         discarded \subseteq discarded',
         \A o \in T!Outputs \ discarded' : registry'[o] = "ready" => o \in stored'
  PROVE  StorageInv'
<1>1. TurnTyped' /\ Requests'
  BY Untouched
<1>2. LockHeld'
  BY DEF T!Locked, LockHeld, LockedStages
<1> QED
  BY <1>1, <1>2 DEF StorageInv, DiscardedWithSession, T!ReadyIsStored, T!Outputs

(* A request takes the mutex, holds it, or goes on without.                *)
LEMMA StageUnlocked ==
  ASSUME StorageInv, NEW r \in requests, NEW s, s \notin LockedStages, T!AtStage(r, s),
  UNCHANGED <<registry, stored>>
  PROVE  LockHeld'
<1>1. [r EXCEPT !.stage = s].stage = s
  BY RequestShapes DEF StorageInv, Requests
<1> QED
  BY <1>1 DEF StorageInv, LockHeld, LockedStages, T!AtStage

(* A request takes the mutex for an output that is not ready.              *)
LEMMA StageTaken ==
  ASSUME StorageInv, NEW r \in requests, T!AtStage(r, "checked"), ~T!Locked,
  registry[r.event.output] # "ready",
         UNCHANGED <<registry, stored>>
  PROVE  LockHeld'
<1>1. [r EXCEPT !.stage = "checked"].stage = "checked" /\ [r EXCEPT !.stage = "checked"].event = r.event
  BY RequestShapes DEF StorageInv, Requests
<1> QED
  BY <1>1 DEF LockHeld, LockedStages, T!AtStage, T!Locked

(* The request that has the mutex goes on.                                 *)
LEMMA StageMoves ==
  ASSUME StorageInv, NEW r \in requests, r.stage \in LockedStages, NEW s, T!AtStage(r, s),
  UNCHANGED registry,
         stored \subseteq stored', s = "moved" => r.event.output \in stored'
  PROVE  LockHeld'
<1> DEFINE q == [r EXCEPT !.stage = s]
<1>1. q.stage = s /\ q.event = r.event /\ requests' = (requests \ { r }) \cup { q }
  BY RequestShapes DEF StorageInv, Requests, T!AtStage
<1> HIDE DEF q
<1>2. \A p \in requests \ { r } : p.stage \notin LockedStages
  BY DEF StorageInv, LockHeld
<1>3. registry[r.event.output] # "ready"
  BY DEF StorageInv, LockHeld
<1> QED
  BY <1>1, <1>2, <1>3 DEF LockHeld, LockedStages

(* ... through an answer that reaches the agent, or nobody ...             *)
LEMMA AnswerTyped ==
  ASSUME StorageInv, NEW r \in requests, NEW a, T!Answer(r, a), DOMAIN registry' = T!Outputs,
  UNCHANGED <<job, claims>>
  PROVE  TurnTyped' /\ Requests' /\ (UNCHANGED <<registry, stored>> => LockHeld')
<1>1. requests' = requests \ { r }
  BY DEF T!Answer
<1>2. TurnTyped'
  <2>1. CASE r.live /\ T!Returned(r, a)
    BY <2>1, ReturnTyped
  <2>2. CASE UNCHANGED T!client
    BY <2>2, Untouched
  <2> QED
    BY <2>1, <2>2 DEF T!Answer
<1>3. r.live \/ UNCHANGED <<pc, out>>
  BY DEF T!Answer, T!client
<1> QED
  BY <1>1, <1>2, <1>3, Answered

(* A reconciliation keeps what a manifest calls ready.                     *)
LEMMA ReconciledKept ==
  ASSUME NEW aged, T!ReadyIsStored
  PROVE  /\ DOMAIN T!Reconciled(aged) = T!Outputs
         /\ \A o \in T!Outputs \ discarded : T!Reconciled(aged)[o] = "ready" => o \in T!Kept(aged)
  BY DEF T!ReadyIsStored, T!Reconciled, T!Kept, T!getLocked

(* ... and through those of the control plane.                             *)
LEMMA PlaneStorage ==
  ASSUME StorageInv, NEW r, NEW o, NEW aged, PlaneStep(r, o, aged)
  PROVE  StorageInv'
<1> USE DEF StorageInv
<1>1. CASE r \in requests /\ T!AppendChatEvent(r)
  <2>1. UNCHANGED <<job, claims, registry, stored, discarded, session>> /\ r.stage = "new" /\ r.event.status # "upload"
    BY <1>1 DEF T!AppendChatEvent, T!storage, T!IsUpload
  <2>2. CASE \E a : T!Answer(r, a)
    BY <1>1, <2>1, <2>2, AnswerTyped, SameStorage DEF TurnTyped
  <2>3. CASE r.event.type = "artifact" /\ T!AtStage(r, "record") /\ UNCHANGED T!client
    BY <1>1, <2>1, <2>3, Untouched, GoesOn, StageUnlocked, SameStorage DEF T!client, LockedStages
  <2> QED
    BY <1>1, <2>2, <2>3 DEF T!AppendChatEvent
<1>2. CASE r \in requests /\ T!Record(r)
  <2> DEFINE n == r.event.output
  <2>1. /\ UNCHANGED <<job, claims, stored, discarded, session>> /\ r.stage = "record" /\ T!Answer(r, "ok") /\ ~T!Locked
        /\ registry' = [registry EXCEPT ![n] = T!Recorded(T!getLocked(n), r.event.status)]
    BY <1>2 DEF T!Record
  <2>2. r.event.type = "artifact" /\ n \in T!Outputs
    BY <1>2, <2>1 DEF Requests, RequestTyped, EventTyped
  <2>3. DOMAIN registry' = T!Outputs /\ DOMAIN registry = T!Outputs
    BY <2>1 DEF TurnTyped
  <2>4. registry'[n] = "ready" => registry[n] = "ready" /\ n \in stored
    BY <2>1, <2>2, <2>3 DEF T!Recorded, T!getLocked
  <2>5. TurnTyped' /\ Requests'
    BY <1>2, <2>1, <2>3, AnswerTyped
  <2>6. LockHeld'
    BY <2>1 DEF T!Answer, T!Locked, LockHeld, LockedStages
  <2>7. T!ReadyIsStored'
    BY <2>1, <2>2, <2>3, <2>4 DEF T!ReadyIsStored, T!Outputs
  <2> QED
    BY <2>1, <2>5, <2>6, <2>7 DEF DiscardedWithSession, T!Outputs
<1>3. CASE r \in requests /\ T!PutBegin(r)
  <2>1. UNCHANGED <<job, claims, registry, stored, discarded, session>> /\ r.stage = "new" /\ r.event.status = "upload" /\ ~T!Locked
    BY <1>3 DEF T!PutBegin, T!storage, T!IsUpload
  <2>2. CASE \E a : T!Answer(r, a)
    BY <1>3, <2>1, <2>2, AnswerTyped, SameStorage DEF TurnTyped
  <2>3. CASE T!getLocked(r.event.output) \in { "none", "preparing" } /\ T!AtStage(r, "checked") /\ UNCHANGED T!client
    <3>1. registry[r.event.output] # "ready"
      BY <2>3 DEF T!getLocked
    <3>2. LockHeld'
      BY <1>3, <2>1, <2>3, <3>1, StageTaken
    <3> QED
      BY <1>3, <2>1, <2>3, <3>2, Untouched, GoesOn, SameStorage DEF T!client, LockedStages
  <2> QED
    BY <1>3, <2>2, <2>3 DEF T!PutBegin
<1>4. CASE r \in requests /\ T!PutVerify(r)
  <2>1. UNCHANGED <<job, claims, registry, stored, discarded, session>> /\ r.stage = "checked"
    BY <1>4 DEF T!PutVerify, T!storage
  <2>2. CASE \E a : T!Answer(r, a)
    BY <1>4, <2>1, <2>2, AnswerTyped, SameStorage DEF TurnTyped
  <2>3. CASE T!AtStage(r, "verified") /\ UNCHANGED T!client
    <3>1. LockHeld'
      BY <1>4, <2>1, <2>3, StageMoves DEF LockedStages
    <3>2. r.event.status = "upload"
      BY <1>4, <2>1 DEF Requests, RequestTyped, LockedStages
    <3> QED
      BY <1>4, <2>1, <2>3, <3>1, <3>2, Untouched, GoesOn, SameStorage DEF T!client, LockedStages
  <2> QED
    BY <1>4, <2>2, <2>3 DEF T!PutVerify
<1>5. CASE r \in requests /\ T!PutMove(r)
  <2>1. /\ UNCHANGED <<job, claims, registry, discarded, session>> /\ r.stage = "verified" /\ UNCHANGED T!client
        /\ T!AtStage(r, "moved") /\ stored' = stored \cup { r.event.output }
    BY <1>5 DEF T!PutMove
  <2>2. LockHeld'
    BY <1>5, <2>1, StageMoves DEF LockedStages
  <2>3. r.event.status = "upload"
    BY <1>5, <2>1 DEF Requests, RequestTyped, LockedStages
  <2>4. TurnTyped' /\ Requests'
    BY <1>5, <2>1, <2>3, Untouched, GoesOn DEF T!client, LockedStages
  <2> QED
    BY <2>1, <2>2, <2>4 DEF T!ReadyIsStored, DiscardedWithSession, T!Outputs
<1>6. CASE r \in requests /\ T!PutFinish(r)
  <2> DEFINE n == r.event.output
  <2>1. /\ UNCHANGED <<job, claims, stored, discarded, session>> /\ r.stage = "moved" /\ T!Answer(r, "ok")
        /\ registry' = [registry EXCEPT ![n] = "ready"]
    BY <1>6 DEF T!PutFinish
  <2>2. n \in stored /\ \A q \in requests \ { r } : q.stage \notin LockedStages
    BY <1>6, <2>1 DEF LockHeld, LockedStages
  <2>3. DOMAIN registry' = T!Outputs /\ DOMAIN registry = T!Outputs
    BY <2>1 DEF TurnTyped
  <2>4. TurnTyped' /\ Requests'
    BY <1>6, <2>1, <2>3, AnswerTyped
  <2>5. LockHeld'
    BY <2>1, <2>2 DEF T!Answer, LockHeld, LockedStages
  <2>6. T!ReadyIsStored'
    BY <2>1, <2>2, <2>3 DEF T!ReadyIsStored, T!Outputs
  <2> QED
    BY <2>1, <2>4, <2>5, <2>6 DEF DiscardedWithSession, T!Outputs
<1>7. CASE r \in requests /\ T!HandlerFails(r)
  <2>1. /\ UNCHANGED <<job, claims, registry, discarded, session>> /\ UNCHANGED T!client
        /\ requests' = (requests \ { r }) \cup (IF r.live /\ ~cancelled THEN { T!New(r.event) } ELSE {})
        /\ stored' = IF r.stage = "moved" THEN stored \ { r.event.output } ELSE stored
    BY <1>7 DEF T!HandlerFails
  <2>2. /\ RequestTyped(T!New(r.event)) /\ T!New(r.event).event = r.event
        /\ T!New(r.event).stage = "new" /\ T!New(r.event).live
    BY <1>7, RequestShapes DEF Requests, RequestTyped
  <2>3. TurnTyped'
    BY <2>1, Untouched
  <2>4. Requests'
    BY <1>7, <2>1, <2>2 DEF Requests, T!client
  <2>5. LockHeld'
    BY <1>7, <2>1, <2>2 DEF LockHeld, LockedStages
  <2>6. T!ReadyIsStored'
    BY <1>7, <2>1 DEF T!ReadyIsStored, T!Outputs, LockHeld, LockedStages
  <2> QED
    BY <2>1, <2>3, <2>4, <2>5, <2>6 DEF DiscardedWithSession, T!Outputs
<1>8. CASE r \in requests /\ T!Resend(r)
  <2> DEFINE d == [r EXCEPT !.live = FALSE]
  <2>1. /\ UNCHANGED <<job, claims, registry, stored, discarded, session>> /\ UNCHANGED T!client
        /\ requests' = { d, T!New(r.event) } /\ r.live
    BY <1>8 DEF T!Resend, T!storage
  <2>2. /\ RequestTyped(T!New(r.event)) /\ T!New(r.event).event = r.event
        /\ T!New(r.event).stage = "new" /\ T!New(r.event).live
        /\ RequestTyped(d) /\ d.event = r.event /\ d.stage = r.stage /\ ~d.live
    BY <1>8, RequestShapes DEF Requests, RequestTyped
  <2> HIDE DEF d
  <2>3. TurnTyped'
    BY <2>1, Untouched
  <2>4. Requests'
    BY <1>8, <2>1, <2>2 DEF Requests, T!client
  <2>5. LockHeld'
    BY <1>8, <2>1, <2>2 DEF LockHeld, LockedStages
  <2> QED
    BY <2>1, <2>3, <2>4, <2>5, SameStorage
<1>9. CASE T!Reconcile(aged)
  <2>1. /\ UNCHANGED <<job, claims, discarded, session, requests>> /\ UNCHANGED T!client /\ ~T!Locked
        /\ registry' = T!Reconciled(aged) /\ stored' = T!Kept(aged)
    BY <1>9 DEF T!Reconcile
  <2> QED
    BY <2>1, ReconciledKept, KeptStorage
<1>10. CASE T!RestartControlPlane(aged)
  <2>1. /\ UNCHANGED <<job, claims, discarded>> /\ UNCHANGED T!client /\ registry' = T!Reconciled(aged) /\ stored' = T!Kept(aged)
        /\ session' # "open" => session # "open"
        /\ requests' = { T!New(q.event) : q \in { p \in requests : p.live } }
    BY <1>10 DEF T!RestartControlPlane
  <2>2. \A q \in requests' : \E p \in requests :
           p.live /\ q = T!New(p.event) /\ RequestTyped(q) /\ q.event = p.event /\ q.stage = "new"
    BY <2>1, RequestShapes DEF Requests, RequestTyped
  <2>3. TurnTyped' /\ T!ReadyIsStored'
    BY <2>1, ReconciledKept, Untouched DEF T!ReadyIsStored, T!Outputs
  <2>4. Requests'
    BY <2>1, <2>2 DEF Requests, T!client
  <2>5. LockHeld'
    BY <2>2 DEF LockHeld, LockedStages
  <2> QED
    BY <2>1, <2>3, <2>4, <2>5 DEF DiscardedWithSession, T!Outputs
<1>11. CASE o \in T!Outputs /\ T!DeleteArtifact(o, aged)
  <2>1. /\ UNCHANGED <<job, claims, session, requests>> /\ UNCHANGED T!client /\ ~T!Locked
        /\ discarded' = discarded \cup { o } /\ stored' = T!Kept(aged) \ { o }
        /\ registry' \in { T!Reconciled(aged), [T!Reconciled(aged) EXCEPT ![o] = "deleted"] }
    BY <1>11 DEF T!DeleteArtifact
  <2> QED
    BY <1>11, <2>1, ReconciledKept, KeptStorage
<1>12. CASE T!DeleteChatSession
  <2>1. /\ UNCHANGED <<claims, registry, stored, requests>> /\ UNCHANGED T!client /\ job' = "deleted"
        /\ session' = "deleting" /\ discarded' = T!Outputs
    BY <1>12 DEF T!DeleteChatSession
  <2>2. TurnTyped' /\ Requests' /\ LockHeld'
    BY <2>1 DEF TurnTyped, Requests, LockHeld, T!client
  <2> QED
    BY <2>1, <2>2 DEF DiscardedWithSession, T!ReadyIsStored, T!Outputs
<1>13. CASE T!DeleteSession
  <2>1. /\ UNCHANGED <<job, claims, discarded, requests>> /\ UNCHANGED T!client /\ ~T!Locked
        /\ session = "deleting" /\ session' = "deleted"
        /\ \E left : registry' = [i \in T!Outputs |-> IF i \in left THEN registry[i] ELSE "none"]
    BY <1>13 DEF T!DeleteSession
  <2>2. T!Outputs \ discarded' = {}
    BY <2>1 DEF DiscardedWithSession
  <2>3. DOMAIN registry' = T!Outputs
    BY <2>1
  <2>4. discarded \subseteq discarded' /\ session # "open"
    BY <2>1
  <2> QED
    BY <2>1, <2>2, <2>3, <2>4, KeptStorage
<1> QED
  BY <1>1, <1>2, <1>3, <1>4, <1>5, <1>6, <1>7, <1>8, <1>9, <1>10, <1>11, <1>12, <1>13 DEF PlaneStep

(* The turn: what was said stays sayable as the agent goes on.             *)
Forward ==
    \/ UNCHANGED <<stream, outputs>> /\ out <= out'
    \/ out = 0 /\ stream.flushed <= stream'.flushed /\ stream.sequence <= stream'.sequence
    \/ UNCHANGED <<stream, out>> /\ outputs[out] = "staged" /\ \E s : outputs' = [outputs EXCEPT ![out] = s]

(* What could be said can still be said.                                   *)
LEMMA SayableStays ==
  ASSUME NEW e, Sayable(e), TurnTyped, TurnTyped', Forward
  PROVE  Sayable(e)'
<1>1. CASE UNCHANGED <<stream, outputs>> /\ out <= out'
  BY <1>1 DEF Sayable, Piece, Final, T!ArtifactEvent, Outcomes, TurnTyped
<1>2. CASE out = 0 /\ stream.flushed <= stream'.flushed /\ stream.sequence <= stream'.sequence
  <2>1. Piece(e) => Piece(e)'
    <3>1. /\ stream.flushed \in Nat /\ stream'.flushed \in Nat /\ stream.sequence \in Nat /\ stream'.sequence \in Nat
          /\ stream.flushed <= stream'.flushed /\ stream.sequence <= stream'.sequence
      BY <1>2 DEF TurnTyped
    <3>2. \A k \in 1 .. stream.flushed : k \in 1 .. stream'.flushed
      BY <3>1
    <3>3. \A k \in Nat : k <= stream.sequence => k <= stream'.sequence
      BY <3>1
    <3> QED
      BY <3>2, <3>3 DEF Piece
  <2>2. e.type # "artifact" /\ e.output = 0 /\ (e.type = "delta" => Piece(e))
    BY <1>2 DEF Sayable
  <2> QED
    BY <2>1, <2>2 DEF Sayable
<1>3. CASE UNCHANGED <<stream, out>> /\ outputs[out] = "staged" /\ \E s : outputs' = [outputs EXCEPT ![out] = s]
  <2>1. Piece(e) => Piece(e)'
    BY <1>3 DEF Piece
  <2>2. \A o \in 1 .. Len(outputs) : o # out => outputs'[o] = outputs[o]
    BY <1>3 DEF TurnTyped
  <2>3. e.output \in 1 .. out /\ outputs[e.output] \in Outcomes => e.output \in 1 .. Len(outputs) /\ e.output # out
    BY <1>3 DEF TurnTyped, Outcomes
  <2> QED
    BY <1>3, <2>1, <2>2, <2>3 DEF Sayable, Final, T!ArtifactEvent, Outcomes
<1> QED
  BY <1>1, <1>2, <1>3 DEF Forward

(* Nothing new is said.                                                    *)
LEMMA SaidStays ==
  ASSUME TurnTyped, TurnTyped', SaidWell, Forward, \A e \in Said' : e \in Said,
         \A r \in requests' : r.stage = "record" => r.event \in events',
         \A e \in events' : e.status # "upload"
  PROVE  SaidWell'
<1>1. \A e \in Said' : Sayable(e)'
  BY SayableStays DEF SaidWell
<1> QED
  BY <1>1 DEF SaidWell, T!Precedes

(* One new request is made, behind all text said so far.                   *)
LEMMA SaidGrows ==
  ASSUME TurnTyped, TurnTyped', SaidWell, Forward, NEW n, EventTyped(n),
  requests' = requests \cup { T!New(n) },
         UNCHANGED events, Sayable(n)',
         n.type = "delta" => \A d \in Said : d.type = "delta" => T!Precedes(d, n)
  PROVE  SaidWell'
<1>1. T!New(n).event = n /\ T!New(n).stage = "new"
  BY RequestShapes
<1>2. Said' = Said \cup { n }
  BY <1>1 DEF Said
<1>3. \A e \in Said' : Sayable(e)'
  BY <1>2, SayableStays DEF SaidWell
<1>4. \A d, e \in Said' : d.type = "delta" /\ e.type = "delta" => d = e \/ T!Precedes(d, e) \/ T!Precedes(e, d)
  BY <1>2 DEF SaidWell
<1>5. /\ \A r \in requests' : r.stage = "record" => r.event \in events'
      /\ \A e \in events' : e.status # "upload"
  BY <1>1 DEF SaidWell
<1> QED
  BY <1>3, <1>4, <1>5 DEF SaidWell, T!Precedes

(* The registry does not forget what it called ready.                      *)
RegistryKept ==
    \A o \in T!Outputs :
        /\ registry[o] \in { "ready", "expired" } => registry'[o] \in { "ready", "expired" } \/ o \in discarded'
        /\ registry'[o] = "expired" => registry[o] = "expired" \/ (job = "done" /\ requests = {})

(* An output called ready stays stored, or was deleted.                    *)
LEMMA ReadyStays ==
  ASSUME TurnTyped, ReadyWasStored, UNCHANGED <<outputs, job>>, discarded \subseteq discarded',
         requests = {} => requests' = {}, RegistryKept
  PROVE  ReadyWasStored'
<1>1. \A o \in 1 .. Len(outputs) : o \in T!Outputs
  BY BoundsAssumption DEF TurnTyped, T!Outputs
<1>2. \A o \in 1 .. Len(outputs) : outputs[o] = "ready" => registry'[o] \in { "ready", "expired" } \/ o \in discarded'
  BY <1>1 DEF ReadyWasStored, RegistryKept
<1>3. \A o \in T!Outputs : registry'[o] = "expired" => job = "done" /\ requests' = {}
  BY DEF ReadyWasStored, RegistryKept
<1> QED
  BY <1>2, <1>3 DEF ReadyWasStored, T!Outputs

(* The control plane goes on, and the agent hears nothing of it.           *)
LEMMA Served ==
  ASSUME ChatInv, StorageInv', Open', UNCHANGED T!client, UNCHANGED <<job, cancelled, claims>>,
         events \subseteq events', \A e \in events' : e \in Said /\ e.status # "upload",
         \A q \in requests' : /\ \E p \in requests : q.event = p.event /\ (q.live => p.live)
                              /\ q.stage = "record" => q.event \in events',
         \A p \in requests : p.live => \E q \in requests' : q.live /\ q.event = p.event,
         discarded \subseteq discarded',
         RegistryKept
  PROVE  TurnInv'
<1>1. Open /\ NotBegun /\ Placed /\ SaidWell /\ ChunksSaid /\ OutcomesSaid /\ ReadyWasStored /\ StorageInv
  BY DEF ChatInv, TurnInv, Open, T!client
<1>2. \A e \in Said' : e \in Said
  BY DEF Said
<1>3. Forward
  BY <1>1 DEF Forward, T!client, StorageInv, TurnTyped
<1>4. SaidWell'
  BY <1>1, <1>2, <1>3, SaidStays DEF StorageInv
<1>5. NotBegun'
  BY <1>1 DEF NotBegun, T!client, Said
<1>6. Placed'
  BY <1>1 DEF Placed, T!client, Outcomes
<1>7. ChunksSaid' /\ OutcomesSaid'
  <2>1. ChunksSaid'
    BY <1>1 DEF ChunksSaid, T!client, Holds
  <2>2. OutcomesSaid'
    BY <1>1 DEF OutcomesSaid, T!client, Final, T!ArtifactEvent, Outcomes
  <2> QED
    BY <2>1, <2>2
<1>8. ReadyWasStored'
  <2>1. requests = {} => requests' = {}
    OBVIOUS
  <2> QED
    BY <1>1, <2>1, ReadyStays DEF StorageInv, T!client
<1> QED
  BY <1>4, <1>5, <1>6, <1>7, <1>8 DEF TurnInv

(* The outcome of the output the agent is at.                              *)
LEMMA OutcomeKnown ==
  ASSUME TurnTyped, TurnTyped', NotBegun, Placed, ChunksSaid, OutcomesSaid, ReadyWasStored,
  NEW s \in Outcomes,
         out \in 1 .. Len(outputs), outputs[out] = "staged", outputs' = [outputs EXCEPT ![out] = s],
         pc = "call", pc' = "final", UNCHANGED <<stream, out, job, discarded>>, events \subseteq events',
         \A q \in requests : q.live => q.event.type # "delta",
         \A q \in requests' : ~q.live, requests = {} => requests' = {},
         s = "ready" => registry'[out] = "ready",
         RegistryKept
  PROVE  NotBegun' /\ Placed' /\ ChunksSaid' /\ OutcomesSaid' /\ ReadyWasStored' /\ Forward
<1>1. Len(outputs') = Len(outputs) /\ outputs'[out] = s /\ \A o \in 1 .. Len(outputs) : o # out => outputs'[o] = outputs[o]
  BY DEF TurnTyped
<1>2. NotBegun' /\ Forward
  BY DEF NotBegun, Forward
<1>3. Placed'
  BY <1>1 DEF Placed, TurnTyped, Outcomes
<1>4. ChunksSaid'
  BY DEF ChunksSaid, Holds
<1>5. OutcomesSaid'
  <2>1. \A o \in 1 .. out : o \in 1 .. Len(outputs)
    BY DEF TurnTyped
  <2>2. job # "done"
    BY DEF Placed
  <2> QED
    BY <1>1, <2>1, <2>2 DEF OutcomesSaid, Final, T!ArtifactEvent, Outcomes
<1>6. ReadyWasStored'
  <2>1. \A o \in 1 .. Len(outputs) : o \in T!Outputs
    BY BoundsAssumption DEF TurnTyped, T!Outputs
  <2>2. \A o \in 1 .. Len(outputs) : outputs'[o] = "ready" => registry'[o] \in { "ready", "expired" } \/ o \in discarded'
    BY <1>1, <2>1 DEF ReadyWasStored, RegistryKept
  <2>3. \A o \in T!Outputs : registry'[o] = "expired" => job = "done" /\ requests' = {}
    BY DEF ReadyWasStored, RegistryKept
  <2> QED
    BY <1>1, <2>2, <2>3 DEF ReadyWasStored, T!Outputs
<1> QED
  BY <1>2, <1>3, <1>4, <1>5, <1>6

(* An answer reaches the agent.                                            *)
LEMMA Heard ==
  ASSUME ChatInv, StorageInv', Open', NEW r \in requests, NEW a, r.live,
  requests' = requests \ { r }, T!Returned(r, a),
         UNCHANGED <<job, cancelled, claims, discarded>>,
         events' \in { events, events \cup { r.event } }, r.event.status # "upload" /\ a = "ok" => r.event \in events',
         r.event.status = "upload" => events' = events,
         r.event.status = "upload" /\ a = "ok" => registry'[r.event.output] = "ready",
         RegistryKept
  PROVE  TurnInv'
<1>1. r.event.output = out /\ RequestTyped(r) /\ EventTyped(r.event) /\ pc = "call" /\ (\A q \in requests : q.live => q = r) /\ TurnTyped /\ TurnTyped'
  BY DEF ChatInv, StorageInv, Requests, RequestTyped
<1>2. Open /\ NotBegun /\ Placed /\ SaidWell /\ ChunksSaid /\ OutcomesSaid /\ ReadyWasStored
  BY <1>1 DEF ChatInv, TurnInv, Open, StorageInv, TurnTyped
<1>3. \A e \in Said' : e \in Said
  BY DEF Said
<1>4. ASSUME Forward
      PROVE  SaidWell'
  BY <1>1, <1>2, <1>3, <1>4, SaidStays DEF SaidWell
<1>5. job = "active" /\ ~cancelled /\ pc' # "idle" /\ (pc' = "report" => result' # "failed")
  BY <1>1, <1>2, SMTT(30) DEF Open, Placed, StorageInv, TurnTyped
<1>6. NotBegun' /\ Placed' /\ ChunksSaid' /\ OutcomesSaid' /\ ReadyWasStored' /\ Forward
  <2>1. CASE a = "ok" /\ r.event.type # "artifact"
    <3>1. pc' = "stream" /\ UNCHANGED <<stream, outputs, out, result>> /\ out = 0 /\ r.event.status # "upload"
      BY <1>1, <2>1 DEF T!Returned, EventTyped, T!IsUpload
    <3> QED
      <4>1. NotBegun' /\ Placed' /\ Forward
        BY <1>1, <1>2, <1>5, <2>1, <3>1 DEF NotBegun, Placed, Forward, TurnTyped, Outcomes
      <4>2. ChunksSaid'
        BY <1>1, <1>2, <2>1, <3>1 DEF ChunksSaid, Holds
      <4>3. OutcomesSaid'
        BY <1>1, <1>2, <1>5, <2>1, <3>1 DEF OutcomesSaid, Final, T!ArtifactEvent, Outcomes, TurnTyped
      <4>4. ReadyWasStored'
        BY <1>1, <1>2, <2>1, <3>1, ReadyStays
      <4> QED
        BY <4>1, <4>2, <4>3, <4>4
  <2>2. CASE a = "ok" /\ r.event.status = "preparing"
    <3>1. pc' = "upload" /\ UNCHANGED <<stream, outputs, out, result>> /\ out > 0 /\ outputs[out] = "staged" /\ r.event.type = "artifact"
      BY <1>1, <1>2, <2>2, SMTT(30) DEF T!Returned, EventTyped, T!IsUpload, Placed, T!Outputs
    <3> QED
      <4>1. NotBegun' /\ Placed' /\ Forward
        BY <1>1, <1>2, <1>5, <2>2, <3>1 DEF NotBegun, Placed, Forward, TurnTyped, Outcomes
      <4>2. ChunksSaid'
        BY <1>1, <1>2, <2>2, <3>1 DEF ChunksSaid, Holds
      <4>3. OutcomesSaid'
        BY <1>1, <1>2, <1>5, <2>2, <3>1 DEF OutcomesSaid, Final, T!ArtifactEvent, Outcomes, TurnTyped
      <4>4. ReadyWasStored'
        BY <1>1, <1>2, <2>2, <3>1, ReadyStays
      <4> QED
        BY <4>1, <4>2, <4>3, <4>4
  <2>3. CASE a \in { "ok", "rejected" } /\ r.event.status = "upload"
    <3>1. /\ pc' = "final" /\ outputs' = [outputs EXCEPT ![out] = IF a = "ok" THEN "ready" ELSE "rejected"]
          /\ UNCHANGED <<stream, out, result>> /\ out \in 1 .. Len(outputs) /\ outputs[out] = "staged" /\ r.event.type = "artifact"
      BY <1>1, <1>2, <2>3, SMTT(30) DEF T!Returned, T!Outcome, EventTyped, T!IsUpload, Placed,
         T!Outputs, TurnTyped
    <3> DEFINE s == IF a = "ok" THEN "ready" ELSE "rejected"
    <3>2. s \in Outcomes /\ (s = "ready" => registry'[out] = "ready")
      BY <1>1, <2>3 DEF Outcomes
    <3>3. outputs' = [outputs EXCEPT ![out] = s] /\ events \subseteq events'
      BY <3>1
    <3>4. (\A q \in requests' : ~q.live) /\ \A q \in requests : q.live => q.event.type # "delta"
      BY <1>1, <3>1
    <3> HIDE DEF s
    <3> QED
      BY <1>1, <1>2, <3>1, <3>2, <3>3, <3>4, OutcomeKnown
  <2>4. CASE a = "ok" /\ r.event.type = "artifact" /\ r.event.status \notin { "preparing", "upload" }
    <3>1. pc' = "outputs" /\ UNCHANGED <<stream, outputs, out, result>> /\ out > 0
      BY <1>1, <2>4, SMTT(30) DEF T!Returned, EventTyped, T!IsUpload, T!Outputs
    <3>2. outputs[out] \in Outcomes /\ r.event = Final(out)
      BY <1>1, <1>2, <2>4 DEF SaidWell, Said, Sayable
    <3> QED
      <4>1. NotBegun' /\ Placed' /\ Forward
        BY <1>1, <1>2, <1>5, <2>4, <3>1, <3>2 DEF NotBegun, Placed, Forward, TurnTyped, Outcomes
      <4>2. ChunksSaid'
        BY <1>1, <1>2, <2>4, <3>1, <3>2 DEF ChunksSaid, Holds
      <4>3. OutcomesSaid'
        <5>1. \A o \in 1 .. out' : o \in 1 .. out /\ (o < out \/ o = out)
          BY <1>1, <3>1 DEF TurnTyped
        <5>2. Final(out) \in events'
          BY <2>4, <3>2
        <5>3. \A o \in 1 .. out : o < out => Final(o) \in events' /\ outputs[o] \in Outcomes
          BY <1>2 DEF OutcomesSaid
        <5>4. \A o \in 1 .. out : Final(o) \in events' /\ outputs[o] \in Outcomes
          BY <3>1, <3>2, <5>1, <5>2, <5>3
        <5> QED
          BY <3>1, <5>4 DEF OutcomesSaid, Final, T!ArtifactEvent, Outcomes
      <4>4. ReadyWasStored'
        BY <1>1, <1>2, <2>4, <3>1, <3>2, ReadyStays
      <4> QED
        BY <4>1, <4>2, <4>3, <4>4
  <2> QED
    BY <1>5, <2>1, <2>2, <2>3, <2>4, SMTT(30) DEF T!Returned, T!IsUpload, T!Fail, T!Leave
<1> QED
  BY <1>4, <1>6 DEF TurnInv

(* The agent goes on and says nothing, or says something new.              *)
LEMMA QuietTurn ==
  ASSUME ChatInv, StorageInv', Open, pc # "call", UNCHANGED <<requests, events, registry,
  discarded, job>>,
         Forward, stream'.flushed = stream.flushed, NotBegun', Placed', OutcomesSaid',
         outputs' = outputs \/ \A o \in 1 .. Len(outputs') : outputs'[o] # "ready"
  PROVE  TurnInv'
<1>1. TurnTyped /\ TurnTyped' /\ SaidWell /\ ChunksSaid /\ ReadyWasStored
  BY DEF ChatInv, StorageInv, TurnInv
<1>2. Said' = Said
  BY DEF Said
<1>3. SaidWell'
  BY <1>1, <1>2, SaidStays DEF SaidWell
<1>4. ChunksSaid'
  BY <1>1 DEF ChunksSaid, Holds
<1>5. ReadyWasStored'
  BY <1>1 DEF ReadyWasStored, T!Outputs
<1> QED
  BY <1>3, <1>4, <1>5 DEF TurnInv

(* A turn that says something new.                                         *)
LEMMA CallTurn ==
  ASSUME ChatInv, StorageInv', Open, pc # "call", NEW n, EventTyped(n), T!Call(n),
         UNCHANGED <<events, outputs, job, registry, discarded>>, Forward, Sayable(n)',
         n.type = "delta" => \A d \in Said : d.type = "delta" => T!Precedes(d, n),
         \A c \in 1 .. stream'.flushed : c \in 1 .. stream.flushed \/ Holds(n, c),
         Placed', OutcomesSaid'
  PROVE  TurnInv'
<1>1. TurnTyped /\ TurnTyped' /\ SaidWell /\ ChunksSaid /\ ReadyWasStored /\ job # "done"
  <2>1. TurnTyped /\ TurnTyped' /\ SaidWell /\ ChunksSaid /\ ReadyWasStored /\ Placed
    BY DEF ChatInv, StorageInv, TurnInv
  <2>2. pc' # "idle"
    BY DEF T!Call
  <2> QED
    BY <2>1, <2>2 DEF Placed
<1>2. requests' = requests \cup { T!New(n) } /\ pc' = "call" /\ T!New(n).live /\ T!New(n).event = n
  BY RequestShapes DEF T!Call
<1>3. SaidWell'
  BY <1>1, <1>2, SaidGrows
<1>4. ChunksSaid'
  <2>1. \A c \in 1 .. stream.flushed : \E e \in events' : Holds(e, c)
    BY <1>1 DEF ChunksSaid
  <2> QED
    BY <1>2, <2>1 DEF ChunksSaid, Holds
<1>5. ReadyWasStored'
  <2>1. \A o \in T!Outputs : registry[o] # "expired"
    BY <1>1 DEF ReadyWasStored
  <2> QED
    BY <1>1, <2>1 DEF ReadyWasStored, T!Outputs
<1>6. NotBegun'
  BY <1>2 DEF NotBegun
<1> QED
  BY <1>3, <1>4, <1>5, <1>6 DEF TurnInv

(* The chunks a report carries, from one after the last reported.          *)
Chunks(a, b) == [i \in 1 .. b - a |-> a + i]

(* They are consecutive, and all that were missing.                        *)
LEMMA PieceText ==
  ASSUME NEW a \in Nat, NEW b \in Nat, a < b
  PROVE  /\ Chunks(a, b) \in Seq(Nat)
         /\ \A i \in 1 .. Len(Chunks(a, b)) :
               Chunks(a, b)[i] \in 1 .. b /\ Chunks(a, b)[i] = Chunks(a, b)[1] + i - 1 /\ Chunks(a, b)[i] > a
         /\ \A c \in 1 .. b : c > a => \E i \in 1 .. Len(Chunks(a, b)) : Chunks(a, b)[i] = c
<1>1. Chunks(a, b) \in Seq(Nat) /\ Len(Chunks(a, b)) = b - a /\ 1 \in 1 .. b - a
  BY DEF Chunks
<1>2. \A i \in 1 .. b - a : Chunks(a, b)[i] = a + i
  BY DEF Chunks
<1>3. Chunks(a, b)[1] = a + 1
  BY <1>1, <1>2
<1>4. \A c \in 1 .. b : c > a => c - a \in 1 .. b - a /\ Chunks(a, b)[c - a] = c
  BY <1>2
<1>5. \A i \in 1 .. b - a :
         Chunks(a, b)[i] \in 1 .. b /\ Chunks(a, b)[i] = Chunks(a, b)[1] + i - 1 /\ Chunks(a, b)[i] > a
  BY <1>2, <1>3
<1> QED
  BY <1>1, <1>4, <1>5

(* Text is reported after the text that was.                               *)
LEMMA FlushTurn ==
  ASSUME ChatInv, StorageInv', Open, pc = "stream", NEW s, DOMAIN s = { "frames", "text",
  "flushed", "sequence", "ended" },
         s.text \in Nat, s.flushed = stream.flushed, s.sequence = stream.sequence, s.flushed < s.text,
         T!Flush(s), UNCHANGED <<events, outputs, out, result, job, registry, discarded>>
  PROVE  TurnInv'
<1> DEFINE n == T!Event(s.sequence + 1, "delta", [i \in 1 .. s.text - s.flushed |-> s.flushed + i])
<1>1. TurnTyped /\ TurnTyped' /\ SaidWell /\ Placed /\ out = 0
  BY DEF ChatInv, StorageInv, TurnInv, TurnTyped
<1>2. stream.flushed \in Nat /\ stream.sequence \in Nat
  BY <1>1 DEF TurnTyped
<1>3. T!Call(n) /\ stream'.sequence = stream.sequence + 1 /\ stream'.flushed = s.text
  BY DEF T!Flush
<1>4. EventTyped(n) /\ n.sequence = stream.sequence + 1 /\ n.type = "delta" /\ n.output = 0 /\ n.status = "none"
      /\ n.text = Chunks(stream.flushed, s.text)
  BY EventShapes DEF Chunks
<1> HIDE DEF n
<1>5. /\ n.text \in Seq(Nat) /\ Len(n.text) \in Nat
      /\ \A i \in 1 .. Len(n.text) :
            n.text[i] \in 1 .. s.text /\ n.text[i] = n.text[1] + i - 1 /\ n.text[i] > stream.flushed
      /\ \A c \in 1 .. s.text : c > stream.flushed => \E i \in 1 .. Len(n.text) : n.text[i] = c
  <2> DEFINE t == Chunks(stream.flushed, s.text)
  <2>1. stream.flushed \in Nat /\ s.text \in Nat /\ stream.flushed < s.text /\ n.text = t
    BY <1>2, <1>4
  <2>2. /\ t \in Seq(Nat)
        /\ \A i \in 1 .. Len(t) : t[i] \in 1 .. s.text /\ t[i] = t[1] + i - 1 /\ t[i] > stream.flushed
        /\ \A c \in 1 .. s.text : c > stream.flushed => \E i \in 1 .. Len(t) : t[i] = c
    BY <2>1, PieceText, Zenon
  <2> HIDE DEF t
  <2>3. Len(t) \in Nat
    BY <2>2
  <2> QED
    BY <2>1, <2>2, <2>3, Zenon
<1>6. Sayable(n)'
  <2>1. n.sequence \in Nat /\ n.sequence <= stream'.sequence
    BY <1>2, <1>3, <1>4
  <2>2. Piece(n)'
    BY <1>3, <1>5, <2>1 DEF Piece
  <2> QED
    BY <1>4, <2>2 DEF Sayable
<1>7. ASSUME NEW d \in Said, d.type = "delta"
      PROVE  T!Precedes(d, n)
  <2>1. Piece(d)
    BY <1>1, <1>7 DEF SaidWell, Sayable, Final, T!ArtifactEvent
  <2>2. d.sequence < n.sequence
    BY <1>2, <1>4, <2>1 DEF Piece
  <2>3. /\ \A i \in DOMAIN d.text : d.text[i] \in 1 .. stream.flushed
        /\ \A j \in DOMAIN n.text : n.text[j] \in Nat /\ n.text[j] > stream.flushed
    <3>1. DOMAIN d.text = 1 .. Len(d.text) /\ DOMAIN n.text = 1 .. Len(n.text)
      BY <1>5, <2>1 DEF Piece
    <3>2. \A x \in 1 .. s.text : x \in Nat
      OBVIOUS
    <3> QED
      BY <1>5, <2>1, <3>1, <3>2 DEF Piece
  <2>4. \A x \in 1 .. stream.flushed, y \in Nat : y > stream.flushed => x < y
    BY <1>2
  <2> QED
    BY <2>2, <2>3, <2>4 DEF T!Precedes
<1>8. \A c \in 1 .. stream'.flushed : c \in 1 .. stream.flushed \/ Holds(n, c)
  <2>1. \A c \in 1 .. s.text : c \in 1 .. stream.flushed \/ c > stream.flushed
    BY <1>2
  <2> QED
    BY <1>3, <1>4, <1>5, <2>1 DEF Holds
<1>9. Placed' /\ OutcomesSaid' /\ Forward
  <2>1. pc' = "call" /\ out' = 0 /\ job' # "done"
    <3>1. job = "done" => pc = "idle"
      BY <1>1 DEF Placed
    <3> QED
      BY <1>1, <1>3, <3>1 DEF T!Call
  <2>2. \A r \in requests' : r.live => r.event = n
    BY <1>3, <1>4, RequestShapes DEF T!Call, ChatInv, StorageInv, Requests
  <2>3. Placed'
    BY <1>4, <2>1, <2>2 DEF Placed
  <2>4. Forward
    BY <1>1, <1>2, <1>3 DEF Forward
  <2> QED
    BY <2>1, <2>3, <2>4 DEF OutcomesSaid
<1> QED
  BY <1>3, <1>4, <1>6, <1>7, <1>8, <1>9, CallTurn

(* An event without text, before there are outputs.                        *)
LEMMA SpeaksEarly ==
  ASSUME ChatInv, StorageInv', Open, job = "active", out = 0, pc # "call", NEW n, EventTyped(n),
  T!Call(n),
         n.type \notin { "artifact", "delta" }, n.output = 0, n.status = "none",
         UNCHANGED <<events, outputs, out, job, registry, discarded>>,
         stream'.flushed = stream.flushed, stream.sequence <= stream'.sequence
  PROVE  TurnInv'
<1>1. TurnTyped /\ TurnTyped' /\ Requests
  BY DEF ChatInv, StorageInv
<1>2. pc' = "call" /\ \A r \in requests' : r.live => r.event = n
  BY <1>1, RequestShapes DEF T!Call, Requests
<1>3. Placed' /\ OutcomesSaid'
  BY <1>1, <1>2 DEF Placed, OutcomesSaid
<1>4. Forward
  BY <1>1 DEF Forward, TurnTyped
<1>5. Sayable(n)'
  BY DEF Sayable
<1> QED
  BY <1>3, <1>4, <1>5, CallTurn

(* An execution under way that may succeed could before.                   *)
LEMMA GoingOn ==
  ASSUME ChatInv, StorageInv', Open', pc # "idle", UNCHANGED <<job, cancelled, claims>>,
         pc = "report" => result # "failed"
  PROVE  /\ Open /\ job = "active" /\ ~cancelled /\ pc' # "idle" /\ (pc' = "report" => result' # "failed")
         /\ TurnTyped /\ TurnTyped' /\ Requests /\ Requests' /\ StorageInv
         /\ NotBegun /\ Placed /\ SaidWell /\ ChunksSaid /\ OutcomesSaid /\ ReadyWasStored
<1>1. TurnTyped /\ TurnTyped' /\ Requests /\ Requests' /\ StorageInv /\ (Open => Placed)
  BY DEF ChatInv, StorageInv, TurnInv
<1>2. job # "done" /\ claims # 0
  BY <1>1 DEF Open, Placed, TurnTyped
<1>3. Open /\ job = "active" /\ ~cancelled /\ pc' # "idle" /\ (pc' = "report" => result' # "failed")
  BY <1>2 DEF Open
<1> QED
  BY <1>1, <1>3 DEF ChatInv, TurnInv

(* Before the stream, and in it, no output is reported.                    *)
LEMMA EarlyTurn ==
  ASSUME ChatInv, StorageInv', Open, out = 0, pc # "call", UNCHANGED <<requests, events, outputs,
  out, registry, discarded>>,
         job = "active", job' = "active", pc' \in { "begin", "session", "lock", "open", "stream" },
         stream'.flushed = stream.flushed, stream'.sequence = stream.sequence,
         UNCHANGED stream \/ pc' = "stream",
         pc' # "stream" => pc \in { "idle", "begin", "session", "lock" }
  PROVE  TurnInv'
<1>1. TurnTyped /\ TurnTyped' /\ Requests' /\ NotBegun
  BY DEF ChatInv, StorageInv, TurnInv
<1>2. NotBegun'
  BY <1>1 DEF NotBegun
<1>3. Placed'
  BY <1>1 DEF Placed, Requests
<1>4. OutcomesSaid'
  BY DEF OutcomesSaid
<1>5. Forward
  BY <1>1 DEF Forward, TurnTyped
<1> QED
  BY <1>2, <1>3, <1>4, <1>5, QuietTurn

(* The steps of the agent.                                                 *)
LEMMA AgentTurn ==
  ASSUME ChatInv, StorageInv', NEW f, AgentStep(f)
  PROVE  TurnInv'
<1> SUFFICES ASSUME Open' PROVE TurnInv'
  BY DEF TurnInv
<1>1. CASE T!Begin \/ T!ensureHermesChatSession \/ T!lockHermesChatSessionRuntime
  <2>1. /\ pc \in { "begin", "session", "lock" }
        /\ UNCHANGED <<stream, outputs, out, requests, events, registry, discarded, cancelled, job, claims>>
        /\ \/ pc' \in { "session", "lock", "open" }
           \/ pc' = "report" /\ result' = "failed"
    BY <1>1 DEF T!Begin, T!ensureHermesChatSession, T!lockHermesChatSessionRuntime, T!Fail, T!storage
  <2>2. Open /\ job = "active" /\ pc' # "report" /\ TurnTyped
    BY <2>1, GoingOn
  <2>3. out = 0
    BY <2>1, <2>2 DEF TurnTyped
  <2> QED
    BY <2>1, <2>2, <2>3, EarlyTurn
<1>2. CASE T!Claim
  <2>1. /\ pc = "idle" /\ job = "active" /\ claims = 0 /\ pc' = "begin"
        /\ UNCHANGED <<stream, outputs, out, requests, events, registry, discarded, cancelled, job>>
    BY <1>2 DEF T!Claim, T!storage
  <2>2. Open /\ TurnTyped
    BY <2>1 DEF Open, ChatInv, StorageInv
  <2>3. out = 0
    BY <2>1, <2>2 DEF TurnTyped
  <2> QED
    BY <2>1, <2>2, <2>3, EarlyTurn
<1>3. CASE T!EndOfStream
  <2>1. /\ pc = "stream" /\ pc' = "stream" /\ stream' = [stream EXCEPT !.ended = TRUE, !.frames = 0]
        /\ UNCHANGED <<outputs, out, requests, events, registry, discarded, cancelled, job, claims>>
    BY <1>3 DEF T!EndOfStream, T!storage
  <2>2. Open /\ job = "active" /\ TurnTyped
    BY <2>1, GoingOn
  <2>3. out = 0 /\ stream'.flushed = stream.flushed /\ stream'.sequence = stream.sequence
    BY <2>1, <2>2 DEF TurnTyped
  <2> QED
    BY <2>1, <2>2, <2>3, EarlyTurn
<1>4. CASE T!ReadFrame(f)
  <2> DEFINE fresh == f.text /\ (~f.done \/ stream.text = 0)
             s == [stream EXCEPT !.frames = IF f.done THEN 0 ELSE @ + 1, !.ended = f.done,
                                 !.text = IF fresh THEN @ + 1 ELSE @]
  <2>1. /\ pc = "stream" /\ UNCHANGED <<outputs, out, result, events, registry, discarded, cancelled, job, claims>>
        /\ \/ stream' = [s EXCEPT !.sequence = @ + 1] /\ T!Call(T!Event(s.sequence + 1, "activity", <<>>))
           \/ fresh /\ T!Flush(s)
           \/ stream' = s /\ UNCHANGED <<pc, requests>>
    BY <1>4 DEF T!ReadFrame, T!storage
  <2>2. /\ Open /\ job = "active" /\ TurnTyped /\ out = 0 /\ stream.flushed \in Nat /\ stream.sequence \in Nat
        /\ stream.text \in Nat /\ stream.flushed <= stream.text
    <3>1. Open /\ job = "active" /\ TurnTyped
      BY <2>1, GoingOn
    <3> QED
      BY <2>1, <3>1 DEF TurnTyped
  <2>3. /\ DOMAIN s = { "frames", "text", "flushed", "sequence", "ended" }
        /\ s.flushed = stream.flushed /\ s.sequence = stream.sequence
        /\ s.text = IF fresh THEN stream.text + 1 ELSE stream.text
    BY <2>2 DEF TurnTyped
  <2> HIDE DEF s
  <2>4. CASE stream' = [s EXCEPT !.sequence = @ + 1] /\ T!Call(T!Event(s.sequence + 1, "activity", <<>>))
    <3> DEFINE n == T!Event(s.sequence + 1, "activity", <<>>)
    <3>1. stream'.flushed = stream.flushed /\ stream'.sequence = stream.sequence + 1
      BY <2>3, <2>4
    <3>2. EventTyped(n) /\ n.type = "activity" /\ n.output = 0 /\ n.status = "none" /\ T!Call(n)
      BY <2>4, EventShapes
    <3> HIDE DEF n
    <3> QED
      BY <2>1, <2>2, <3>1, <3>2, SpeaksEarly
  <2>5. CASE fresh /\ T!Flush(s)
    <3>1. s.text \in Nat /\ s.flushed < s.text
      BY <2>2, <2>3, <2>5
    <3> QED
      BY <2>1, <2>2, <2>3, <2>5, <3>1, FlushTurn
  <2>6. CASE stream' = s /\ UNCHANGED <<pc, requests>>
    BY <2>1, <2>2, <2>3, <2>6, EarlyTurn
  <2> QED
    BY <2>1, <2>4, <2>5, <2>6
<1>5. CASE T!FlushRest
  <2>1. /\ pc = "stream" /\ T!Flush(stream) /\ stream.flushed < stream.text
        /\ UNCHANGED <<outputs, out, result, events, registry, discarded, cancelled, job, claims>>
    BY <1>5 DEF T!FlushRest, T!storage
  <2>2. Open /\ TurnTyped
    BY <2>1, GoingOn
  <2>3. DOMAIN stream = { "frames", "text", "flushed", "sequence", "ended" } /\ stream.text \in Nat
    BY <2>2 DEF TurnTyped
  <2> QED
    BY <2>1, <2>2, <2>3, FlushTurn
<1>6. CASE T!OpenStream
  <2> DEFINE n == T!Event(stream.sequence, "started", <<>>)
  <2>1. /\ pc = "open" /\ UNCHANGED <<stream, outputs, out, events, registry, discarded, cancelled, job, claims>>
        /\ T!Call(n) \/ (pc' = "report" /\ result' = "failed")
    BY <1>6 DEF T!OpenStream, T!Fail, T!storage
  <2>2. Open /\ job = "active" /\ TurnTyped /\ T!Call(n)
    BY <2>1, GoingOn
  <2>3. EventTyped(n) /\ n.type = "started" /\ n.output = 0 /\ n.status = "none"
    BY EventShapes
  <2>4. out = 0 /\ stream.sequence \in Nat /\ stream.flushed \in Nat
    BY <2>1, <2>2 DEF TurnTyped
  <2> HIDE DEF n
  <2> QED
    BY <2>1, <2>2, <2>3, <2>4, SpeaksEarly
<1>7. CASE T!prepareChatArtifacts
  <2>1. /\ pc = "stream" /\ stream.flushed = stream.text
        /\ UNCHANGED <<stream, out, requests, events, registry, discarded, cancelled, job, claims>>
        /\ \/ pc' = "report" /\ result' = "failed"
           \/ /\ pc' = "outputs"
              /\ outputs' \in UNION { [1 .. n -> { "staged", "missing" }] : n \in 0 .. MaxOutputs }
    BY <1>7 DEF T!prepareChatArtifacts, T!Fail, T!storage
  <2>2. Open /\ job = "active" /\ TurnTyped /\ TurnTyped' /\ Requests' /\ pc' # "report"
    BY <2>1, GoingOn
  <2>3. out = 0
    BY <2>1, <2>2 DEF TurnTyped
  <2>4. Forward
    BY <2>1, <2>2, <2>3 DEF Forward, TurnTyped
  <2>5. \A o \in 1 .. Len(outputs') : outputs'[o] # "ready"
    <3>1. PICK n \in 0 .. MaxOutputs : outputs' \in [1 .. n -> { "staged", "missing" }]
      BY <2>1, <2>2
    <3>2. Len(outputs') = n
      BY <3>1
    <3> QED
      BY <3>1, <3>2
  <2>6. NotBegun' /\ Placed' /\ OutcomesSaid'
    BY <2>1, <2>2, <2>3 DEF NotBegun, Placed, OutcomesSaid, Requests
  <2> QED
    BY <2>1, <2>2, <2>4, <2>5, <2>6, QuietTurn
<1>8. CASE T!OutputsReported
  <2>1. /\ pc = "outputs" /\ out = Len(outputs) /\ pc' = "report" /\ result' = "ok"
        /\ UNCHANGED <<stream, outputs, out, requests, events, registry, discarded, cancelled, job, claims>>
    BY <1>8 DEF T!OutputsReported, T!storage
  <2>2. Open /\ job = "active" /\ TurnTyped /\ TurnTyped' /\ Requests' /\ Placed /\ OutcomesSaid
    BY <2>1, GoingOn
  <2>3. Forward
    BY <2>1, <2>2 DEF Forward, TurnTyped
  <2>4. NotBegun' /\ Placed'
    BY <2>1, <2>2 DEF NotBegun, Placed, Requests
  <2>5. OutcomesSaid'
    BY <2>1, <2>2 DEF OutcomesSaid, Final, T!ArtifactEvent, Outcomes
  <2> QED
    BY <2>1, <2>2, <2>3, <2>4, <2>5, QuietTurn
<1>9. CASE T!NextOutput
  <2>1. /\ pc = "outputs" /\ out < Len(outputs) /\ out' = out + 1
        /\ UNCHANGED <<stream, outputs, events, registry, discarded, cancelled, job, claims>>
    BY <1>9 DEF T!NextOutput, T!storage
  <2>2. Open /\ job = "active" /\ TurnTyped /\ TurnTyped' /\ Requests /\ Requests' /\ Placed /\ OutcomesSaid
    BY <2>1, GoingOn
  <2>3. out \in Nat /\ out' > 0 /\ out' \in 1 .. Len(outputs) /\ stream.sequence \in Nat /\ \A o \in 1 .. out' : o < out' => o \in 1 .. out
    BY <2>1, <2>2 DEF TurnTyped
  <2>4. Forward
    BY <2>1, <2>3 DEF Forward
  <2>5. outputs[out'] \in { "staged" } \cup Outcomes
    BY <2>2, <2>3 DEF TurnTyped
  <2>6. ASSUME pc' # "outputs", pc' # "report"
        PROVE  OutcomesSaid'
    <3>1. \A o \in 1 .. out : Final(o) \in events /\ outputs[o] \in Outcomes
      BY <2>1, <2>2 DEF OutcomesSaid
    <3> QED
      BY <2>1, <2>2, <2>3, <2>6, <3>1 DEF OutcomesSaid, Final, T!ArtifactEvent, Outcomes
  <2>7. CASE outputs[out + 1] = "staged"
    <3>0. PICK n : n = T!ArtifactEvent(stream.sequence + 2 * out + 1, out + 1, "preparing")
      OBVIOUS
    <3>1. T!Call(n) /\ n.type = "artifact" /\ n.output = out' /\ n.status = "preparing"
      BY <1>9, <2>1, <2>7, <3>0, EventShapes DEF T!NextOutput
    <3>2. EventTyped(n)
      BY <2>1, <2>2, <2>3, <3>0, EventShapes, BoundsAssumption DEF TurnTyped, T!Outputs
    <3>3. pc' = "call" /\ \A r \in requests' : r.live => r.event = n
      BY <2>1, <2>2, <3>1, <3>2, RequestShapes DEF T!Call, Requests
    <3>4. Placed'
      BY <2>1, <2>2, <2>3, <2>7, <3>1, <3>3 DEF Placed
    <3>5. Sayable(n)'
      BY <2>3, <3>1 DEF Sayable
    <3> QED
      BY <2>1, <2>2, <2>4, <2>6, <3>1, <3>2, <3>3, <3>4, <3>5, CallTurn
  <2>8. CASE outputs[out + 1] # "staged"
    <3>1. pc' = "final" /\ UNCHANGED requests
      BY <1>9, <2>8 DEF T!NextOutput
    <3>2. Placed' /\ NotBegun'
      BY <2>1, <2>2, <2>3, <2>5, <2>8, <3>1 DEF Placed, NotBegun, Requests, Outcomes
    <3> QED
      BY <2>1, <2>2, <2>4, <2>6, <3>1, <3>2, QuietTurn
  <2> QED
    BY <2>7, <2>8
<1>10. CASE T!StartUpload \/ T!ReportOutcome
  <2>0. PICK n : n = IF pc = "upload" THEN T!UploadOf(out)
                     ELSE T!ArtifactEvent(stream.sequence + 2 * out, out, outputs[out])
    OBVIOUS
  <2>1. /\ pc \in { "upload", "final" } /\ T!Call(n)
        /\ UNCHANGED <<stream, outputs, out, events, registry, discarded, cancelled, job, claims>>
    BY <1>10, <2>0 DEF T!StartUpload, T!ReportOutcome, T!storage
  <2>2. Open /\ job = "active" /\ TurnTyped /\ TurnTyped' /\ Requests /\ Requests' /\ Placed /\ OutcomesSaid
    BY <2>1, GoingOn
  <2>3. out \in 1 .. Len(outputs) /\ out \in 1 .. out /\ out \in T!Outputs
    BY <2>1, <2>2, BoundsAssumption DEF TurnTyped, T!Outputs
  <2>4. /\ EventTyped(n) /\ n.type = "artifact" /\ n.output = out
        /\ IF pc = "upload" THEN n.status = "upload" /\ outputs[out] = "staged" ELSE n = Final(out) /\ outputs[out] \in Outcomes /\ n.status = outputs[out]
    BY <2>0, <2>1, <2>2, <2>3, EventShapes DEF T!UploadOf, Final, Placed
  <2>5. pc' = "call" /\ \A r \in requests' : r.live => r.event = n
    BY <2>1, <2>2, <2>4, RequestShapes DEF T!Call, Requests
  <2>6. Placed'
    BY <2>1, <2>2, <2>3, <2>4, <2>5 DEF Placed, Outcomes
  <2>7. Sayable(n)'
    BY <2>1, <2>3, <2>4 DEF Sayable, Final, T!ArtifactEvent, Outcomes
  <2>8. Forward
    BY <2>1, <2>2 DEF Forward, TurnTyped
  <2>9. OutcomesSaid'
    BY <2>1, <2>2, <2>5 DEF OutcomesSaid, Final, T!ArtifactEvent, Outcomes
  <2> QED
    BY <2>1, <2>2, <2>4, <2>6, <2>7, <2>8, <2>9, CallTurn
<1>11. CASE T!UploadFails
  <2>1. /\ pc = "call" /\ T!Outcome("failed") /\ T!Abandon /\ UNCHANGED <<stream, out, events, registry, discarded, cancelled, job, claims>>
        /\ \E r \in requests : r.live /\ r.event.status = "upload"
    BY <1>11 DEF T!UploadFails, T!storage, T!IsUpload
  <2>2. /\ Open /\ job = "active" /\ TurnTyped /\ TurnTyped' /\ Requests /\ Requests'
        /\ NotBegun /\ Placed /\ SaidWell /\ ChunksSaid /\ OutcomesSaid /\ ReadyWasStored
    BY <2>1, GoingOn
  <2>3. PICK r \in requests : r.live /\ r.event.status = "upload" /\ \A q \in requests : q.live => q = r
    BY <2>1, <2>2 DEF Requests
  <2>4. RequestTyped(r) /\ r.event.output = out /\ EventTyped(r.event) /\ r.event.type = "artifact" /\ outputs[out] = "staged"
    BY <2>2, <2>3 DEF Requests, Placed, RequestTyped, EventTyped
  <2>5. out \in 1 .. Len(outputs)
    BY <2>2, <2>4, BoundsAssumption DEF EventTyped, T!Outputs, TurnTyped
  <2>6. ASSUME NEW q \in requests'
        PROVE  \E p \in requests : q.event = p.event /\ q.stage = p.stage /\ ~q.live
    <3>1. PICK p \in requests : q = [p EXCEPT !.live = FALSE]
      BY <2>1 DEF T!Abandon
    <3>2. RequestTyped(p)
      BY <2>2 DEF Requests
    <3> QED
      BY <3>1, <3>2, RequestShapes
  <2>7. pc' = "final" /\ outputs' = [outputs EXCEPT ![out] = "failed"] /\ "failed" \in Outcomes
    BY <2>1 DEF T!Outcome, Outcomes
  <2>8. RegistryKept
    BY <2>1 DEF RegistryKept, T!Outputs
  <2>9. NotBegun' /\ Placed' /\ ChunksSaid' /\ OutcomesSaid' /\ ReadyWasStored' /\ Forward
    <3>1. \A q \in requests : q.live => q.event.type # "delta"
      BY <2>3, <2>4
    <3>2. \A q \in requests' : ~q.live
      BY <2>6
    <3>3. requests # {} /\ events \subseteq events'
      BY <2>1
    <3> QED
      BY <2>1, <2>2, <2>4, <2>5, <2>7, <2>8, <3>1, <3>2, <3>3, OutcomeKnown
  <2>10. SaidWell'
    <3>1. \A e \in Said' : e \in Said
      BY <2>1, <2>6 DEF Said
    <3> QED
      BY <2>1, <2>2, <2>6, <2>9, <3>1, SaidStays DEF SaidWell
  <2> QED
    BY <2>9, <2>10 DEF TurnInv
<1>12. CASE T!Report
  <2>1. /\ pc = "report" /\ UNCHANGED <<requests, registry, discarded, cancelled, claims>>
        /\ \/ /\ ~cancelled /\ job = "active" /\ result = "ok" /\ T!Ended("done")
              /\ pc' = "idle" /\ UNCHANGED <<stream, outputs, out, result>>
           \/ job' = "failed"
           \/ cancelled /\ UNCHANGED job
           \/ job # "active" /\ UNCHANGED job
    BY <1>12 DEF T!Report, T!storage, T!Ended
  <2>2. TurnTyped /\ TurnTyped' /\ Requests' /\ (Open => Placed)
    BY DEF ChatInv, StorageInv, TurnInv
  <2>3. /\ ~cancelled /\ job = "active" /\ result = "ok" /\ T!Ended("done")
        /\ pc' = "idle" /\ UNCHANGED <<stream, outputs, out, result>>
    BY <2>1, <2>2 DEF Open, Placed
  <2>4. /\ Open /\ NotBegun /\ Placed /\ SaidWell /\ ChunksSaid /\ OutcomesSaid /\ ReadyWasStored
    BY <2>1, <2>3 DEF Open, ChatInv, TurnInv
  <2>5. PICK n : events' = events \cup { T!Event(n, "done", <<>>) } /\ job' = "done"
    BY <2>3 DEF T!Ended
  <2> DEFINE last == T!Event(n, "done", <<>>)
  <2>6. last.type = "done" /\ last.output = 0 /\ last.status = "none" /\ events' = events \cup { last }
    BY <2>5, EventShapes
  <2> HIDE DEF last
  <2>7. Said' = Said \cup { last }
    BY <2>1, <2>6 DEF Said
  <2>8. SaidWell'
    <3>1. \A e \in Said : Sayable(e)'
      BY <2>2, <2>3, <2>4, SayableStays DEF SaidWell, Forward, TurnTyped
    <3>2. Sayable(last)'
      BY <2>6 DEF Sayable
    <3> QED
      BY <2>1, <2>4, <2>6, <2>7, <3>1, <3>2 DEF SaidWell, T!Precedes
  <2>9. Placed' /\ NotBegun'
    BY <2>1, <2>2, <2>3, <2>4, <2>5 DEF Placed, NotBegun, Requests
  <2>10. ChunksSaid'
    BY <2>1, <2>3, <2>4, <2>6 DEF ChunksSaid, Holds
  <2>11. OutcomesSaid'
    BY <2>1, <2>3, <2>4, <2>6 DEF OutcomesSaid, Final, T!ArtifactEvent, Outcomes
  <2>12. ReadyWasStored'
    BY <2>1, <2>3, <2>4, <2>5 DEF ReadyWasStored, T!Outputs
  <2> QED
    BY <2>8, <2>9, <2>10, <2>11, <2>12 DEF TurnInv
<1>13. CASE T!StreamFails \/ T!Interrupted \/ T!Crash
  <2>1. /\ pc # "idle" /\ UNCHANGED <<cancelled, job, claims>>
        /\ (pc' = "report" /\ result' = "failed") \/ pc' = "idle"
    BY <1>13 DEF T!StreamFails, T!Interrupted, T!Crash, T!Fail, T!Leave
  <2>2. pc = "report" => T!Crash
    BY <1>13 DEF T!StreamFails, T!Interrupted
  <2>3. TurnTyped /\ (Open => Placed)
    BY DEF ChatInv, StorageInv, TurnInv
  <2> QED
    BY <2>1, <2>3 DEF Open, Placed, TurnTyped
<1>14. CASE T!GiveUp \/ T!CancelActiveChat \/ T!Cancel
  <2>1. job' = "failed" \/ (UNCHANGED job /\ cancelled' /\ pc # "idle")
    BY <1>14 DEF T!GiveUp, T!CancelActiveChat, T!Cancel, T!Ended
  <2>2. Open => Placed
    BY DEF ChatInv, TurnInv
  <2> QED
    BY <2>1, <2>2 DEF Open, Placed
<1> QED
  BY <1>1, <1>2, <1>3, <1>4, <1>5, <1>6, <1>7, <1>8, <1>9, <1>10, <1>11, <1>12, <1>13, <1>14 DEF AgentStep

(* The control plane answers, and the agent hears it or has gone on.       *)
LEMMA AnswerTurn ==
  ASSUME ChatInv, StorageInv', Open', NEW r \in requests, NEW a, T!Answer(r, a),
         UNCHANGED <<job, cancelled, claims, discarded>>,
         events' \in { events, events \cup { r.event } }, r.event.status # "upload" /\ a = "ok" => r.event \in events',
         r.event.status = "upload" => events' = events,
         r.event.status = "upload" /\ a = "ok" => registry'[r.event.output] = "ready",
         RegistryKept
  PROVE  TurnInv'
<1>1. requests' = requests \ { r }
  BY DEF T!Answer
<1>2. CASE r.live
  BY <1>1, <1>2, Heard DEF T!Answer
<1>3. CASE ~r.live
  <2>1. UNCHANGED T!client
    BY <1>3 DEF T!Answer
  <2>2. Open
    BY <2>1 DEF Open, T!client
  <2>3. SaidWell
    BY <2>2 DEF ChatInv, TurnInv
  <2>4. events \subseteq events' /\ \A e \in events' : e \in Said /\ e.status # "upload"
    BY <2>3 DEF SaidWell, Said
  <2>5. \A q \in requests' : q.stage = "record" => q.event \in events'
    BY <1>1, <2>3, <2>4 DEF SaidWell
  <2>6. \A p \in requests : p.live => \E q \in requests' : q.live /\ q.event = p.event
    BY <1>1, <1>3
  <2> QED
    BY <1>1, <2>1, <2>4, <2>5, <2>6, Served
<1> QED
  BY <1>2, <1>3

(* A request goes on.                                                      *)
LEMMA StageTurn ==
  ASSUME ChatInv, StorageInv', Open', NEW r \in requests, NEW s, T!AtStage(r, s), UNCHANGED T!client,
         UNCHANGED <<job, cancelled, claims, discarded, registry>>,
         s = "record" => events' = events \cup { r.event } /\ r.event.status # "upload",
         s # "record" => events' = events
  PROVE  TurnInv'
<1> DEFINE m == [r EXCEPT !.stage = s]
<1>1. Open
  BY DEF Open, T!client
<1>2. SaidWell /\ Requests
  BY <1>1 DEF ChatInv, StorageInv, TurnInv
<1>3. m.event = r.event /\ m.live = r.live /\ m.stage = s
  BY <1>2, RequestShapes DEF Requests
<1>4. requests' = (requests \ { r }) \cup { m }
  BY DEF T!AtStage
<1> HIDE DEF m
<1>5. events \subseteq events' /\ \A e \in events' : e \in Said /\ e.status # "upload"
  BY <1>2 DEF SaidWell, Said
<1>6. \A q \in requests' : /\ \E p \in requests : q.event = p.event /\ (q.live => p.live)
                           /\ q.stage = "record" => q.event \in events'
  BY <1>2, <1>3, <1>4, <1>5 DEF SaidWell
<1>7. \A p \in requests : p.live => \E q \in requests' : q.live /\ q.event = p.event
  BY <1>3, <1>4
<1>8. RegistryKept
  BY DEF RegistryKept, T!Outputs
<1> QED
  BY <1>5, <1>6, <1>7, <1>8, Served

(* A reconciliation forgets nothing that is ready and wanted.              *)
LEMMA ReconciledReady ==
  ASSUME NEW aged, T!ReadyIsStored, Open
  PROVE  \A o \in T!Outputs :
            /\ registry[o] \in { "ready", "expired" } => T!Reconciled(aged)[o] \in { "ready", "expired" } \/ o \in discarded
            /\ T!Reconciled(aged)[o] = "expired" => registry[o] = "expired" \/ (job = "done" /\ requests = {})
<1> TAKE o \in T!Outputs
<1>1. T!Reconciled(aged)[o] = CASE registry[o] = "preparing" /\ o \in aged -> "failed"
          [] registry[o] = "ready" /\ o \in aged /\ job # "active" /\ requests = {} -> "expired"
          [] OTHER -> T!getLocked(o)
  BY DEF T!Reconciled
<1>2. registry[o] = "ready" => o \in stored \/ o \in discarded
  BY DEF T!ReadyIsStored
<1>3. job # "active" => job = "done"
  BY DEF Open
<1> QED
  BY <1>1, <1>2, <1>3 DEF T!getLocked

(* The steps of the control plane.                                         *)
LEMMA PlaneTurn ==
  ASSUME ChatInv, StorageInv', NEW r, NEW o, NEW aged, PlaneStep(r, o, aged)
  PROVE  TurnInv'
<1> SUFFICES ASSUME Open' PROVE TurnInv'
  BY DEF TurnInv
<1> TurnTyped /\ Requests /\ LockHeld /\ T!ReadyIsStored /\ DiscardedWithSession /\ StorageInv
  BY DEF ChatInv, StorageInv
<1>0. UNCHANGED registry => RegistryKept
  BY DEF RegistryKept, T!Outputs
<1>1. CASE r \in requests /\ T!AppendChatEvent(r)
  <2>1. UNCHANGED <<job, cancelled, claims, discarded, registry>> /\ r.event.status # "upload"
    BY <1>1 DEF T!AppendChatEvent, T!storage, T!IsUpload
  <2>2. CASE T!AtStage(r, "record") /\ UNCHANGED T!client /\ events' = events \cup { r.event }
    BY <1>1, <2>1, <2>2, StageTurn
  <2>3. CASE T!Answer(r, "ok") /\ events' = events \cup { r.event }
    BY <1>0, <1>1, <2>1, <2>3, AnswerTurn
  <2>4. CASE T!Answer(r, "refused") /\ UNCHANGED events
    BY <1>0, <1>1, <2>1, <2>4, AnswerTurn
  <2> QED
    BY <1>1, <2>2, <2>3, <2>4 DEF T!AppendChatEvent
<1>2. CASE r \in requests /\ T!Record(r)
  <2> DEFINE n == r.event.output
  <2>1. /\ UNCHANGED <<job, cancelled, claims, discarded, events>> /\ r.stage = "record" /\ T!Answer(r, "ok")
        /\ registry' = [registry EXCEPT ![n] = T!Recorded(T!getLocked(n), r.event.status)]
    BY <1>2 DEF T!Record
  <2>2. RequestTyped(r) /\ EventTyped(r.event) /\ r.event.type = "artifact" /\ r.event.status # "upload" /\ n \in T!Outputs
    BY <1>2, <2>1 DEF Requests, RequestTyped, EventTyped
  <2>3. ASSUME Open
        PROVE  r.event \in events' /\ RegistryKept
    <3>1. SaidWell /\ ReadyWasStored
      BY <2>3 DEF ChatInv, TurnInv
    <3>2. r.event \in events
      BY <1>2, <2>1, <3>1 DEF SaidWell
    <3>3. r.event.status # "expired"
      BY <2>2, <3>1, <3>2 DEF SaidWell, Said, Sayable, Final, T!ArtifactEvent, Outcomes
    <3>4. \A k \in T!Outputs : registry[k] # "expired"
      BY <1>2, <3>1 DEF ReadyWasStored
    <3>5. registry'[n] = T!Recorded(T!getLocked(n), r.event.status) /\ \A k \in T!Outputs : k # n => registry'[k] = registry[k]
      BY <2>1, <2>2 DEF TurnTyped
    <3>6. T!getLocked(n) # "expired"
      BY <2>2, <3>4 DEF T!getLocked
    <3>7. registry'[n] # "expired"
      BY <3>3, <3>5, <3>6 DEF T!Recorded
    <3>8. registry[n] = "ready" => T!getLocked(n) = "ready" \/ n \in discarded
      BY <2>2 DEF T!getLocked, T!ReadyIsStored
    <3>9. registry[n] = "ready" => registry'[n] = "ready" \/ n \in discarded'
      <4>1. \A s : T!Recorded("ready", s) = "ready"
        BY DEF T!Recorded
      <4> QED
        BY <2>1, <3>5, <3>8, <4>1
    <3> QED
      BY <2>1, <3>2, <3>4, <3>5, <3>7, <3>9 DEF RegistryKept, T!Outputs
  <2>4. Open
    <3>1. CASE r.live
      BY <1>2, <2>1, <3>1 DEF Open, Requests, TurnTyped
    <3>2. CASE ~r.live
      BY <2>1, <3>2 DEF Open, T!Answer, T!client
    <3> QED
      BY <3>1, <3>2
  <2> HIDE DEF n
  <2> QED
    BY <1>2, <2>1, <2>2, <2>3, <2>4, AnswerTurn
<1>3. CASE r \in requests /\ T!PutBegin(r)
  <2>1. UNCHANGED <<job, cancelled, claims, registry, discarded, events>> /\ r.event.status = "upload"
    BY <1>3 DEF T!PutBegin, T!storage, T!IsUpload
  <2>2. CASE T!Answer(r, "refused") \/ T!Answer(r, "rejected")
    BY <1>0, <1>3, <2>1, <2>2, AnswerTurn
  <2>3. CASE T!Answer(r, "ok") /\ T!getLocked(r.event.output) = "ready"
    <3>1. registry'[r.event.output] = "ready"
      BY <2>1, <2>3 DEF T!getLocked
    <3> QED
      BY <1>0, <1>3, <2>1, <2>3, <3>1, AnswerTurn
  <2>4. CASE T!AtStage(r, "checked") /\ UNCHANGED T!client
    BY <1>3, <2>1, <2>4, StageTurn
  <2> QED
    BY <1>3, <2>2, <2>3, <2>4 DEF T!PutBegin
<1>4. CASE r \in requests /\ T!PutVerify(r)
  <2>1. UNCHANGED <<job, cancelled, claims, registry, discarded, events>> /\ r.event.status = "upload"
    BY <1>4 DEF T!PutVerify, T!storage, Requests, RequestTyped, LockedStages
  <2>2. CASE T!Answer(r, "refused")
    BY <1>0, <1>4, <2>1, <2>2, AnswerTurn
  <2>3. CASE T!AtStage(r, "verified") /\ UNCHANGED T!client
    BY <1>4, <2>1, <2>3, StageTurn
  <2> QED
    BY <1>4, <2>2, <2>3 DEF T!PutVerify
<1>5. CASE r \in requests /\ T!PutMove(r)
  <2>1. UNCHANGED <<job, cancelled, claims, registry, discarded, events>> /\ T!AtStage(r, "moved") /\ UNCHANGED T!client
    BY <1>5 DEF T!PutMove
  <2> QED
    BY <1>5, <2>1, StageTurn
<1>6. CASE r \in requests /\ T!PutFinish(r)
  <2>1. /\ UNCHANGED <<job, cancelled, claims, discarded, events>> /\ r.stage = "moved" /\ T!Answer(r, "ok")
        /\ registry' = [registry EXCEPT ![r.event.output] = "ready"]
    BY <1>6 DEF T!PutFinish
  <2>2. r.event.status = "upload" /\ r.event.output \in T!Outputs
    BY <1>6, <2>1 DEF Requests, RequestTyped, EventTyped, LockedStages
  <2>3. registry'[r.event.output] = "ready" /\ RegistryKept
    BY <2>1, <2>2 DEF RegistryKept, TurnTyped, T!Outputs
  <2> QED
    BY <1>6, <2>1, <2>2, <2>3, AnswerTurn
<1>7. CASE r \in requests /\ T!HandlerFails(r)
  <2>1. /\ UNCHANGED <<job, cancelled, claims, registry, discarded, events>> /\ UNCHANGED T!client
        /\ requests' = (requests \ { r }) \cup (IF r.live /\ ~cancelled THEN { T!New(r.event) } ELSE {})
    BY <1>7 DEF T!HandlerFails
  <2>2. T!New(r.event).event = r.event /\ T!New(r.event).stage = "new"
    BY <1>7, RequestShapes DEF Requests, RequestTyped
  <2>3. Open
    BY <2>1 DEF Open, T!client
  <2>4. SaidWell /\ Placed
    BY <2>3 DEF ChatInv, TurnInv
  <2>5. r.live => ~cancelled /\ T!New(r.event).live
    BY <1>7, <2>3, <2>4 DEF Open, Placed, Requests, T!New
  <2>6. \A q \in requests' : /\ \E p \in requests : q.event = p.event /\ (q.live => p.live)
                             /\ q.stage = "record" => q.event \in events'
    BY <1>7, <2>1, <2>2, <2>4 DEF SaidWell
  <2>7. \A p \in requests : p.live => \E q \in requests' : q.live /\ q.event = p.event
    BY <2>1, <2>2, <2>5
  <2>8. \A e \in events' : e \in Said /\ e.status # "upload"
    BY <2>1, <2>4 DEF SaidWell, Said
  <2> QED
    BY <1>0, <2>1, <2>6, <2>7, <2>8, Served
<1>8. CASE r \in requests /\ T!Resend(r)
  <2> DEFINE d == [r EXCEPT !.live = FALSE]
  <2>1. /\ UNCHANGED <<job, cancelled, claims, registry, discarded, events>> /\ UNCHANGED T!client
        /\ requests' = { d, T!New(r.event) } /\ r.live /\ \A q \in requests : q.live
    BY <1>8 DEF T!Resend, T!storage
  <2>2. /\ T!New(r.event).event = r.event /\ T!New(r.event).stage = "new" /\ T!New(r.event).live
        /\ d.event = r.event /\ d.stage = r.stage /\ ~d.live
    BY <1>8, RequestShapes DEF Requests, RequestTyped
  <2> HIDE DEF d
  <2>3. Open
    BY <2>1 DEF Open, T!client
  <2>4. SaidWell
    BY <2>3 DEF ChatInv, TurnInv
  <2>5. \A q \in requests' : /\ \E p \in requests : q.event = p.event /\ (q.live => p.live)
                             /\ q.stage = "record" => q.event \in events'
    BY <1>8, <2>1, <2>2, <2>4 DEF SaidWell
  <2>6. \A p \in requests : p.live => \E q \in requests' : q.live /\ q.event = p.event
    BY <1>8, <2>1, <2>2 DEF Requests
  <2>7. \A e \in events' : e \in Said /\ e.status # "upload"
    BY <2>1, <2>4 DEF SaidWell, Said
  <2> QED
    BY <1>0, <2>1, <2>5, <2>6, <2>7, Served
<1>9. CASE T!Reconcile(aged) \/ (o \in T!Outputs /\ T!DeleteArtifact(o, aged))
  <2>1. /\ UNCHANGED <<job, cancelled, claims, requests, events>> /\ UNCHANGED T!client
        /\ discarded \subseteq discarded'
        /\ \A k \in T!Outputs : registry'[k] = T!Reconciled(aged)[k] \/ (registry'[k] = "deleted" /\ k \in discarded')
    <3>1. DOMAIN T!Reconciled(aged) = T!Outputs
      BY DEF T!Reconciled
    <3> QED
      BY <1>9, <3>1 DEF T!Reconcile, T!DeleteArtifact
  <2>2. Open
    BY <2>1 DEF Open, T!client
  <2>3. RegistryKept
    BY <2>1, <2>2, ReconciledReady DEF RegistryKept, T!Outputs
  <2>4. SaidWell
    BY <2>2 DEF ChatInv, TurnInv
  <2>5. \A e \in events' : e \in Said /\ e.status # "upload"
    BY <2>1, <2>4 DEF SaidWell, Said
  <2>6. \A q \in requests' : q.stage = "record" => q.event \in events'
    BY <2>1, <2>4 DEF SaidWell
  <2> QED
    BY <2>1, <2>3, <2>5, <2>6, Served
<1>10. CASE T!RestartControlPlane(aged)
  <2>1. /\ UNCHANGED <<job, cancelled, claims, discarded, events>> /\ UNCHANGED T!client /\ registry' = T!Reconciled(aged)
        /\ requests' = { T!New(q.event) : q \in { p \in requests : p.live } }
    BY <1>10 DEF T!RestartControlPlane
  <2>2. Open
    BY <2>1 DEF Open, T!client
  <2>3. RegistryKept
    BY <2>1, <2>2, ReconciledReady DEF RegistryKept, T!Outputs
  <2>4. SaidWell
    BY <2>2 DEF ChatInv, TurnInv
  <2>5. \A e \in events' : e \in Said /\ e.status # "upload"
    BY <2>1, <2>4 DEF SaidWell, Said
  <2>6. \A p \in requests : T!New(p.event).event = p.event /\ T!New(p.event).stage = "new" /\ T!New(p.event).live
    BY RequestShapes DEF Requests, RequestTyped
  <2>7. \A q \in requests' : /\ \E p \in requests : q.event = p.event /\ (q.live => p.live)
                             /\ q.stage = "record" => q.event \in events'
    BY <2>1, <2>6
  <2>8. \A p \in requests : p.live => \E q \in requests' : q.live /\ q.event = p.event
    BY <2>1, <2>6
  <2> QED
    BY <2>1, <2>3, <2>5, <2>7, <2>8, Served
<1>11. CASE T!DeleteChatSession
  BY <1>11 DEF T!DeleteChatSession, Open
<1>12. CASE T!DeleteSession
  <2>1. /\ UNCHANGED <<job, cancelled, claims, discarded, requests, events>> /\ UNCHANGED T!client
        /\ session = "deleting"
        /\ \E left : registry' = [i \in T!Outputs |-> IF i \in left THEN registry[i] ELSE "none"]
    BY <1>12 DEF T!DeleteSession
  <2>2. Open
    BY <2>1 DEF Open, T!client
  <2>3. RegistryKept
    BY <2>1 DEF RegistryKept, DiscardedWithSession, T!Outputs
  <2>4. SaidWell
    BY <2>2 DEF ChatInv, TurnInv
  <2>5. \A e \in events' : e \in Said /\ e.status # "upload"
    BY <2>1, <2>4 DEF SaidWell, Said
  <2>6. \A q \in requests' : q.stage = "record" => q.event \in events'
    BY <2>1, <2>4 DEF SaidWell
  <2> QED
    BY <2>1, <2>3, <2>5, <2>6, Served
<1> QED
  BY <1>1, <1>2, <1>3, <1>4, <1>5, <1>6, <1>7, <1>8, <1>9, <1>10, <1>11, <1>12 DEF PlaneStep

(* The turn, its host and the control plane, and the job around it.        *)
LEMMA ChatStep ==
  ASSUME ChatInv, T!Step \/ T!Claim \/ T!GiveUp \/ T!Cancel \/ T!Crash \/ T!Faults \/ T!Operator
  PROVE  ChatInv'
<1>1. ASSUME NEW f, AgentStep(f)
      PROVE  ChatInv'
  <2>1. StorageInv
    BY DEF ChatInv
  <2>2. StorageInv'
    BY <1>1, <2>1, AgentStorage
  <2>3. TurnInv'
    BY <1>1, <2>2, AgentTurn
  <2> QED
    BY <2>2, <2>3 DEF ChatInv
<1>2. ASSUME NEW r, NEW o, NEW aged, PlaneStep(r, o, aged)
      PROVE  ChatInv'
  <2>1. StorageInv
    BY DEF ChatInv
  <2>2. StorageInv'
    BY <1>2, <2>1, PlaneStorage
  <2>3. TurnInv'
    BY <1>2, <2>2, PlaneTurn
  <2> QED
    BY <2>2, <2>3 DEF ChatInv
<1>3. ASSUME NEW r \in requests, T!Handle(r) PROVE ChatInv'
  BY <1>2, <1>3 DEF T!Handle, PlaneStep
<1>4. CASE T!Step
  BY <1>1, <1>3, <1>4 DEF T!Step, AgentStep
<1>5. CASE T!Faults
  BY <1>1, <1>2, <1>3, <1>5 DEF T!Faults, T!HandledLate, AgentStep, PlaneStep
<1>6. CASE T!Operator
  BY <1>1, <1>2, <1>6 DEF T!Operator, AgentStep, PlaneStep
<1> QED
  BY <1>1, <1>4, <1>5, <1>6 DEF AgentStep

(* A turn that has not begun.                                              *)
LEMMA InitChat == T!Init => ChatInv
<1> SUFFICES ASSUME T!Init PROVE ChatInv
  OBVIOUS
<1>1. /\ stream = T!NoStream /\ outputs = <<>> /\ out = 0 /\ requests = {} /\ events = {} /\ stored = {}
      /\ registry = [o \in T!Outputs |-> "none"] /\ session = "open" /\ discarded = {}
      /\ pc = "idle" /\ ~cancelled /\ job = "active" /\ claims = 0
  BY DEF T!Init
<1>2. TurnTyped
  BY <1>1, BoundsAssumption DEF TurnTyped, T!NoStream
<1>3. Requests /\ LockHeld
  BY <1>1 DEF Requests, LockHeld
<1>4. T!ReadyIsStored /\ DiscardedWithSession
  BY <1>1 DEF T!ReadyIsStored, DiscardedWithSession, T!Outputs
<1>5. NotBegun /\ Placed
  BY <1>1 DEF NotBegun, Placed
<1>6. SaidWell
  BY <1>1 DEF SaidWell, Said
<1>7. ChunksSaid /\ OutcomesSaid
  BY <1>1 DEF ChunksSaid, OutcomesSaid, T!NoStream
<1>8. ReadyWasStored
  BY <1>1 DEF ReadyWasStored, T!Outputs
<1> QED
  BY <1>2, <1>3, <1>4, <1>5, <1>6, <1>7, <1>8 DEF ChatInv, StorageInv, TurnInv

(* What the properties of HostWorkflows need of it.                         *)
LEMMA ChatKeeps ==
  ASSUME ChatInv
  PROVE  T!ReadyIsStored /\ T!SuccessIsTrue
<1>1. T!ReadyIsStored
  BY DEF ChatInv, StorageInv
<1>2. T!SuccessIsTrue
  <2> SUFFICES ASSUME job = "done"
               PROVE  LET deltas == { e \in events : e.type = "delta" }
                      IN /\ /\ \A c \in 1 .. stream.text : \E e \in deltas : \E i \in DOMAIN e.text : e.text[i] = c
                            /\ \A e \in deltas : \A i \in DOMAIN e.text :
                                  e.text[i] \in 1 .. stream.text /\ e.text[i] = e.text[1] + i - 1
                            /\ \A d, e \in deltas : d = e \/ T!Precedes(d, e) \/ T!Precedes(e, d)
                         /\ \A o \in 1 .. Len(outputs) :
                               LET final == { e \in events : e.output = o /\ e.status # "preparing" }
                               IN /\ \E e \in events : final = { e }
                                  /\ (\A e \in final : e.status = "ready") =>
                                         registry[o] \in { "ready", "expired" } \/ o \in discarded
    BY DEF T!SuccessIsTrue
  <2> DEFINE deltas == { e \in events : e.type = "delta" }
  <2>1. /\ TurnTyped /\ Placed /\ SaidWell /\ ChunksSaid /\ OutcomesSaid /\ ReadyWasStored
        /\ stream.flushed = stream.text /\ out = Len(outputs) /\ pc = "idle"
    <3>1. TurnTyped /\ Placed /\ SaidWell /\ ChunksSaid /\ OutcomesSaid /\ ReadyWasStored
      BY DEF ChatInv, StorageInv, TurnInv, Open
    <3> QED
      BY <3>1 DEF Placed
  <2>2. \A e \in events : Sayable(e) /\ e.status # "upload"
    BY <2>1 DEF SaidWell, Said
  <2>3. \A e \in deltas : Piece(e) /\ DOMAIN e.text = 1 .. Len(e.text)
    BY <2>2 DEF Sayable, Piece, Final, T!ArtifactEvent
  <2>4. \A c \in 1 .. stream.text : \E e \in deltas : \E i \in DOMAIN e.text : e.text[i] = c
    <3> SUFFICES ASSUME NEW c \in 1 .. stream.text PROVE \E e \in deltas : \E i \in DOMAIN e.text : e.text[i] = c
      OBVIOUS
    <3>1. PICK e \in events : Holds(e, c)
      BY <2>1 DEF ChunksSaid
    <3>2. e \in deltas
      BY <3>1 DEF Holds
    <3>3. PICK i \in 1 .. Len(e.text) : e.text[i] = c
      BY <3>1 DEF Holds
    <3> QED
      BY <2>3, <3>2, <3>3
  <2>5. \A e \in deltas : \A i \in DOMAIN e.text : e.text[i] \in 1 .. stream.text /\ e.text[i] = e.text[1] + i - 1
    BY <2>1, <2>3 DEF Piece
  <2>6. \A d, e \in deltas : d = e \/ T!Precedes(d, e) \/ T!Precedes(e, d)
    BY <2>1 DEF SaidWell, Said
  <2>7. ASSUME NEW o \in 1 .. Len(outputs)
        PROVE  LET final == { e \in events : e.output = o /\ e.status # "preparing" }
               IN /\ \E e \in events : final = { e }
                  /\ (\A e \in final : e.status = "ready") =>
                         registry[o] \in { "ready", "expired" } \/ o \in discarded
    <3> DEFINE final == { e \in events : e.output = o /\ e.status # "preparing" }
    <3>1. Final(o) \in events /\ outputs[o] \in Outcomes /\ o # 0
      BY <2>1, <2>7 DEF OutcomesSaid
    <3>2. Final(o).output = o /\ Final(o).status = outputs[o]
      BY EventShapes DEF Final
    <3>3. Final(o) \in final
      BY <3>1, <3>2 DEF Outcomes
    <3>4. \A e \in final : e = Final(o)
      BY <2>2, <3>1 DEF Sayable
    <3>5. final = { Final(o) }
      BY <3>3, <3>4
    <3>6. \E e \in events : final = { e }
      BY <3>1, <3>5
    <3>7. outputs[o] = "ready" => registry[o] \in { "ready", "expired" } \/ o \in discarded
      BY <2>1, <2>7 DEF ReadyWasStored
    <3>8. (\A e \in final : e.status = "ready") => registry[o] \in { "ready", "expired" } \/ o \in discarded
      BY <3>2, <3>3, <3>7
    <3> QED
      BY <3>6, <3>8
  <2> HIDE DEF deltas
  <2> QED
    BY <2>4, <2>5, <2>6, <2>7, Zenon DEF deltas
<1> QED
  BY <1>1, <1>2
------------------------------------------------------------------------------
(* The provisioner: the job's type selects the workflow, and what is true  *)
(* of it is all that is said of the others' variables.                     *)

WorkflowsInv ==
    \/ kind = "hermes.update" /\ UpdateInv
    \/ kind = "recovery.restore" /\ RestoreInv
    \/ kind \in ConfigurationKinds /\ ConfigurationInv
    \/ kind \in J!Kinds /\ RuntimeInv
    \/ kind = "chat.send" /\ ChatInv

(* No job has two types.                                                   *)
LEMMA KindsDiffer ==
  /\ ConfigurationKinds \cap J!Kinds = {}
  /\ { "hermes.update", "recovery.restore", "chat.send" } \cap (ConfigurationKinds \cup J!Kinds) = {}
  BY DEF ConfigurationKinds, J!Kinds

(* A step without effect on a workflow keeps what is true of it.           *)
LEMMA UpdateRests ==
  ASSUME UpdateInv, UNCHANGED vars
  PROVE  UpdateInv'
  BY SMT DEF vars, updateVars, Typed, OnTarget, OnSource, Images, Undoing, Installed, Changing,
     Backing, U!Fenced, UpdateInv, UpdateTyped, BackupHeld, TargetInstalled, FirstAttempt,
     U!ChangesOnlyBehindBackup,
         U!SuccessIsReal, U!RecordedTargetIsInstalled, U!RecordedStatusIsTrue, U!OldImageHasOldData

(* The same of a restore,                                                  *)
LEMMA RestoreRests ==
  ASSUME RestoreInv, UNCHANGED vars
  PROVE  RestoreInv'
  BY DEF vars, restoreVars, RestoreInv, RestoreTyped, WorkspacePlaced, ArchiveInPlace,
     BadArchiveRefused, RestoredWhole,
         R!OldWorkspaceKept, Belongs, Contents, Swapped, OnCleanHost

(* of a configuration job,                                                 *)
LEMMA ConfigurationRests ==
  ASSUME ConfigurationInv, UNCHANGED vars
  PROVE  ConfigurationInv'
<1> UNCHANGED <<kind, pc, cancelled, result, job, claims, status, faults, want, file, containers, on, snap, todo, failedUndo>>
  BY DEF vars, configurationVars
<1>1. C!Steps' = C!Steps
  BY SameJob
<1> QED
  BY <1>1 DEF ConfigurationInv, ConfigurationTyped, NothingStarts, RunProgress, UndoProgress, Succeeded,
         OneAttempt, OneVersion, Fresh, Version, AllNew, OnNew, Are, Content, Writes,
         C!StoppedStays, C!Restored

(* of a runtime job,                                                       *)
LEMMA RuntimeRests ==
  ASSUME RuntimeInv, UNCHANGED vars
  PROVE  RuntimeInv'
  BY DEF vars, runtimeVars, RuntimeInv, RuntimeTyped, JobPlaced, OnItsFiles, FilesWritten,
     DoneSeen, FirstFailure, SeenDone,
         StatusHolds, AllRun, NoneRuns, Runs, Containers, Container

(* and of a chat turn.                                                     *)
LEMMA ChatRests ==
  ASSUME ChatInv, UNCHANGED vars
  PROVE  ChatInv'
<1> UNCHANGED <<pc, cancelled, result, job, claims, chatVars>>
  BY DEF vars
<1> UNCHANGED <<stream, outputs, out, requests, events, registry, stored, session, discarded>>
  BY DEF chatVars
<1>1. StorageInv'
  BY DEF ChatInv, StorageInv, TurnTyped, Requests, LockHeld, T!ReadyIsStored, DiscardedWithSession
<1>2. TurnInv'
  BY DEF ChatInv, TurnInv, Open, NotBegun, Placed, SaidWell, Said, Sayable, Piece, Final,
     ChunksSaid, OutcomesSaid,
         Holds, ReadyWasStored
<1> QED
  BY <1>1, <1>2 DEF ChatInv

(* Every first job begins in its invariant.                                *)
LEMMA InitWorkflows == Init => WorkflowsInv
<1> SUFFICES ASSUME Init PROVE WorkflowsInv
  OBVIOUS
<1>1. CASE kind = "hermes.update" /\ U!Init
  BY <1>1, InitUpdate DEF WorkflowsInv
<1>2. CASE kind = "recovery.restore" /\ R!Init
  BY <1>2, InitRestore DEF WorkflowsInv
<1>3. CASE C!Init
  <2>1. ConfigurationInv
    BY <1>3, InitConfiguration
  <2> QED
    BY <2>1 DEF WorkflowsInv, ConfigurationInv, ConfigurationTyped
<1>4. CASE J!Init
  <2>1. RuntimeInv
    BY <1>4, InitRuntime
  <2> QED
    BY <2>1 DEF WorkflowsInv, RuntimeInv, RuntimeTyped
<1>5. CASE kind = "chat.send" /\ T!Init
  BY <1>5, InitChat DEF WorkflowsInv
<1> QED
  BY <1>1, <1>2, <1>3, <1>4, <1>5 DEF Init

(* Every step of the host is one of the job's workflow.                    *)
LEMMA NextWorkflows == WorkflowsInv /\ [Next]_vars => WorkflowsInv'
<1> SUFFICES ASSUME WorkflowsInv, [Next]_vars PROVE WorkflowsInv'
  OBVIOUS
<1> USE KindsDiffer
<1>1. CASE kind = "hermes.update" /\ UpdateInv
  <2>1. CASE UNCHANGED vars
    BY <1>1, <2>1, UpdateRests DEF WorkflowsInv, vars
  <2>2. CASE kind' = kind /\ (U!Step \/ U!Claim \/ U!GiveUp \/ U!Cancel \/ U!Crash)
    BY <1>1, <2>2, UpdateStep, UpdateAround DEF WorkflowsInv
  <2> QED
    BY <1>1, <2>1, <2>2, Zenon
    DEF Next, ExecuteWithProgress, Claim, GiveUp, CutOff, Outside, Update, Restore, Configuration,
       Runtime, Chat
<1>2. CASE kind = "recovery.restore" /\ RestoreInv
  <2>1. CASE UNCHANGED vars
    BY <1>2, <2>1, RestoreRests DEF WorkflowsInv, vars
  <2>2. CASE kind' = kind /\ (R!Step \/ R!Claim \/ R!GiveUp \/ R!Cancel \/ R!Restart \/ R!Start)
    BY <1>2, <2>2, RestoreStep, RestoreAround DEF WorkflowsInv
  <2> QED
    BY <1>2, <2>1, <2>2, Zenon
    DEF Next, ExecuteWithProgress, Claim, GiveUp, CutOff, Outside, Update, Restore, Configuration,
       Runtime, Chat
<1>3. CASE kind \in ConfigurationKinds /\ ConfigurationInv
  <2>1. ConfigurationInv'
    <3>1. CASE UNCHANGED vars
      BY <1>3, <3>1, ConfigurationRests
    <3>2. CASE C!Step \/ C!Claim \/ C!GiveUp \/ C!Cancel \/ C!Crash
      BY <1>3, <3>2, ConfigurationStep, ConfigurationAround
    <3> QED
      BY <1>3, <3>1, <3>2, Zenon
      DEF Next, ExecuteWithProgress, Claim, GiveUp, CutOff, Outside, Update, Restore,
         Configuration, Runtime, Chat
  <2> QED
    BY <2>1 DEF WorkflowsInv, ConfigurationInv, ConfigurationTyped, ConfigurationKinds
<1>4. CASE kind \in J!Kinds /\ RuntimeInv
  <2>1. RuntimeInv'
    <3>1. CASE UNCHANGED vars
      BY <1>4, <3>1, RuntimeRests
    <3>2. CASE J!Step \/ J!Claim \/ J!GiveUp \/ J!Cancel \/ J!Crash \/ J!Retag \/ \E k \in J!Kinds : J!Request(k)
      BY <1>4, <3>2, RuntimeStep, RuntimeAround
    <3> QED
      BY <1>4, <3>1, <3>2, Zenon
      DEF Next, ExecuteWithProgress, Claim, GiveUp, CutOff, Outside, Update, Restore,
         Configuration, Runtime, Chat
  <2> QED
    BY <2>1 DEF WorkflowsInv, RuntimeInv, RuntimeTyped, J!Kinds
<1>5. CASE kind = "chat.send" /\ ChatInv
  <2>1. CASE UNCHANGED vars
    BY <1>5, <2>1, ChatRests DEF WorkflowsInv, vars
  <2>2. CASE kind' = kind /\ (T!Step \/ T!Claim \/ T!GiveUp \/ T!Cancel \/ T!Crash \/ T!Faults \/ T!Operator)
    BY <1>5, <2>2, ChatStep DEF WorkflowsInv
  <2> QED
    BY <1>5, <2>1, <2>2, Zenon
    DEF Next, ExecuteWithProgress, Claim, GiveUp, CutOff, Outside, Update, Restore, Configuration,
       Runtime, Chat
<1> QED
  BY <1>1, <1>2, <1>3, <1>4, <1>5 DEF WorkflowsInv

(* The inductive invariant of the provisioner.                             *)
THEOREM WorkflowsInvariance == Spec => []WorkflowsInv
<1>1. Init => WorkflowsInv
  BY InitWorkflows
<1>2. WorkflowsInv /\ [Next]_vars => WorkflowsInv'
  BY NextWorkflows
<1> QED
  BY <1>1, <1>2, PTL DEF Spec

(* What each workflow's invariant says of the properties.                  *)
LEMMA WorkflowsKeep ==
  ASSUME WorkflowsInv
  PROVE  /\ kind \in { "hermes.update", "recovery.restore", "chat.send" } \cup ConfigurationKinds \cup J!Kinds
         /\ kind = "hermes.update" => UpdateInv
         /\ kind = "recovery.restore" =>
               /\ R!SuccessIsComplete /\ R!OldWorkspaceKept /\ R!BadArchiveChangesNothing
               /\ faults \cap { "clear", "rollback", "cancel" } = {} => R!RunsWhole
         /\ kind \in ConfigurationKinds =>
               /\ C!SuccessApplied /\ C!StoppedStays
               /\ faults \cap { "cancel", "crash" } = {} => C!FailureRestored /\ C!MarkerMatches
               /\ kind = "mcp" /\ faults \cap { "rollback", "crash" } = {} => C!FailureWhole
         /\ kind \in J!Kinds => J!SuccessIsTrue /\ J!RunsOnItsFiles /\ J!FirstFailureIsTrue
         /\ kind = "chat.send" => T!ReadyIsStored /\ T!SuccessIsTrue
<1> USE KindsDiffer
<1>1. /\ kind \in { "hermes.update", "recovery.restore", "chat.send" } \cup ConfigurationKinds \cup J!Kinds
      /\ kind = "hermes.update" => UpdateInv
      /\ kind = "recovery.restore" => RestoreInv
      /\ kind \in ConfigurationKinds => ConfigurationInv
      /\ kind \in J!Kinds => RuntimeInv
      /\ kind = "chat.send" => ChatInv
  BY DEF WorkflowsInv
<1>2. kind = "recovery.restore" =>
         /\ R!SuccessIsComplete /\ R!OldWorkspaceKept /\ R!BadArchiveChangesNothing
         /\ faults \cap { "clear", "rollback", "cancel" } = {} => R!RunsWhole
  BY <1>1, RestoreKeeps
<1>3. kind \in ConfigurationKinds =>
         /\ C!SuccessApplied /\ C!StoppedStays
         /\ faults \cap { "cancel", "crash" } = {} => C!FailureRestored /\ C!MarkerMatches
         /\ kind = "mcp" /\ faults \cap { "rollback", "crash" } = {} => C!FailureWhole
  BY <1>1, ConfigurationKeeps
<1>4. kind \in J!Kinds => J!SuccessIsTrue /\ J!RunsOnItsFiles /\ J!FirstFailureIsTrue
  BY <1>1, RuntimeKeeps
<1>5. kind = "chat.send" => T!ReadyIsStored /\ T!SuccessIsTrue
  BY <1>1, ChatKeeps
<1> QED
  BY <1>1, <1>2, <1>3, <1>4, <1>5

(* A success on record is true on the host and in the chat, whatever the   *)
(* attempts before it that crashed or were canceled left behind.           *)
THEOREM SuccessesAreTrue == Spec => []SuccessIsTrue
<1>1. WorkflowsInv => SuccessIsTrue
  BY WorkflowsKeep, KindsDiffer DEF SuccessIsTrue, UpdateInv
<1> QED
  BY <1>1, WorkflowsInvariance, PTL

(* Neither the data before an update nor the workspace before a restore nor *)
(* an output called ready is lost, at whatever step the execution ends.    *)
THEOREM NothingIsLost == Spec => []NothingLost
<1>1. WorkflowsInv => NothingLost
  BY WorkflowsKeep, KindsDiffer DEF NothingLost, UpdateInv
<1> QED
  BY <1>1, WorkflowsInvariance, PTL

(* Containers exist only behind complete files, and run on their secrets.  *)
THEOREM RuntimeOnItsFiles == Spec => []RunsOnItsFiles
<1>1. WorkflowsInv => RunsOnItsFiles
  BY WorkflowsKeep, KindsDiffer DEF RunsOnItsFiles
<1> QED
  BY <1>1, WorkflowsInvariance, PTL

(* A restored instance is not started with parts of two states, whenever   *)
(* the agent crashed.                                                      *)
THEOREM RestoresRunWhole == Spec => []RestoreRunsWhole
<1>1. WorkflowsInv => RestoreRunsWhole
  BY WorkflowsKeep, KindsDiffer DEF RestoreRunsWhole
<1> QED
  BY <1>1, WorkflowsInvariance, PTL

(* A failed configuration job whose attempts were not cut off has put every *)
(* file back, its readiness marker included.                                *)
THEOREM ConfigurationsRestored == Spec => []ConfigurationRestored
<1>1. WorkflowsInv => ConfigurationRestored
  BY WorkflowsKeep, KindsDiffer DEF ConfigurationRestored
<1> QED
  BY <1>1, WorkflowsInvariance, PTL

(* No configuration job, and no rollback of one, starts a stopped instance.  *)
THEOREM StoppedInstancesStay == Spec => []StoppedStays
<1>1. WorkflowsInv => StoppedStays
  BY WorkflowsKeep, KindsDiffer DEF StoppedStays
<1> QED
  BY <1>1, WorkflowsInvariance, PTL

(* The status a failed first attempt leaves on record is the state of the   *)
(* runtime, unless it gives the instance up.                                *)
THEOREM FirstFailuresAreTrue == Spec => []FirstFailureIsTrue
<1>1. WorkflowsInv => FirstFailureIsTrue
  BY WorkflowsKeep, KindsDiffer DEF FirstFailureIsTrue, UpdateInv
<1> QED
  BY <1>1, WorkflowsInvariance, PTL
================================================================================
