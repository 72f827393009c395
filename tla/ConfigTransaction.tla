-------------------------- MODULE ConfigTransaction --------------------------
(***************************************************************************)
(* The three jobs that change the configuration of an instance on its      *)
(* host: instance.runtime.sync, instance.messaging.configure and           *)
(* instance.mcp.configure.  Each validates its target, remembers the files *)
(* it will change, changes them one at a time, verifies, recreates a       *)
(* running instance, and puts everything back when a step fails.           *)
(*                                                                         *)
(* A job is the sequence of its steps; a file is known by the version of   *)
(* its content.  "env" is the managed .env, for MCP the one in the data    *)
(* volume; "config" is config.yaml and "marker" the readiness marker.      *)
(***************************************************************************)
EXTENDS Naturals, Sequences

CONSTANTS
    Kinds,      \* the jobs under consideration
    MaxClaims,  \* jobLeaseMaxClaims
    FaultSets   \* what may go wrong in a behaviour

Commands == { "inspect", "write", "probe", "recreate", "rollback", "cancel", "crash" }

VARIABLES
    faults,     \* the fault set of this behaviour
    kind, want, \* the job's type and its DesiredStatus
    file,       \* the files on disk
    box,        \* state of the two containers
    on,         \* the files the containers were started with
    snap,       \* originalEnv, originalManifest, snapshotJSON
    todo,       \* steps left of the job, or of its rollback
    pc, failedUndo, cancelled, result, job, claims, status

vars == <<faults, kind, want, file, box, on, snap, todo, pc, failedUndo, cancelled,
          result, job, claims, status>>

Files == { "env", "manifest", "config", "marker" }
Old == [f \in Files |-> "old"]
NoResult == [ok |-> FALSE, status |-> "none"]

Init ==
    /\ faults \in FaultSets
    /\ kind \in Kinds /\ want \in { "RUNNING", "STOPPED" }
    /\ file = Old /\ on = Old /\ snap = Old /\ todo = <<>>
    /\ box = IF want = "RUNNING" THEN "running" ELSE "stopped"
    /\ pc = "idle" /\ failedUndo = FALSE /\ cancelled = FALSE /\ result = NoResult
    /\ job = "active" /\ claims = 0 /\ status = want

------------------------------------------------------------------------------
(* The jobs as sequences of steps.                                         *)

(* Mutant: a stopped instance is started with its new configuration.       *)
Running_Always(steps) == steps

Running(steps) == IF want = "RUNNING" THEN steps ELSE <<>>

runtimeStateApply == <<"config", "marker">>
messagingConfigApplyScript == <<"config", "marker">>
mcpConfigApplyScript == <<"env", "config", "marker">>

syncRuntimeConfiguration ==
    <<"env">> \o runtimeStateApply \o Running(<<"recreate", "health">>) \o <<"verify">>

configureMessaging ==
    <<"env", "manifest", "compose">> \o messagingConfigApplyScript \o <<"verify">>
        \o Running(<<"recreate", "health", "verify">>)

configureMCP ==
    mcpConfigApplyScript \o <<"verify">> \o Running(<<"recreate", "health">>) \o <<"report">>

Steps ==
    CASE kind = "runtime.sync" -> syncRuntimeConfiguration
      [] kind = "messaging" -> configureMessaging
      [] kind = "mcp" -> configureMCP

Owned == { f \in Files : \E i \in DOMAIN Steps : Steps[i] = f }

(* What a rollback does, in its order; a marker is restored by             *)
(* runtime.sync and removed by the other two.                              *)
runtimeConfigRestoreScript == <<"config", "marker">>
messagingConfigRestoreScript == <<"config", "marker">>
mcpConfigRestoreScript == <<"config", "env", "marker">>

Undo ==
    CASE kind = "runtime.sync" ->
            <<"env">> \o runtimeConfigRestoreScript \o Running(<<"recreate">>) \o <<"verify">>
      [] kind = "messaging" ->
            <<"env", "manifest">> \o messagingConfigRestoreScript \o Running(<<"recreate">>)
      [] kind = "mcp" -> mcpConfigRestoreScript \o Running(<<"recreate">>)

Restored(f) == IF f = "marker" /\ kind # "runtime.sync" THEN "none" ELSE snap[f]

------------------------------------------------------------------------------
MayFail(c) == cancelled \/ c \in faults

(* The rollback of an MCP change has a context of its own, the others      *)
(* derive theirs from the execution's.                                     *)
UndoMayFail == "rollback" \in faults \/ (cancelled /\ kind # "mcp")
UndoWorks == ~cancelled \/ kind = "mcp"

queue == <<faults, kind, want, job, claims, status>>

Return(ok, s) ==
    /\ pc' = "report" /\ result' = [ok |-> ok, status |-> s] /\ todo' = <<>>

Rollback ==
    /\ pc' = "undo" /\ todo' = Undo /\ failedUndo' = FALSE /\ UNCHANGED result

(* The containers are in the state the job expects.                        *)
validateMessagingTarget == box = IF want = "RUNNING" THEN "running" ELSE "stopped"
validateRuntimeSyncTarget == box = IF want = "RUNNING" THEN "running" ELSE "stopped"

(* downloadMessagingConfiguration and the revision of the leased job,      *)
(* verifyMCPServer, inspectRuntimeImageCapability.                         *)
PreconditionsHold ==
    IF kind = "runtime.sync" THEN validateRuntimeSyncTarget ELSE validateMessagingTarget

(* Validation and snapshot: nothing is changed yet.                        *)
Prepare ==
    /\ pc = "prepare"
    /\ \/ /\ ~PreconditionsHold \/ MayFail("inspect")
          /\ Return(FALSE, want) /\ UNCHANGED snap
       \/ /\ PreconditionsHold /\ ~cancelled
          /\ snap' = file /\ todo' = Steps /\ pc' = "run" /\ UNCHANGED result
    /\ UNCHANGED <<file, box, on, failedUndo, cancelled, queue>>

Next1 == IF Len(todo) = 1 THEN Return(TRUE, want) ELSE todo' = Tail(todo) /\ UNCHANGED <<pc, result>>

(* The agent's first write of a file: it fails before anything changed.    *)
Untouched == todo = Steps /\ kind # "mcp"

(* Mutant: a manifest that could not be written ends the job.              *)
Write_NoRollback ==
    /\ pc = "run" /\ Head(todo) \in Files
    /\ \/ ~cancelled /\ file' = [file EXCEPT ![Head(todo)] = "new"] /\ Next1 /\ UNCHANGED failedUndo
       \/ /\ MayFail("write") /\ UNCHANGED file
          /\ IF Untouched \/ Head(todo) = "manifest"
             THEN Return(FALSE, want) /\ UNCHANGED failedUndo ELSE Rollback
    /\ UNCHANGED <<box, on, snap, cancelled, queue>>

(* One file is replaced, by the agent or by a script in the data volume.   *)
Write ==
    /\ pc = "run" /\ Head(todo) \in Files
    /\ \/ ~cancelled /\ file' = [file EXCEPT ![Head(todo)] = "new"] /\ Next1 /\ UNCHANGED failedUndo
       \/ /\ MayFail("write") /\ UNCHANGED file
          /\ IF Untouched THEN Return(FALSE, want) /\ UNCHANGED failedUndo ELSE Rollback
    /\ UNCHANGED <<box, on, snap, cancelled, queue>>

(* verifyRuntimeState, verifyMessagingYAMLObservation and the MCP script:  *)
(* config and marker carry the revision of the job.                        *)
Verified == file["config"] = "new" /\ file["marker"] = "new"

(* compose config, the verifications, health and dashboard, progress.      *)
Probe ==
    /\ pc = "run" /\ Head(todo) \in { "compose", "verify", "health", "report" }
    /\ \/ /\ ~cancelled /\ (Head(todo) = "verify" => Verified)
          /\ Next1 /\ UNCHANGED failedUndo
       \/ (MayFail("probe") \/ (Head(todo) = "verify" /\ ~Verified)) /\ Rollback
    /\ UNCHANGED <<file, box, on, snap, cancelled, queue>>

(* compose up --force-recreate; a failure may leave half of it.            *)
Recreate ==
    /\ pc = "run" /\ Head(todo) = "recreate"
    /\ \/ ~cancelled /\ box' = "running" /\ on' = file /\ Next1 /\ UNCHANGED failedUndo
       \/ MayFail("recreate") /\ box' \in { box, "partial" } /\ UNCHANGED on /\ Rollback
    /\ UNCHANGED <<file, snap, cancelled, queue>>

------------------------------------------------------------------------------
(* The rollback.                                                           *)

(* What is still done after a failure: MCP gives up, a script ends at its  *)
(* first error, runtime.sync does not recreate after an error.             *)
AfterFailure ==
    CASE kind = "mcp" -> <<>>
      [] kind = "messaging" ->
            IF Head(todo) \in { "config", "marker" } THEN Running(<<"recreate">>) ELSE Tail(todo)
      [] kind = "runtime.sync" ->
            IF Head(todo) = "env" THEN runtimeConfigRestoreScript ELSE <<>>

UndoStep ==
    /\ pc = "undo" /\ todo # <<>>
    /\ \/ /\ UndoWorks /\ UNCHANGED failedUndo
          /\ todo' = IF failedUndo /\ kind = "runtime.sync" /\ Head(todo) = "marker"
                     THEN <<>> ELSE Tail(todo)
          /\ file' = IF Head(todo) \in Files THEN [file EXCEPT ![Head(todo)] = Restored(Head(todo))] ELSE file
          /\ IF Head(todo) = "recreate" THEN box' = "running" /\ on' = file ELSE UNCHANGED <<box, on>>
       \/ /\ UndoMayFail /\ failedUndo' = TRUE /\ todo' = AfterFailure /\ UNCHANGED <<file, on>>
          /\ IF Head(todo) = "recreate" THEN box' \in { box, "partial" } ELSE UNCHANGED box
    /\ UNCHANGED <<snap, pc, cancelled, result, queue>>

(* failedAfterChange.                                                      *)
UndoEnds ==
    /\ pc = "undo" /\ todo = <<>>
    /\ Return(FALSE, IF failedUndo THEN "FAILED" ELSE want)
    /\ UNCHANGED <<file, box, on, snap, failedUndo, cancelled, queue>>

------------------------------------------------------------------------------
(* The job around the execution.                                           *)

(* completeJob; a result of a canceled execution is dropped.               *)
Report ==
    /\ pc = "report" /\ pc' = "idle"
    /\ \/ ~cancelled /\ job' = (IF result.ok THEN "done" ELSE "failed") /\ status' = result.status
       \/ cancelled /\ UNCHANGED <<job, status>>
    /\ UNCHANGED <<faults, kind, want, file, box, on, snap, todo, failedUndo, cancelled, result, claims>>

Cancel ==
    /\ "cancel" \in faults /\ pc # "idle" /\ ~cancelled /\ cancelled' = TRUE
    /\ UNCHANGED <<file, box, on, snap, todo, pc, failedUndo, result, queue>>

Crash ==
    /\ "crash" \in faults /\ pc # "idle" /\ pc' = "idle" /\ todo' = <<>>
    /\ UNCHANGED <<file, box, on, snap, failedUndo, cancelled, result, queue>>

(* Mutant: a lost job is never given up.                                   *)
GiveUp_Late ==
    /\ pc = "idle" /\ job = "active" /\ claims > MaxClaims
    /\ job' = "failed" /\ status' = "FAILED"
    /\ UNCHANGED <<faults, kind, want, file, box, on, snap, todo, pc, failedUndo, cancelled, result, claims>>

Claim ==
    /\ pc = "idle" /\ job = "active" /\ claims < MaxClaims
    /\ claims' = claims + 1 /\ pc' = "prepare" /\ cancelled' = FALSE /\ result' = NoResult
    /\ UNCHANGED <<faults, kind, want, file, box, on, snap, todo, failedUndo, job, status>>

(* failExpiredJobLease.                                                    *)
GiveUp ==
    /\ pc = "idle" /\ job = "active" /\ claims = MaxClaims
    /\ job' = "failed" /\ status' = "FAILED"
    /\ UNCHANGED <<faults, kind, want, file, box, on, snap, todo, pc, failedUndo, cancelled, result, claims>>

Step == Prepare \/ Write \/ Probe \/ Recreate \/ UndoStep \/ UndoEnds \/ Report

Next == Step \/ Cancel \/ Crash \/ Claim \/ GiveUp

(* The agent goes on, its host polls, leases run out.                      *)
Spec == Init /\ [][Next]_vars /\ WF_vars(Step) /\ WF_vars(Claim) /\ WF_vars(GiveUp)

------------------------------------------------------------------------------
Is(version, files) == \A f \in Owned \ { "marker" } : files[f] = version

(* A job recorded as done has changed every file it owns, and a running    *)
(* instance was started with all of them, whatever earlier attempts that   *)
(* crashed or were canceled left behind.                                   *)
SuccessApplied ==
    job = "done" =>
        /\ Is("new", file) /\ file["marker"] = "new"
        /\ want = "RUNNING" => box = "running" /\ Is("new", on)

(* "Any post-write failure restores the previous environment, manifest,    *)
(* and Hermes YAML before the job completes": a job that failed without    *)
(* giving the instance up has the files it started with, and a running     *)
(* instance runs on them.                                                  *)
FailureRestored ==
    job = "failed" /\ status # "FAILED" =>
        /\ Is("old", file)
        /\ want = "RUNNING" => box = "running" /\ Is("old", on)

(* The same when attempts were canceled, one of which may have succeeded   *)
(* without being recorded: the files the instance is left with belong to   *)
(* one configuration, and its containers run on that one.                  *)
FailureWhole ==
    job = "failed" /\ status # "FAILED" =>
        \E version \in { "old", "new" } :
            Is(version, file) /\ (want = "RUNNING" => Is(version, on))

(* A stopped instance stays stopped, in the rollback too.                  *)
StoppedStays == want = "STOPPED" => box = "stopped"

(* The readiness marker of a revision is never found with the files of     *)
(* another once a job has settled and the instance is in service.          *)
MarkerMatches ==
    job # "active" /\ status # "FAILED" /\ file["marker"] = "new" => file["config"] = "new"
==============================================================================
