---------------------------- MODULE RuntimeJobs -----------------------------
(***************************************************************************)
(* The jobs of one instance on its host that are not transactions of their *)
(* own: provision, lifecycle (start, stop, delete), repairRuntime,         *)
(* reconcileImage and repairImage, one after the other as the operator     *)
(* asks for them.  Every command may fail half-way, an execution may be    *)
(* canceled, the agent may crash, and the job is then claimed again.       *)
(*                                                                         *)
(* On the host there are the two managed files and the two containers of   *)
(* the Compose project.  A container carries the immutable ID of its image *)
(* and the secrets (.env) it was created with.  Secrets are known by the   *)
(* attempt that generated them.                                            *)
(***************************************************************************)
EXTENDS FleetDomain, Integers, FiniteSets

CONSTANTS
    MaxClaims,  \* jobLeaseMaxClaims
    MaxJobs     \* bound: jobs of a behaviour

VARIABLES
    kind, before, phase,    \* the job's type, the status it was queued from, repair phase
    env, compose,           \* .env and compose.yaml
    box,                    \* the containers
    tag,                    \* the image ID the image reference resolves to
    meta, imageID,          \* runtime metadata and image ID of the instance row
    jobs,                   \* jobs queued so far
    honest,                 \* history: the row was true when the job was queued
    pc, cancelled, result, job, claims,
    status                  \* of the instance row

host == <<env, compose, box, tag>>
row == <<meta, imageID, jobs, honest, job, claims, status, kind, before, phase>>
vars == <<host, row, pc, cancelled, result>>

Services == { "hermes", "dashboard" }
Kinds == { "provision", "start", "stop", "delete", "runtime.repair",
           "image.reconcile", "image.repair" }

(* A file is absent, cut off, or complete.                                 *)
Absent == 0
Torn == -1
Gone == [state |-> "none", image |-> "none", env |-> Absent]
NoResult == [ok |-> FALSE, status |-> "none", image |-> "none"]

All(state) == \A s \in Services : box[s].state = state
Existing == { s \in Services : box[s].state # "none" }

(* The row says RUNNING or STOPPED and the containers are.                 *)
StatusTrue ==
    /\ status = "RUNNING" => All("running")
    /\ status = "STOPPED" => \A s \in Services : box[s].state # "running"

(* A new instance whose image may have to be built, or one that has been   *)
(* provisioned earlier.                                                    *)
Init ==
    /\ pc = "idle" /\ cancelled = FALSE /\ result = NoResult /\ claims = 0
    /\ phase = 1 /\ jobs = 0 /\ honest = TRUE /\ kind = "provision" /\ before = "NONE"
    /\ \/ /\ job = "active" /\ status = "PROVISIONING" /\ tag \in { "none", "a" }
          /\ env = Absent /\ compose = Absent /\ box = [s \in Services |-> Gone]
          /\ meta = FALSE /\ imageID = "none"
       \/ /\ job = "none" /\ status \in { "RUNNING", "STOPPED" } /\ tag = "a"
          /\ env = 1 /\ compose = 1 /\ meta = TRUE /\ imageID = "a"
          /\ box = [s \in Services |->
                      [state |-> IF status = "RUNNING" THEN "running" ELSE "stopped",
                       image |-> "a", env |-> 1]]

Goto(l) == pc' = l /\ UNCHANGED result
Return(ok, s, image) == pc' = "report" /\ result' = [ok |-> ok, status |-> s, image |-> image]
Fail == Return(FALSE, "none", "none")
Succeed == Return(TRUE, "none", result.image)

Started(c) == [c EXCEPT !.state = IF @ = "none" THEN "none" ELSE "running"]
Stopped(c) == [c EXCEPT !.state = IF @ = "none" THEN "none" ELSE "stopped"]
Created == [state |-> "running", image |-> tag, env |-> env]

(* Each container is where a command left it.                              *)
Each(outcomes(_)) ==
    { b \in [Services -> UNION { outcomes(s) : s \in Services }] :
        \A s \in Services : b[s] \in outcomes(s) }

------------------------------------------------------------------------------
(* provision.                                                              *)

(* An earlier attempt left none or both of the containers; one alone is    *)
(* refused.                                                                *)
provisionRetryOwnsPorts == Cardinality(Existing) # 1

(* prepareHermesImage builds the image of a release, which a retry does    *)
(* not name.                                                               *)
Prepared(l) ==
    /\ pc' = l
    /\ \/ UNCHANGED <<tag, result>>
       \/ /\ before = "NONE"
          /\ tag' = IF tag = "none" THEN "a" ELSE tag
          /\ result' = [result EXCEPT !.image = tag']

(* Mutant: files that are there are written again.                         *)
ProvisionBegin_Rewrites ==
    /\ pc = "begin" /\ kind = "provision" /\ ~cancelled
    /\ Prepared("env")
    /\ UNCHANGED <<env, compose, box, row, cancelled>>

(* Both files or none, an unchanged manifest, the ports, the image.        *)
ProvisionBegin ==
    /\ pc = "begin" /\ kind = "provision"
    /\ \/ Fail /\ UNCHANGED tag
       \/ ~cancelled /\ env = Absent /\ compose = Absent /\ Prepared("env")
       \/ /\ ~cancelled /\ env # Absent /\ compose = 1 /\ provisionRetryOwnsPorts
          /\ Prepared("image")
    /\ UNCHANGED <<env, compose, box, row, cancelled>>

(* writeExclusiveContext creates the file ...                              *)
OpenFile ==
    /\ pc \in { "env", "compose" }
    /\ \/ Fail /\ UNCHANGED <<env, compose>>
       \/ ~cancelled /\ pc = "env" /\ env' = Torn /\ Goto("envOpen") /\ UNCHANGED compose
       \/ ~cancelled /\ pc = "compose" /\ compose' = Torn /\ Goto("composeOpen") /\ UNCHANGED env
    /\ UNCHANGED <<box, tag, row, cancelled>>

(* ... and writes it, or removes it again.                                 *)
WriteFile ==
    /\ \/ /\ pc = "envOpen" /\ UNCHANGED compose
          /\ \/ env' = Absent /\ Fail
             \/ ~cancelled /\ env' = jobs * MaxClaims + claims + 1 /\ Goto("compose")
       \/ /\ pc = "composeOpen" /\ UNCHANGED env
          /\ \/ compose' = Absent /\ Fail
             \/ ~cancelled /\ compose' = 1 /\ Goto("image")
    /\ UNCHANGED <<box, tag, row, cancelled>>

(* The immutable ID of the image, unless it was just prepared.             *)
InspectImage ==
    /\ pc = "image"
    /\ \/ result.image = "none" /\ Fail
       \/ result.image # "none" /\ Goto("up")
       \/ /\ result.image = "none" /\ ~cancelled /\ tag # "none"
          /\ pc' = "up" /\ result' = [result EXCEPT !.image = tag]
    /\ UNCHANGED <<host, row, cancelled>>

------------------------------------------------------------------------------
(* Commands on the Compose project.                                        *)

(* compose up: containers whose image or environment changed are           *)
(* recreated.                                                              *)
ComposeUp ==
    /\ pc = "up"
    /\ \/ /\ ~cancelled /\ box' = [s \in Services |-> Created]
          /\ Goto(IF kind = "runtime.repair" /\ phase = 1 THEN "restart" ELSE "verify")
       \/ /\ box' \in Each(LAMBDA s : { box[s], Stopped(box[s]), Gone, Created })
          /\ Fail
    /\ UNCHANGED <<env, compose, tag, row, cancelled>>

ComposeRestart ==
    /\ pc = "restart"
    /\ \/ ~cancelled /\ Goto("verify") /\ UNCHANGED box
       \/ box' \in Each(LAMBDA s : { box[s], Stopped(box[s]) }) /\ Fail
    /\ UNCHANGED <<env, compose, tag, row, cancelled>>

(* waitForHealth and verifyRuntimeLifecycle: ready, not ready, or to be    *)
(* migrated first (ensureManagedRuntimeReadyWithTimeout).                  *)
Verify ==
    /\ pc = "verify"
    /\ \/ ~cancelled /\ All("running") /\ Succeed
       \/ Fail
       \/ ~cancelled /\ Goto("migrate")
    /\ UNCHANGED <<host, row, cancelled>>

Migrate ==
    /\ pc = "migrate"
    /\ \/ ~cancelled /\ box' = [s \in Services |-> Created] /\ Succeed
       \/ /\ box' \in Each(LAMBDA s : { box[s], Stopped(box[s]), Gone, Created })
          /\ Fail
    /\ UNCHANGED <<env, compose, tag, row, cancelled>>

------------------------------------------------------------------------------
(* lifecycle and repairRuntime.                                            *)

(* safeManagedPath, for recorded metadata.                                 *)
safeManagedPath == meta /\ compose # Absent

(* prepareRuntimeLifecycle writes the manifest anew; the reference must    *)
(* still be the recorded image.                                            *)
PrepareLifecycle ==
    /\ pc = "begin" /\ kind \in { "start", "runtime.repair" }
    /\ \/ Fail /\ UNCHANGED compose
       \/ /\ ~cancelled /\ safeManagedPath /\ env # Absent /\ tag = imageID
          /\ compose' = 1
          /\ Goto(IF kind = "runtime.repair" /\ phase = 3 THEN "down" ELSE "up")
    /\ UNCHANGED <<env, box, tag, row, cancelled>>

StopBegin ==
    /\ pc = "begin" /\ kind = "stop"
    /\ \/ Fail
       \/ safeManagedPath /\ Goto("stop")
    /\ UNCHANGED <<host, row, cancelled>>

(* Without a manifest the record is retired; a manifest without metadata   *)
(* is refused.                                                             *)
DeleteBegin ==
    /\ pc = "begin" /\ kind = "delete"
    /\ \/ Fail
       \/ compose = Absent /\ Succeed
       \/ safeManagedPath /\ Goto("down")
    /\ UNCHANGED <<host, row, cancelled>>

ComposeStop ==
    /\ pc = "stop"
    /\ \/ /\ ~cancelled /\ box' = [s \in Services |-> Stopped(box[s])]
          /\ IF kind = "stop" THEN Succeed ELSE Goto("recheck")
       \/ /\ box' \in Each(LAMBDA s : { box[s], Stopped(box[s]) })
          /\ IF kind = "stop" THEN Fail ELSE Return(FALSE, "FAILED", "none")
    /\ UNCHANGED <<env, compose, tag, row, cancelled>>

(* compose down: the volume stays.                                         *)
ComposeDown ==
    /\ pc = "down"
    /\ \/ /\ ~cancelled /\ box' = [s \in Services |-> Gone]
          /\ IF kind = "delete" THEN Succeed ELSE Goto("up")
       \/ /\ box' \in Each(LAMBDA s : { box[s], Stopped(box[s]), Gone })
          /\ Fail
    /\ UNCHANGED <<env, compose, tag, row, cancelled>>

------------------------------------------------------------------------------
(* reconcileImage and repairImage.                                         *)

Restart == before = "RUNNING"

(* Files and containers in the wanted state, all of one image, and that is *)
(* the image of the reference.                                             *)
verifyImageCandidate(running) ==
    /\ safeManagedPath /\ env # Absent
    /\ All(IF running THEN "running" ELSE "stopped")
    /\ \A s \in Services : box[s].image = tag

ReconcileImage ==
    /\ pc = "begin" /\ kind = "image.reconcile"
    /\ \/ Return(FALSE, "STOPPED", "none")
       \/ ~cancelled /\ verifyImageCandidate(FALSE) /\ Return(TRUE, "STOPPED", tag)
    /\ UNCHANGED <<host, row, cancelled>>

RepairImage ==
    /\ pc = "begin" /\ kind = "image.repair"
    /\ \/ Return(FALSE, before, "none")
       \/ /\ ~cancelled /\ verifyImageCandidate(Restart)
          /\ IF Restart THEN Goto("stop") ELSE Return(TRUE, "STOPPED", tag)
    /\ UNCHANGED <<host, row, cancelled>>

(* The second verification, of the stopped containers.                     *)
RecheckImage ==
    /\ pc = "recheck"
    /\ \/ /\ ~cancelled /\ verifyImageCandidate(FALSE)
          /\ pc' = "start" /\ result' = [result EXCEPT !.image = tag]
       \/ Goto("restore")
    /\ UNCHANGED <<host, row, cancelled>>

ComposeStart ==
    /\ pc = "start"
    /\ \/ /\ ~cancelled /\ box' = [s \in Services |-> Started(box[s])]
          /\ Return(TRUE, "RUNNING", result.image)
       \/ /\ box' \in Each(LAMBDA s : { box[s], Started(box[s]) })
          /\ Return(FALSE, "FAILED", "none")
    /\ UNCHANGED <<env, compose, tag, row, cancelled>>

(* Mutant: the original state is reported, the runtime stays stopped.      *)
failedImageRepairWithRestore_NotStarted ==
    /\ pc = "restore" /\ Return(FALSE, before, "none")
    /\ UNCHANGED <<host, row, cancelled>>

failedImageRepairWithRestore ==
    /\ pc = "restore"
    /\ \/ /\ ~cancelled /\ box' = [s \in Services |-> Started(box[s])]
          /\ Return(FALSE, "RUNNING", "none")
       \/ /\ box' \in Each(LAMBDA s : { box[s], Started(box[s]) })
          /\ Return(FALSE, "FAILED", "none")
    /\ UNCHANGED <<env, compose, tag, row, cancelled>>

------------------------------------------------------------------------------
(* The job around the execution.                                           *)

OutcomeStatus ==
    IF kind = "image.repair" THEN result.status
    ELSE CHOOSE s \in (IF result.ok THEN statusAfterSuccess(kind, before)
                                    ELSE statusAfterFailure(kind, before)) : TRUE

(* CompleteJob: a result of provision carries the metadata, a success of   *)
(* provision and of the image jobs the image ID.                           *)
Report ==
    /\ pc = "report" /\ pc' = "idle"
    /\ \/ /\ ~cancelled
          /\ job' = IF result.ok THEN "done" ELSE "failed"
          /\ status' = OutcomeStatus
          /\ meta' = (meta \/ kind = "provision")
          /\ imageID' = IF result.ok /\ kind \in { "provision", "image.reconcile", "image.repair" }
                        THEN result.image ELSE imageID
       \/ cancelled /\ UNCHANGED <<job, status, meta, imageID>>
    /\ UNCHANGED <<host, jobs, honest, claims, kind, before, phase, cancelled, result>>

(* instanceAction: the operator asks for the next job.                     *)
Request(k) ==
    /\ pc = "idle" /\ job # "active" /\ jobs < MaxJobs
    /\ status \in QueueableFrom(k)
    /\ k \in { "runtime.repair", "image.reconcile", "image.repair" } => meta /\ imageID # "none"
    /\ kind' = k /\ before' = status /\ status' = QueuedStatus(k)
    /\ phase' \in IF k = "runtime.repair" THEN 1 .. 3 ELSE { 1 }
    /\ honest' = StatusTrue /\ jobs' = jobs + 1 /\ job' = "active" /\ claims' = 0
    /\ UNCHANGED <<host, meta, imageID, pc, cancelled, result>>

Claim ==
    /\ pc = "idle" /\ job = "active" /\ claims < MaxClaims
    /\ claims' = claims + 1 /\ pc' = "begin" /\ cancelled' = FALSE /\ result' = NoResult
    /\ UNCHANGED <<host, meta, imageID, jobs, honest, job, status, kind, before, phase>>

(* failExpiredJobLease.                                                    *)
GiveUp ==
    /\ pc = "idle" /\ job = "active" /\ claims = MaxClaims
    /\ job' = "failed" /\ status' = statusAfterExpiry(kind, before)
    /\ UNCHANGED <<host, meta, imageID, jobs, honest, claims, kind, before, phase,
                   pc, cancelled, result>>

Cancel ==
    /\ pc # "idle" /\ ~cancelled /\ cancelled' = TRUE
    /\ UNCHANGED <<host, row, pc, result>>

Crash ==
    /\ pc # "idle" /\ pc' = "idle"
    /\ UNCHANGED <<host, row, cancelled, result>>

(* The image reference is built anew by hand.                              *)
Retag ==
    /\ tag = "a" /\ tag' = "b"
    /\ UNCHANGED <<env, compose, box, row, pc, cancelled, result>>

Step ==
    \/ ProvisionBegin \/ OpenFile \/ WriteFile \/ InspectImage
    \/ ComposeUp \/ ComposeRestart \/ Verify \/ Migrate
    \/ PrepareLifecycle \/ StopBegin \/ DeleteBegin \/ ComposeStop \/ ComposeDown
    \/ ReconcileImage \/ RepairImage \/ RecheckImage \/ ComposeStart
    \/ failedImageRepairWithRestore \/ Report

Next == Step \/ (\E k \in Kinds : Request(k)) \/ Claim \/ GiveUp \/ Cancel \/ Crash \/ Retag

Spec == Init /\ [][Next]_vars /\ WF_vars(Step) /\ WF_vars(Claim) /\ WF_vars(GiveUp)

------------------------------------------------------------------------------
(* A success that is recorded is true on the host, whatever earlier jobs   *)
(* and attempts left behind: the containers run, are stopped or gone, and  *)
(* an image job has recorded the image they really use.                    *)
SuccessIsTrue ==
    job = "done" =>
        /\ kind \in { "provision", "start", "runtime.repair" } => All("running")
        /\ kind = "stop" => \A s \in Services : box[s].state # "running"
        /\ kind = "delete" => All("none")
        /\ kind \in { "image.reconcile", "image.repair" } =>
              \A s \in Services : box[s].image = imageID

(* There are containers only where both files were written completely, and *)
(* they run on the secrets in the file: no retry generates new ones under  *)
(* a running instance.                                                     *)
RunsOnItsFiles ==
    \A s \in Existing : env > 0 /\ compose = 1 /\ box[s].env = env

(* A failure that leaves the instance RUNNING or STOPPED is true, if the   *)
(* row was true when the job was queued: for the first attempt of a job,   *)
(* except a runtime repair, whose RUNNING is the desired state.            *)
FirstFailureIsTrue ==
    job = "failed" /\ honest /\ claims = 1 /\ kind # "runtime.repair" => StatusTrue

(* The same for every attempt.                                             *)
FailureIsTrue ==
    job = "failed" /\ honest /\ kind # "runtime.repair" => StatusTrue
=============================================================================
