-------------------------- MODULE RuntimeRemediation --------------------------
(***************************************************************************)
(* Automatic repair of one instance whose runtime drifts: the reports the  *)
(* Host Agent posts, the handler agentObservations that validates, records *)
(* and tracks them in separate transactions, the row of the instance in    *)
(* runtime_remediation_state, and the repair job.  Handlers run            *)
(* concurrently and may die between two transactions; a report may arrive  *)
(* late, twice or out of order.                                            *)
(*                                                                         *)
(* gen is instances.updated_at, which every lifecycle change moves;        *)
(* recv numbers stand for the server's receipt times.  The lease of the    *)
(* repair job is JobStore's matter: here it ends in success or failure.    *)
(***************************************************************************)
EXTENDS Integers, FiniteSets, FiniteSetsExt

CONSTANTS
    Handlers,          \* concurrent requests to agentObservations
    MaxReports,        \* bound: reports the Host Agent makes
    MaxArrivals,       \* bound: reports that pass the sequence check
    MaxEdits,          \* bound: other lifecycle jobs of the operator
    Checks,            \* the health verdicts a report may carry
    AttemptsPerPhase,  \* runtimeRemediationAttemptsPerPhase
    MaxPhases,         \* runtimeRemediationMaxPhases
    DriftThreshold,    \* runtimeRemediationDriftThreshold
    RetryDelay,        \* runtimeRemediationRetryDelay in ticks, doubled once
    Cooldown           \* runtimeRemediationCooldown in ticks

(* runtimeHealthCheckStatus and runtimeRepairPrerequisitesOK: NONE is a      *)
(* report without a health check, UNSAFE drift without the prerequisites of  *)
(* a repair.                                                                 *)
HealthChecks == { "NONE", "OK", "UNKNOWN", "DRIFT", "UNSAFE" }

MaxAttempts == AttemptsPerPhase * MaxPhases

ASSUME ChecksAssumption == Checks \subseteq HealthChecks
ASSUME LimitsAssumption ==
    /\ MaxReports \in Nat /\ MaxArrivals \in Nat /\ MaxEdits \in Nat
    /\ AttemptsPerPhase \in Nat \ {0} /\ MaxPhases \in Nat \ {0}
    /\ DriftThreshold \in Nat \ {0} /\ RetryDelay \in Nat /\ Cooldown \in Nat

VARIABLES
    inst,      \* RUNNING, RESTARTING, BUSY, CONFIGURING under a job, STOPPED (or FAILED)
    gen,       \* instances.updated_at
    rev,       \* the desired revision of the runtime
    edits,     \* operator jobs so far
    observed,  \* reports made so far, observed_at of the latest
    reports,   \* the reports under way that the sequence check may still pass
    arrivals,  \* receipt times handed out
    stored,    \* the row of instance_observations
    row,       \* the row of runtime_remediation_state
    handler,   \* where each request stands
    canceler,  \* where the operator's cancel request stands
    repairs,   \* history: repairs since anything but drift was seen
    stopped    \* history: recovery canceled, and nothing but drift seen since

obsVars == <<observed, reports, arrivals, stored>>
history == <<repairs, stopped>>
vars == <<inst, gen, rev, edits, obsVars, row, handler, canceler, history>>

NoReport == [gen |-> 0, at |-> 0, check |-> "NONE"]
NoStored == [gen |-> 0, at |-> 0, recv |-> 0, check |-> "NONE"]
NoRow == [status |-> "NONE", wf |-> 0, rev |-> 0, phase |-> 1, attempt |-> 0, total |-> 0,
          drift |-> 0, seen |-> 0, wait |-> 0]
NoPlan == [wf |-> 0, phase |-> 1, attempt |-> 0, total |-> 0, wait |-> 0]
Idle == [pc |-> "idle", obs |-> NoReport, recv |-> 0, plan |-> NoPlan]

Init ==
    /\ inst = "RUNNING" /\ gen = 1 /\ rev = 1 /\ edits = 0
    /\ observed = 0 /\ reports = {} /\ arrivals = 0 /\ stored = NoStored
    /\ row = NoRow
    /\ handler = [p \in Handlers |-> Idle]
    /\ canceler = "idle"
    /\ repairs = 0 /\ stopped = FALSE

------------------------------------------------------------------------------
(* The Host Agent observes; ListObservationTargets offers instances at rest. *)

isObservableInstanceStatus(s) == s \in { "RUNNING", "STOPPED" }

Observe(check) ==
    /\ observed < MaxReports
    /\ isObservableInstanceStatus(inst)
    /\ observed' = observed + 1
    /\ reports' = reports \cup { [gen |-> gen, at |-> observed + 1, check |-> check] }
    /\ UNCHANGED <<inst, gen, rev, edits, arrivals, stored, row, handler, canceler, history>>

(* Every change of status moves updated_at: the reports under way are void.  *)
Moves(status) ==
    /\ inst' = status /\ gen' = gen + 1 /\ reports' = {}
    /\ UNCHANGED <<observed, arrivals, stored>>

(* A report that names the present state and is newer than the stored one.   *)
InSequence(r) == r.gen = gen /\ (stored.gen = r.gen => r.at > stored.at)

(* agentObservations up to validateObservationSequence; a report out of      *)
(* sequence is answered 409 and forgotten.                                   *)
ValidateObservationSequence(p, r) ==
    /\ handler[p].pc = "idle" /\ arrivals < MaxArrivals
    /\ InSequence(r)
    /\ arrivals' = arrivals + 1
    /\ handler' = [handler EXCEPT ![p] =
                    [pc |-> "validated", obs |-> r, recv |-> arrivals + 1, plan |-> NoPlan]]
    /\ UNCHANGED <<inst, gen, rev, edits, observed, reports, stored, row, canceler, history>>

(* The receipt time never goes back within a generation.                     *)
RecordObservations(p) ==
    LET r == handler[p].obs
        recv == handler[p].recv
    IN /\ handler[p].pc = "validated"
       /\ stored' = IF isObservableInstanceStatus(inst) /\ InSequence(r)
                    THEN [gen |-> r.gen, at |-> r.at, check |-> r.check,
                          recv |-> IF stored.gen = r.gen /\ stored.recv > recv
                                   THEN stored.recv ELSE recv]
                    ELSE stored
       /\ reports' = { q \in reports : stored'.gen = q.gen => q.at > stored'.at }
       /\ handler' = [handler EXCEPT ![p].pc = "recorded"]
       /\ UNCHANGED <<inst, gen, rev, edits, observed, arrivals, row, canceler, history>>

------------------------------------------------------------------------------
(* Tracking.                                                               *)

(* Mutant: a new phase keeps the attempts of the one before.                 *)
NextAttempt_Carried(r) ==
    LET open == r.attempt >= AttemptsPerPhase /\ r.phase < MaxPhases
    IN [wf |-> r.wf, phase |-> IF open THEN r.phase + 1 ELSE r.phase,
        attempt |-> r.attempt + 1, total |-> r.total + 1, wait |-> RetryDelay]

(* The next attempt after phase, attempt and total, and the pause after it.  *)
NextAttempt(r) ==
    LET open == r.attempt >= AttemptsPerPhase /\ r.phase < MaxPhases
        attempt == IF open THEN 1 ELSE r.attempt + 1
    IN [wf |-> r.wf, phase |-> IF open THEN r.phase + 1 ELSE r.phase,
        attempt |-> attempt, total |-> r.total + 1,
        wait |-> CASE r.total + 1 >= MaxAttempts -> 0
                   [] r.total + 1 < MaxAttempts /\ attempt < AttemptsPerPhase ->
                        IF attempt = 2 THEN 2 * RetryDelay ELSE RetryDelay
                   [] OTHER -> Cooldown]

(* The row as the observation finds it: a new workflow, or the old one.      *)
Workflow(wf) ==
    IF row = NoRow \/ row.rev # rev THEN [NoRow EXCEPT !.status = "MONITORING", !.wf = wf, !.rev = rev]
    ELSE row

(* One more drift observation; consecutive_drift only matters up to its      *)
(* threshold and is cut there.                                               *)
Counted(w) ==
    LET spent == w.total >= MaxAttempts /\ w.status # "CANCELED"
    IN [w EXCEPT !.drift = IF @ < DriftThreshold THEN @ + 1 ELSE @,
                 !.seen = stored.recv,
                 !.status = IF spent THEN "EXHAUSTED" ELSE @,
                 !.wait = IF spent THEN 0 ELSE @]

(* Mutant: an operator's cancellation does not keep a repair from starting.  *)
Ready_Canceled(w) == w.status # "EXHAUSTED" /\ w.drift >= DriftThreshold /\ w.wait = 0

Ready(w) ==
    /\ w.status \notin { "CANCELED", "EXHAUSTED" }
    /\ w.drift >= DriftThreshold /\ w.wait = 0
    /\ w.total < MaxAttempts

TrackRuntimeHealthObservation(p) ==
    LET r == handler[p].obs
        current == stored.gen = r.gen /\ stored.at = r.at
        drifts == inst = "RUNNING" /\ r.check = "DRIFT"
        fresh == row = NoRow \/ row.rev # rev \/ stored.recv > row.seen
        ignored == r.check = "NONE" \/ ~current \/ (drifts /\ ~fresh)
        w == Counted(Workflow(handler[p].recv))
    IN /\ handler[p].pc = "recorded"
       /\ \/ /\ ignored
             /\ handler' = [handler EXCEPT ![p] = Idle]
             /\ UNCHANGED <<row, history>>
          \/ /\ ~ignored /\ ~drifts
             /\ row' = NoRow
             /\ handler' = [handler EXCEPT ![p] = Idle]
             /\ IF r.check = "DRIFT" THEN UNCHANGED history
                ELSE repairs' = 0 /\ stopped' = FALSE
          \/ /\ ~ignored /\ drifts /\ ~Ready(w)
             /\ row' = w
             /\ handler' = [handler EXCEPT ![p] = Idle]
             /\ UNCHANGED history
          \/ /\ ~ignored /\ drifts /\ Ready(w)
             /\ row' = [w EXCEPT !.status = "READY"]
             /\ handler' = [handler EXCEPT ![p].pc = "decided", ![p].plan = NextAttempt(w)]
             /\ UNCHANGED history
       /\ UNCHANGED <<inst, gen, rev, edits, obsVars, canceler>>

(* queueAutomaticRuntimeRepair and QueueRuntimeRepair.                       *)
QueueRuntimeRepair(p) ==
    LET plan == handler[p].plan
    IN /\ handler[p].pc = "decided"
       /\ inst = "RUNNING"
       /\ row.status = "READY" /\ row.wf = plan.wf
       /\ Moves("RESTARTING")
       /\ row' = [row EXCEPT !.status = "QUEUED", !.phase = plan.phase, !.attempt = plan.attempt,
                             !.total = plan.total, !.wait = plan.wait]
       /\ handler' = [handler EXCEPT ![p] = Idle]
       /\ repairs' = repairs + 1
       /\ UNCHANGED <<rev, edits, canceler, stopped>>

(* The state has changed, the instance is busy with an inspection or a chat,  *)
(* the host queue is full, or the host is offline.                            *)
RepairRefused(p) ==
    /\ handler[p].pc = "decided"
    /\ handler' = [handler EXCEPT ![p].pc = "refused"]
    /\ UNCHANGED <<inst, gen, rev, edits, obsVars, row, canceler, history>>

RecordRuntimeRemediationQueueFailure(p) ==
    /\ handler[p].pc = "refused"
    /\ row' = IF row.status = "READY" THEN [row EXCEPT !.status = "WAITING", !.wait = RetryDelay]
              ELSE row
    /\ handler' = [handler EXCEPT ![p] = Idle]
    /\ UNCHANGED <<inst, gen, rev, edits, obsVars, canceler, history>>

(* The client is gone or the control plane restarts between transactions.     *)
HandlerDies(p) ==
    /\ handler[p].pc # "idle"
    /\ handler' = [handler EXCEPT ![p] = Idle]
    /\ UNCHANGED <<inst, gen, rev, edits, obsVars, row, canceler, history>>

------------------------------------------------------------------------------
(* The repair job and the operator.                                        *)

(* Mutant: a failed repair leaves the row QUEUED.                            *)
AfterRepair_Kept(ok) == IF row.status = "QUEUED" /\ ok THEN [row EXCEPT !.status = "VERIFYING"] ELSE row

(* CompleteJobWithHash and failExpiredJobLease on a runtime.repair job.      *)
AfterRepair(ok) ==
    IF row.status # "QUEUED" THEN row
    ELSE [row EXCEPT !.status = IF ok THEN "VERIFYING"
                                ELSE IF row.total >= MaxAttempts THEN "EXHAUSTED"
                                ELSE IF row.attempt >= AttemptsPerPhase THEN "COOLDOWN"
                                ELSE "WAITING"]

RepairEnds(ok) ==
    /\ inst = "RESTARTING"
    /\ Moves("RUNNING")
    /\ row' = AfterRepair(ok)
    /\ UNCHANGED <<rev, edits, handler, canceler, history>>

(* cancelRuntimeRemediation: the handler's look at the instance ...           *)
RequestCancel ==
    /\ canceler = "idle" /\ inst # "RESTARTING"
    /\ canceler' = "checked"
    /\ UNCHANGED <<inst, gen, rev, edits, obsVars, row, handler, history>>

(* ... and the update, refused when there is nothing left to cancel.          *)
CancelRuntimeRemediation ==
    LET active == row.status \notin { "NONE", "CANCELED", "EXHAUSTED" }
    IN /\ canceler = "checked"
       /\ canceler' = "idle"
       /\ row' = IF active THEN [row EXCEPT !.status = "CANCELED", !.wait = 0] ELSE row
       /\ stopped' = (stopped \/ (active /\ inst = "RUNNING"))
       /\ UNCHANGED <<inst, gen, rev, edits, obsVars, handler, repairs>>

(* Jobs the operator queues.  QueueAction forgets the row, unless the job is  *)
(* a manual repair; the configuration queues leave it.                        *)
OperatorAction ==
    /\ edits < MaxEdits /\ isObservableInstanceStatus(inst)
    /\ Moves("BUSY") /\ edits' = edits + 1
    /\ row' = NoRow
    /\ repairs' = 0 /\ stopped' = FALSE
    /\ UNCHANGED <<rev, handler, canceler>>

OperatorConfiguration ==
    /\ edits < MaxEdits /\ isObservableInstanceStatus(inst)
    /\ Moves("CONFIGURING") /\ edits' = edits + 1
    /\ repairs' = 0 /\ stopped' = FALSE
    /\ UNCHANGED <<rev, row, handler, canceler>>

ManualRepair ==
    /\ edits < MaxEdits /\ inst = "RUNNING"
    /\ stored.gen = gen /\ stored.check \in { "DRIFT", "UNSAFE" }
    /\ Moves("RESTARTING") /\ edits' = edits + 1
    /\ repairs' = 0 /\ stopped' = FALSE
    /\ UNCHANGED <<rev, row, handler, canceler>>

(* Only QueueAction's jobs change what the desired revision is made of.       *)
OperatorJobEnds(s, r) ==
    /\ inst = "BUSY" \/ (inst = "CONFIGURING" /\ r = rev)
    /\ Moves(s) /\ rev' = r
    /\ UNCHANGED <<edits, row, handler, canceler, history>>

(* Time only matters while the row waits for its next attempt.                *)
Tick ==
    /\ row.wait > 0
    /\ row' = [row EXCEPT !.wait = @ - 1]
    /\ UNCHANGED <<inst, gen, rev, edits, obsVars, handler, canceler, history>>

Next ==
    \/ \E check \in Checks : Observe(check)
    \/ \E p \in Handlers :
        \/ \E r \in reports : ValidateObservationSequence(p, r)
        \/ RecordObservations(p)
        \/ TrackRuntimeHealthObservation(p)
        \/ QueueRuntimeRepair(p)
        \/ RepairRefused(p)
        \/ RecordRuntimeRemediationQueueFailure(p)
        \/ HandlerDies(p)
    \/ \E ok \in BOOLEAN : RepairEnds(ok)
    \/ RequestCancel \/ CancelRuntimeRemediation
    \/ OperatorAction \/ OperatorConfiguration \/ ManualRepair
    \/ \E s \in { "RUNNING", "STOPPED" }, r \in { rev, rev + 1 } : OperatorJobEnds(s, r)
    \/ Tick

Spec == Init /\ [][Next]_vars

------------------------------------------------------------------------------
(* Properties.                                                             *)

(* The row of runtime_remediation_state keeps its ledger: attempts are       *)
(* counted within their phase and in total alike, phases are opened one      *)
(* after another, and a repair is counted as soon as it is queued, through   *)
(* overlapping requests, refused queueings and repairs of every outcome.     *)
LedgerAgrees ==
    /\ row.attempt \in 0..AttemptsPerPhase /\ row.phase \in 1..MaxPhases
    /\ row.total = (row.phase - 1) * AttemptsPerPhase + row.attempt
    /\ row.status \in { "QUEUED", "VERIFYING", "COOLDOWN" } => row.total > 0
    /\ row.status = "EXHAUSTED" => row.total = MaxAttempts

(* A row waits for a repair only while one is under way: every way a repair  *)
(* ends, success, failure or lost lease, hands the workflow on.              *)
QueuedHasRepair == row.status = "QUEUED" => inst = "RESTARTING"

(* docs/architecture.md: "Fleet permits three attempts in each of three       *)
(* phases".  While the Host Agent reports nothing but drift and the operator  *)
(* changes nothing, no more repairs than that are queued.                     *)
RepairsBounded == repairs <= MaxAttempts

(* README: "The operator can stop the automatic recovery".  Once it has been  *)
(* stopped on a running instance, no automatic repair is queued, not even by  *)
(* a request that decided on one before, until something other than drift is  *)
(* seen or the operator queues a job.                                         *)
CancelHolds == [][stopped => repairs' <= repairs]_vars
==============================================================================
