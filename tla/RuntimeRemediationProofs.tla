----------------------- MODULE RuntimeRemediationProofs -----------------------
(***************************************************************************)
(* Proofs about RuntimeRemediation for every number of requests, reports   *)
(* and operator jobs and every limit of the repair workflow.               *)
(***************************************************************************)
EXTENDS RuntimeRemediation, TLAPS

Reports == [gen : Nat, at : Nat, check : HealthChecks]
Stored == [gen : Nat, at : Nat, recv : Nat, check : HealthChecks]
RowStatuses ==
    { "NONE", "MONITORING", "READY", "QUEUED", "WAITING", "VERIFYING", "COOLDOWN", "EXHAUSTED", "CANCELED" }
Rows == [status : RowStatuses, wf : Nat, rev : Nat, phase : Nat, attempt : Nat, total : Nat,
         drift : Nat, seen : Nat, wait : Nat]
Plans == [wf : Nat, phase : Nat, attempt : Nat, total : Nat, wait : Nat]
RequestStates == [pc : { "idle", "validated", "recorded", "decided", "refused" }, obs : Reports,
              recv : Nat, plan : Plans]

TypeOK ==
    /\ inst \in { "RUNNING", "RESTARTING", "BUSY", "CONFIGURING", "STOPPED" }
    /\ gen \in Nat /\ rev \in Nat /\ edits \in Nat /\ observed \in Nat /\ arrivals \in Nat
    /\ reports \in SUBSET Reports /\ stored \in Stored
    /\ row \in Rows /\ handler \in [Handlers -> RequestStates]
    /\ canceler \in { "idle", "checked" } /\ repairs \in Nat /\ stopped \in BOOLEAN

(* Phase, attempt and total of a row or of a plan agree.                     *)
Ledger(r) ==
    /\ r.attempt \in 0 .. AttemptsPerPhase /\ r.phase \in 1 .. MaxPhases
    /\ r.total = (r.phase - 1) * AttemptsPerPhase + r.attempt

(* A request that has decided on a repair holds a plan that keeps the        *)
(* ledger, whatever has become of the row since it was made.                 *)
PlansAgree ==
    \A p \in Handlers : handler[p].pc = "decided" => Ledger(handler[p].plan) /\ handler[p].plan.total > 0

(* The row belongs to the present revision; a job that may change the        *)
(* revision runs without a row.                                              *)
RowIsCurrent ==
    /\ row.status # "NONE" => row.rev = rev
    /\ inst = "BUSY" => row = NoRow

(* A canceled recovery leaves a canceled row on a running instance.          *)
StoppedIsCanceled == stopped => inst = "RUNNING" /\ row.status = "CANCELED"

IInv ==
    /\ TypeOK /\ LedgerAgrees /\ QueuedHasRepair
    /\ PlansAgree /\ RowIsCurrent /\ StoppedIsCanceled

Safe == LedgerAgrees /\ QueuedHasRepair /\ PlansAgree /\ RowIsCurrent /\ StoppedIsCanceled

------------------------------------------------------------------------------
(* The ledger.                                                             *)

(* The row before its first repair keeps the ledger.                         *)
LEMMA FreshLedger ==
    ASSUME NEW r, r.phase = 1, r.attempt = 0, r.total = 0
    PROVE  Ledger(r)
<1>1. AttemptsPerPhase \in Nat \ {0} /\ MaxPhases \in Nat \ {0}
  BY LimitsAssumption
<1>2. (1 - 1) * AttemptsPerPhase + 0 = 0
  BY <1>1
<1> QED
  BY <1>1, <1>2 DEF Ledger

(* A ledger never counts past the last attempt of the last phase, and has    *)
(* reached that number only there.                                           *)
LEMMA LedgerBounded ==
    ASSUME NEW phase \in 1 .. MaxPhases, NEW attempt \in 0 .. AttemptsPerPhase, NEW total \in Nat,
           total = (phase - 1) * AttemptsPerPhase + attempt
    PROVE  /\ total <= MaxAttempts
           /\ phase = MaxPhases /\ attempt >= AttemptsPerPhase => total >= MaxAttempts
<1> DEFINE A == AttemptsPerPhase
           M == MaxPhases
<1>1. A \in Nat \ {0} /\ M \in Nat \ {0} /\ phase \in Nat /\ attempt \in Nat
  BY LimitsAssumption
<1>2. MaxAttempts = A * M
  BY DEF MaxAttempts
<1> HIDE DEF A, M
<1>3. (phase - 1) * A <= (M - 1) * A
  <2>1. phase <= M
    BY DEF M
  <2>2. PICK d \in Nat : M = phase + d
    BY <1>1, <2>1
  <2>3. (M - 1) * A = (phase - 1) * A + d * A /\ d * A \in Nat
    BY <1>1, <2>2
  <2>4. (phase - 1) * A \in Int
    BY <1>1
  <2> QED
    BY <2>3, <2>4
<1>4. (M - 1) * A + A = A * M
  BY <1>1
<1>5. (phase - 1) * A \in Int /\ (M - 1) * A \in Int /\ A * M \in Int
  BY <1>1
<1>6. attempt <= A /\ total = (phase - 1) * A + attempt
  BY DEF A
<1>7. total <= A * M
  BY <1>1, <1>3, <1>4, <1>5, <1>6
<1>8. phase = M /\ attempt >= A => total >= A * M
  BY <1>1, <1>4, <1>5, <1>6
<1> QED
  BY <1>2, <1>7, <1>8 DEF A, M

(* NextAttempt of a row that has an attempt left keeps the ledger.           *)
LEMMA NextAttemptLedger ==
    ASSUME NEW r \in Rows, Ledger(r), r.total < MaxAttempts
    PROVE  /\ NextAttempt(r) \in Plans
           /\ Ledger(NextAttempt(r)) /\ NextAttempt(r).total > 0
<1> DEFINE n == NextAttempt(r)
           open == r.attempt >= AttemptsPerPhase /\ r.phase < MaxPhases
<1>1. /\ AttemptsPerPhase \in Nat \ {0} /\ MaxPhases \in Nat \ {0}
      /\ RetryDelay \in Nat /\ Cooldown \in Nat
  BY LimitsAssumption
<1>2. r.attempt \in Nat /\ r.phase \in Nat /\ r.total \in Nat /\ r.wf \in Nat
  BY DEF Rows
<1>3. MaxAttempts \in Nat
  BY <1>1 DEF MaxAttempts
<1>4. /\ n.phase = (IF open THEN r.phase + 1 ELSE r.phase)
      /\ n.attempt = (IF open THEN 1 ELSE r.attempt + 1) /\ n.total = r.total + 1
  BY DEF NextAttempt
<1>5. n \in Plans
  BY <1>1, <1>2, <1>3 DEF NextAttempt, Plans
<1>6. r.attempt <= AttemptsPerPhase /\ r.phase >= 1 /\ r.phase <= MaxPhases
  BY DEF Ledger
<1>7. ~open => r.attempt < AttemptsPerPhase
  <2>1. r.phase = MaxPhases /\ r.attempt >= AttemptsPerPhase => r.total >= MaxAttempts
    BY <1>2, LedgerBounded DEF Ledger
  <2> QED
    BY <1>1, <1>2, <1>3, <1>6, <2>1
<1> HIDE DEF n
<1>8. n.attempt \in 0 .. AttemptsPerPhase /\ n.phase \in 1 .. MaxPhases
  BY <1>1, <1>2, <1>4, <1>6, <1>7
<1>9. n.total = (n.phase - 1) * AttemptsPerPhase + n.attempt
  <2>1. r.total = (r.phase - 1) * AttemptsPerPhase + r.attempt
    BY DEF Ledger
  <2>2. (r.phase - 1) * AttemptsPerPhase \in Int
    BY <1>1, <1>2
  <2>3. CASE open
    <3>1. r.attempt = AttemptsPerPhase
      BY <1>1, <1>2, <1>6, <2>3
    <3>2. (r.phase + 1 - 1) * AttemptsPerPhase = (r.phase - 1) * AttemptsPerPhase + AttemptsPerPhase
      BY <1>1, <1>2
    <3>3. n.phase = r.phase + 1 /\ n.attempt = 1 /\ n.total = r.total + 1
      BY <1>4, <2>3
    <3> QED
      BY <1>1, <1>2, <2>1, <2>2, <3>1, <3>2, <3>3
  <2>4. CASE ~open
    <3>1. n.phase = r.phase /\ n.attempt = r.attempt + 1 /\ n.total = r.total + 1
      BY <1>4, <2>4
    <3>2. PICK k \in Int : k = (r.phase - 1) * AttemptsPerPhase
      BY <2>2
    <3>3. (n.phase - 1) * AttemptsPerPhase = k /\ r.total = k + r.attempt
      BY <2>1, <3>1, <3>2
    <3> QED
      BY <1>2, <3>1, <3>3
  <2> QED
    BY <2>3, <2>4
<1>10. n.total > 0
  BY <1>2, <1>4
<1> QED
  BY <1>5, <1>8, <1>9, <1>10 DEF Ledger, n

------------------------------------------------------------------------------
(* What a step does to the row.                                            *)

(* A row in the table, its ledger and its status.                            *)
RowOK(r) ==
    /\ r \in Rows /\ Ledger(r)
    /\ r.status \in { "QUEUED", "VERIFYING", "COOLDOWN" } => r.total > 0
    /\ r.status = "EXHAUSTED" => r.total = MaxAttempts

(* The ledger of the row is the one LedgerAgrees states.                     *)
LEMMA RowLedger == TypeOK => (LedgerAgrees <=> RowOK(row))
BY DEF TypeOK, LedgerAgrees, RowOK, Ledger

(* The absent row keeps the ledger.                                          *)
LEMMA NoRowOK == RowOK(NoRow)
<1>1. Ledger(NoRow)
  BY FreshLedger DEF NoRow
<1> QED
  BY <1>1 DEF RowOK, NoRow, Rows, RowStatuses

(* The row a drift observation works on.                                     *)
LEMMA WorkflowOK ==
    ASSUME TypeOK, RowOK(row), RowIsCurrent, NEW wf \in Nat
    PROVE  /\ RowOK(Workflow(wf)) /\ Workflow(wf).rev = rev
           /\ Workflow(wf).status = "QUEUED" => row.status = "QUEUED"
           /\ row.status = "CANCELED" => Workflow(wf) = row
<1> DEFINE new == [NoRow EXCEPT !.status = "MONITORING", !.wf = wf, !.rev = rev]
<1>1. RowOK(new) /\ new.rev = rev /\ new.status = "MONITORING"
  <2>1. new.status = "MONITORING" /\ new.phase = 1 /\ new.attempt = 0 /\ new.total = 0 /\ new.rev = rev
    BY DEF NoRow
  <2>2. new \in Rows
    BY DEF NoRow, Rows, RowStatuses, TypeOK
  <2>3. Ledger(new)
    BY <2>1, FreshLedger
  <2> HIDE DEF new
  <2> QED
    BY <2>1, <2>2, <2>3 DEF RowOK
<1>2. Workflow(wf) = (IF row = NoRow \/ row.rev # rev THEN new ELSE row)
  BY DEF Workflow
<1>3. row.status = "CANCELED" => row # NoRow /\ row.rev = rev
  BY DEF RowIsCurrent, NoRow
<1> HIDE DEF new
<1> QED
  BY <1>1, <1>2, <1>3

(* One more drift observation keeps the ledger; it ends a workflow without   *)
(* attempts left and leaves a canceled one canceled.                         *)
LEMMA CountedOK ==
    ASSUME TypeOK, NEW w, RowOK(w)
    PROVE  /\ RowOK(Counted(w)) /\ Counted(w).rev = w.rev
           /\ Counted(w).status = "QUEUED" => w.status = "QUEUED"
           /\ w.status = "CANCELED" => Counted(w).status = "CANCELED"
<1> DEFINE v == Counted(w)
<1>1. stored.recv \in Nat /\ DriftThreshold \in Nat
  BY LimitsAssumption DEF TypeOK, Stored
<1>2. w \in Rows /\ Ledger(w)
  BY DEF RowOK
<1>3. w.total \in Nat /\ w.total <= MaxAttempts /\ MaxAttempts \in Nat
  <2>1. w.total \in Nat /\ MaxAttempts \in Nat
    BY <1>2, LimitsAssumption DEF Rows, MaxAttempts
  <2> QED
    BY <1>2, <2>1, LedgerBounded DEF Ledger
<1>4. v \in Rows
  <2> DEFINE spent == w.total >= MaxAttempts /\ w.status # "CANCELED"
             drift == IF w.drift < DriftThreshold THEN w.drift + 1 ELSE w.drift
             status == IF spent THEN "EXHAUSTED" ELSE w.status
             wait == IF spent THEN 0 ELSE w.wait
  <2>1. v = [w EXCEPT !.drift = drift, !.seen = stored.recv, !.status = status, !.wait = wait]
    BY DEF Counted
  <2>2. w.drift \in Nat /\ w.status \in RowStatuses /\ w.wait \in Nat
    BY <1>2 DEF Rows
  <2>3. drift \in Nat /\ status \in RowStatuses /\ wait \in Nat
    BY <1>1, <2>2 DEF RowStatuses
  <2> HIDE DEF v, drift, status, wait
  <2> QED
    BY <1>1, <1>2, <2>1, <2>3 DEF Rows
<1>5. /\ v.phase = w.phase /\ v.attempt = w.attempt /\ v.total = w.total /\ v.rev = w.rev
      /\ v.status = (IF w.total >= MaxAttempts /\ w.status # "CANCELED" THEN "EXHAUSTED" ELSE w.status)
  BY <1>2 DEF Counted, Rows
<1> HIDE DEF v
<1>6. Ledger(v)
  BY <1>2, <1>5 DEF Ledger
<1>7. RowOK(v)
  BY <1>3, <1>4, <1>5, <1>6 DEF RowOK
<1> QED
  BY <1>5, <1>7 DEF v

------------------------------------------------------------------------------
(* The invariant, action by action.                                        *)

(* A step that touches neither the row nor a request's plan.                 *)
LEMMA ReportStep ==
    ASSUME TypeOK, Safe, NEW check \in HealthChecks, Observe(check)
    PROVE  TypeOK' /\ Safe'
<1>1. UNCHANGED <<inst, gen, rev, edits, arrivals, stored, row, handler, canceler, repairs, stopped>>
  BY DEF Observe, history
<1>2. observed' \in Nat /\ reports' \in SUBSET Reports
  BY DEF Observe, TypeOK, Reports
<1>3. TypeOK'
  BY <1>1, <1>2 DEF TypeOK
<1> QED
  BY <1>1, <1>3 DEF Safe, LedgerAgrees, QueuedHasRepair, PlansAgree, RowIsCurrent, StoppedIsCanceled

(* The steps of a request before it tracks, and its death, leave it without  *)
(* a plan or with the one it had.                                            *)
LEMMA RequestStep ==
    ASSUME TypeOK, Safe, NEW p \in Handlers,
           \/ \E r \in reports : ValidateObservationSequence(p, r)
           \/ RecordObservations(p) \/ RepairRefused(p) \/ HandlerDies(p)
    PROVE  TypeOK' /\ Safe'
<1>1. UNCHANGED <<inst, gen, rev, edits, row, canceler, repairs, stopped, observed>>
  BY DEF ValidateObservationSequence, RecordObservations, RepairRefused, HandlerDies, history, obsVars
<1>2. \A q \in Handlers \ {p} : handler'[q] = handler[q]
  BY DEF ValidateObservationSequence, RecordObservations, RepairRefused, HandlerDies, TypeOK
<1>3. handler' \in [Handlers -> RequestStates] /\ handler'[p].pc # "decided"
  <2>1. ASSUME NEW r \in reports, ValidateObservationSequence(p, r)
        PROVE  handler' \in [Handlers -> RequestStates] /\ handler'[p].pc # "decided"
    BY <2>1 DEF ValidateObservationSequence, TypeOK, RequestStates, NoPlan, Plans
  <2>2. ASSUME NEW h \in { "recorded", "refused" }, handler' = [handler EXCEPT ![p].pc = h]
        PROVE  handler' \in [Handlers -> RequestStates] /\ handler'[p].pc # "decided"
    BY <2>2 DEF TypeOK, RequestStates
  <2>3. ASSUME handler' = [handler EXCEPT ![p] = Idle]
        PROVE  handler' \in [Handlers -> RequestStates] /\ handler'[p].pc # "decided"
    BY <2>3 DEF TypeOK, RequestStates, Idle, NoReport, NoPlan, Plans, Reports, HealthChecks
  <2> QED
    BY <2>1, <2>2, <2>3 DEF RecordObservations, RepairRefused, HandlerDies
<1>4. arrivals' \in Nat /\ stored' \in Stored /\ reports' \in SUBSET Reports
  <2>1. CASE RecordObservations(p)
    <3>1. handler[p].obs \in Reports /\ handler[p].recv \in Nat
      BY DEF TypeOK, RequestStates
    <3>2. stored' \in Stored
      BY <2>1, <3>1 DEF RecordObservations, TypeOK, Stored, Reports
    <3> QED
      BY <2>1, <3>2 DEF RecordObservations, TypeOK
  <2>2. CASE ~RecordObservations(p)
    BY <2>2 DEF ValidateObservationSequence, RepairRefused, HandlerDies, obsVars, TypeOK
  <2> QED
    BY <2>1, <2>2
<1>5. TypeOK'
  BY <1>1, <1>3, <1>4 DEF TypeOK
<1>6. PlansAgree'
  BY <1>2, <1>3 DEF Safe, PlansAgree
<1> QED
  BY <1>1, <1>5, <1>6 DEF Safe, LedgerAgrees, QueuedHasRepair, RowIsCurrent, StoppedIsCanceled

(* Tracking an observation.                                                  *)
LEMMA TrackStep ==
    ASSUME TypeOK, Safe, NEW p \in Handlers, TrackRuntimeHealthObservation(p)
    PROVE  TypeOK' /\ Safe'
<1> DEFINE w == Counted(Workflow(handler[p].recv))
           drifts == inst = "RUNNING" /\ handler[p].obs.check = "DRIFT"
<1>1. RowOK(row) /\ RowIsCurrent /\ handler[p].recv \in Nat
  BY RowLedger DEF Safe, TypeOK, RequestStates
<1>2. /\ RowOK(w) /\ w.rev = rev
      /\ w.status = "QUEUED" => row.status = "QUEUED"
      /\ row.status = "CANCELED" => w.status = "CANCELED"
  BY <1>1, WorkflowOK, CountedOK
<1>3. /\ UNCHANGED <<inst, gen, rev, edits, observed, reports, arrivals, stored, canceler>>
      /\ \/ /\ handler' = [handler EXCEPT ![p] = Idle]
            /\ \/ UNCHANGED <<row, repairs, stopped>>
               \/ /\ ~drifts /\ row' = NoRow
                  /\ \/ handler[p].obs.check = "DRIFT" /\ UNCHANGED <<repairs, stopped>>
                     \/ repairs' = 0 /\ stopped' = FALSE
               \/ drifts /\ row' = w /\ UNCHANGED <<repairs, stopped>>
         \/ /\ drifts /\ Ready(w) /\ row' = [w EXCEPT !.status = "READY"]
            /\ handler' = [handler EXCEPT ![p].pc = "decided", ![p].plan = NextAttempt(w)]
            /\ UNCHANGED <<repairs, stopped>>
  BY DEF TrackRuntimeHealthObservation, history, obsVars
<1> HIDE DEF w
<1>4. stopped => inst = "RUNNING" /\ row.status = "CANCELED"
  BY DEF Safe, StoppedIsCanceled
<1>5. drifts => inst = "RUNNING" /\ row.status # "QUEUED" /\ w.status # "QUEUED"
  BY <1>2 DEF Safe, QueuedHasRepair
<1>6. Ready(w) => /\ NextAttempt(w) \in Plans /\ Ledger(NextAttempt(w)) /\ NextAttempt(w).total > 0
                  /\ w.status # "CANCELED"
  BY <1>2, NextAttemptLedger DEF RowOK, Ready
<1>7. w \in Rows /\ RowOK([w EXCEPT !.status = "READY"]) /\ [w EXCEPT !.status = "READY"].rev = rev
      /\ [w EXCEPT !.status = "READY"].status = "READY"
  <2> DEFINE v == [w EXCEPT !.status = "READY"]
  <2>1. w \in Rows /\ Ledger(w)
    BY <1>2 DEF RowOK
  <2>2. /\ v \in Rows /\ v.status = "READY" /\ v.rev = w.rev
        /\ v.phase = w.phase /\ v.attempt = w.attempt /\ v.total = w.total
    BY <2>1 DEF Rows, RowStatuses
  <2> HIDE DEF v
  <2>3. Ledger(v)
    BY <2>1, <2>2 DEF Ledger
  <2>4. RowOK(v)
    BY <2>2, <2>3 DEF RowOK
  <2> QED
    BY <1>2, <2>1, <2>2, <2>4 DEF v
<1>8. CASE handler' = [handler EXCEPT ![p] = Idle] /\ UNCHANGED <<row, repairs, stopped>>
  <2>1. TypeOK' /\ PlansAgree'
    BY <1>3, <1>8 DEF TypeOK, RequestStates, Idle, NoReport, NoPlan, Plans, Reports, HealthChecks,
       Safe, PlansAgree
  <2> QED
    BY <1>3, <1>8, <2>1 DEF Safe, LedgerAgrees, QueuedHasRepair, RowIsCurrent, StoppedIsCanceled
<1>9. CASE /\ handler' = [handler EXCEPT ![p] = Idle] /\ ~drifts /\ row' = NoRow
           /\ \/ handler[p].obs.check = "DRIFT" /\ UNCHANGED <<repairs, stopped>>
              \/ repairs' = 0 /\ stopped' = FALSE
  <2>1. stopped' = FALSE /\ repairs' \in Nat
    BY <1>4, <1>9 DEF TypeOK
  <2>2. handler' \in [Handlers -> RequestStates] /\ PlansAgree'
    BY <1>9 DEF TypeOK, RequestStates, Idle, NoReport, NoPlan, Plans, Reports, HealthChecks,
       Safe, PlansAgree
  <2>3. TypeOK' /\ RowOK(row')
    BY <1>3, <1>9, <2>1, <2>2, NoRowOK DEF TypeOK, RowOK
  <2>4. row'.status = "NONE"
    BY <1>9 DEF NoRow
  <2> QED
    BY <1>9, <2>1, <2>2, <2>3, <2>4
       DEF Safe, LedgerAgrees, RowOK, Ledger, QueuedHasRepair, RowIsCurrent, StoppedIsCanceled
<1>10. CASE handler' = [handler EXCEPT ![p] = Idle] /\ drifts /\ row' = w /\ UNCHANGED <<repairs, stopped>>
  <2>1. handler' \in [Handlers -> RequestStates] /\ PlansAgree'
    BY <1>10 DEF TypeOK, RequestStates, Idle, NoReport, NoPlan, Plans, Reports, HealthChecks,
       Safe, PlansAgree
  <2>2. TypeOK'
    BY <1>3, <1>7, <1>10, <2>1 DEF TypeOK
  <2>3. LedgerAgrees' /\ QueuedHasRepair' /\ RowIsCurrent' /\ StoppedIsCanceled'
    BY <1>2, <1>3, <1>4, <1>5, <1>10
       DEF LedgerAgrees, RowOK, Ledger, QueuedHasRepair, RowIsCurrent, StoppedIsCanceled
  <2> QED
    BY <2>1, <2>2, <2>3 DEF Safe
<1>11. CASE /\ drifts /\ Ready(w) /\ row' = [w EXCEPT !.status = "READY"]
            /\ handler' = [handler EXCEPT ![p].pc = "decided", ![p].plan = NextAttempt(w)]
            /\ UNCHANGED <<repairs, stopped>>
  <2>1. PICK n \in Plans : n = NextAttempt(w) /\ Ledger(n) /\ n.total > 0
    BY <1>6, <1>11
  <2>2. handler' = [handler EXCEPT ![p].pc = "decided", ![p].plan = n]
    BY <1>11, <2>1
  <2>3. handler' \in [Handlers -> RequestStates]
    BY <2>2 DEF TypeOK, RequestStates
  <2>4. handler'[p].plan = n /\ \A q \in Handlers \ {p} : handler'[q] = handler[q]
    BY <2>2 DEF TypeOK, RequestStates
  <2>5. PlansAgree'
    BY <2>1, <2>4 DEF Safe, PlansAgree
  <2>6. RowOK(row') /\ row'.rev = rev /\ row'.status = "READY"
    BY <1>7, <1>11
  <2>7. TypeOK'
    BY <1>3, <1>11, <2>3, <2>6 DEF TypeOK, RowOK
  <2>8. ~stopped
    BY <1>2, <1>4, <1>6, <1>11
  <2>9. LedgerAgrees' /\ QueuedHasRepair' /\ RowIsCurrent' /\ StoppedIsCanceled'
    BY <1>3, <1>11, <2>6, <2>8
       DEF LedgerAgrees, RowOK, Ledger, QueuedHasRepair, RowIsCurrent, StoppedIsCanceled
  <2> QED
    BY <2>5, <2>7, <2>9 DEF Safe
<1> QED
  BY <1>3, <1>8, <1>9, <1>10, <1>11

(* Queueing a repair: the plan of the request is charged to the row.         *)
LEMMA QueueStep ==
    ASSUME TypeOK, Safe, NEW p \in Handlers, QueueRuntimeRepair(p)
    PROVE  TypeOK' /\ Safe' /\ ~stopped
<1> DEFINE plan == handler[p].plan
<1>1. plan \in Plans /\ Ledger(plan) /\ plan.total > 0
  BY DEF QueueRuntimeRepair, TypeOK, RequestStates, Safe, PlansAgree
<1>2. /\ row.status = "READY" /\ inst' = "RESTARTING" /\ gen' = gen + 1 /\ reports' = {}
      /\ row' = [row EXCEPT !.status = "QUEUED", !.phase = plan.phase, !.attempt = plan.attempt,
                            !.total = plan.total, !.wait = plan.wait]
      /\ handler' = [handler EXCEPT ![p] = Idle] /\ repairs' = repairs + 1
      /\ UNCHANGED <<rev, edits, observed, arrivals, stored, canceler, stopped>>
  BY DEF QueueRuntimeRepair, Moves
<1>3. ~stopped /\ row.rev = rev
  BY <1>2 DEF Safe, StoppedIsCanceled, RowIsCurrent
<1> HIDE DEF plan
<1>4. /\ row' \in Rows /\ row'.status = "QUEUED" /\ row'.rev = row.rev
      /\ row'.phase = plan.phase /\ row'.attempt = plan.attempt /\ row'.total = plan.total
  BY <1>1, <1>2 DEF TypeOK, Rows, Plans, RowStatuses
<1>5. handler' \in [Handlers -> RequestStates] /\ PlansAgree'
  BY <1>2 DEF TypeOK, RequestStates, Idle, NoReport, NoPlan, Plans, Reports, HealthChecks, Safe, PlansAgree
<1>6. TypeOK'
  BY <1>2, <1>4, <1>5 DEF TypeOK
<1>7. LedgerAgrees' /\ QueuedHasRepair' /\ RowIsCurrent' /\ StoppedIsCanceled'
  BY <1>1, <1>2, <1>3, <1>4 DEF Ledger, LedgerAgrees, QueuedHasRepair, RowIsCurrent, StoppedIsCanceled
<1> QED
  BY <1>3, <1>5, <1>6, <1>7 DEF Safe

(* Changes of the row's status that leave the ledger alone.                  *)
LEMMA StatusStep ==
    ASSUME TypeOK, Safe, NEW s \in RowStatuses, NEW t \in Nat,
           s \in { "VERIFYING", "COOLDOWN" } => row.status = "QUEUED",
           s = "EXHAUSTED" => row.total >= MaxAttempts, s # "QUEUED", s # "NONE", row.status # "NONE",
           row' = [row EXCEPT !.status = s, !.wait = t], rev' = rev, inst' # "BUSY"
    PROVE  /\ row' \in Rows /\ row'.status = s /\ LedgerAgrees' /\ QueuedHasRepair' /\ RowIsCurrent'
<1>1. /\ row' \in Rows /\ row'.status = s /\ row'.rev = row.rev
      /\ row'.phase = row.phase /\ row'.attempt = row.attempt /\ row'.total = row.total
  BY DEF TypeOK, Rows
<1>2. row.total \in Nat /\ row.total <= MaxAttempts /\ MaxAttempts \in Nat
  <2>1. row.total \in Nat /\ MaxAttempts \in Nat
    BY LimitsAssumption DEF TypeOK, Rows, MaxAttempts
  <2> QED
    BY <2>1, LedgerBounded DEF Safe, LedgerAgrees
<1>3. LedgerAgrees'
  BY <1>1, <1>2 DEF Safe, LedgerAgrees
<1> QED
  BY <1>1, <1>3 DEF Safe, QueuedHasRepair, RowIsCurrent

(* A repair that could not be queued waits for its retry.                    *)
LEMMA RefusedStep ==
    ASSUME TypeOK, Safe, NEW p \in Handlers, RecordRuntimeRemediationQueueFailure(p)
    PROVE  TypeOK' /\ Safe'
<1>1. /\ UNCHANGED <<inst, gen, rev, edits, observed, reports, arrivals, stored, canceler, repairs, stopped>>
      /\ handler' = [handler EXCEPT ![p] = Idle]
  BY DEF RecordRuntimeRemediationQueueFailure, history, obsVars
<1>2. handler' \in [Handlers -> RequestStates] /\ PlansAgree'
  BY <1>1 DEF TypeOK, RequestStates, Idle, NoReport, NoPlan, Plans, Reports, HealthChecks, Safe, PlansAgree
<1>3. /\ row' \in Rows /\ LedgerAgrees' /\ QueuedHasRepair' /\ RowIsCurrent' /\ StoppedIsCanceled'
  <2>1. CASE row.status = "READY"
    <3>1. row' = [row EXCEPT !.status = "WAITING", !.wait = RetryDelay]
      BY <2>1 DEF RecordRuntimeRemediationQueueFailure
    <3>2. ~stopped /\ inst # "BUSY"
      BY <2>1 DEF Safe, StoppedIsCanceled, RowIsCurrent, NoRow
    <3>3. "WAITING" \in RowStatuses /\ RetryDelay \in Nat
      BY LimitsAssumption DEF RowStatuses
    <3>4. /\ row' \in Rows /\ LedgerAgrees' /\ QueuedHasRepair' /\ RowIsCurrent'
      BY <1>1, <2>1, <3>1, <3>2, <3>3, StatusStep
    <3> QED
      BY <1>1, <3>2, <3>4 DEF StoppedIsCanceled
  <2>2. CASE row.status # "READY"
    <3>1. row' = row
      BY <2>2 DEF RecordRuntimeRemediationQueueFailure
    <3> QED
      BY <1>1, <3>1 DEF TypeOK, Safe, LedgerAgrees, QueuedHasRepair, RowIsCurrent, StoppedIsCanceled
  <2> QED
    BY <2>1, <2>2
<1>4. TypeOK'
  BY <1>1, <1>2, <1>3 DEF TypeOK
<1> QED
  BY <1>2, <1>3, <1>4 DEF Safe

(* A repair ends, and the row with it goes on.                               *)
LEMMA RepairStep ==
    ASSUME TypeOK, Safe, NEW ok \in BOOLEAN, RepairEnds(ok)
    PROVE  TypeOK' /\ Safe'
<1>1. /\ inst = "RESTARTING" /\ inst' = "RUNNING" /\ gen' = gen + 1 /\ reports' = {}
      /\ UNCHANGED <<rev, edits, observed, arrivals, stored, handler, canceler, repairs, stopped>>
      /\ row' = AfterRepair(ok)
  BY DEF RepairEnds, Moves, history
<1>2. ~stopped
  BY <1>1 DEF Safe, StoppedIsCanceled
<1>3. row' \in Rows /\ LedgerAgrees' /\ QueuedHasRepair' /\ RowIsCurrent'
  <2>1. CASE row.status = "QUEUED"
    <3> DEFINE s == IF ok THEN "VERIFYING" ELSE IF row.total >= MaxAttempts THEN "EXHAUSTED"
                    ELSE IF row.attempt >= AttemptsPerPhase THEN "COOLDOWN" ELSE "WAITING"
    <3>1. row' = [row EXCEPT !.status = s] /\ row.wait \in Nat
      BY <1>1, <2>1 DEF AfterRepair, TypeOK, Rows
    <3>2. s \in RowStatuses /\ s # "QUEUED" /\ s # "NONE" /\ (s = "EXHAUSTED" => row.total >= MaxAttempts)
      BY DEF RowStatuses
    <3> HIDE DEF s
    <3>3. row' = [row EXCEPT !.status = s, !.wait = row.wait]
      BY <3>1 DEF TypeOK, Rows
    <3> QED
      BY <1>1, <2>1, <3>1, <3>2, <3>3, StatusStep
  <2>2. CASE row.status # "QUEUED"
    <3>1. row' = row
      BY <1>1, <2>2 DEF AfterRepair
    <3> QED
      BY <1>1, <2>2, <3>1 DEF TypeOK, Safe, LedgerAgrees, QueuedHasRepair, RowIsCurrent
  <2> QED
    BY <2>1, <2>2
<1>4. TypeOK'
  BY <1>1, <1>3 DEF TypeOK
<1> QED
  BY <1>1, <1>2, <1>3, <1>4 DEF Safe, PlansAgree, StoppedIsCanceled

(* The operator cancels: the row of a running instance is canceled.          *)
LEMMA CancelStep ==
    ASSUME TypeOK, Safe, RequestCancel \/ CancelRuntimeRemediation
    PROVE  TypeOK' /\ Safe' /\ repairs' = repairs
<1>1. /\ UNCHANGED <<inst, gen, rev, edits, observed, reports, arrivals, stored, handler, repairs>>
      /\ canceler' \in { "idle", "checked" }
  BY DEF RequestCancel, CancelRuntimeRemediation, obsVars, history
<1>2. CASE UNCHANGED <<row, stopped>>
  BY <1>1, <1>2 DEF TypeOK, Safe, LedgerAgrees, QueuedHasRepair, PlansAgree, RowIsCurrent, StoppedIsCanceled
<1>3. CASE /\ row.status \notin { "NONE", "CANCELED", "EXHAUSTED" }
           /\ row' = [row EXCEPT !.status = "CANCELED", !.wait = 0]
           /\ stopped' = (stopped \/ inst = "RUNNING")
  <2>1. inst # "BUSY" /\ "CANCELED" \in RowStatuses
    BY <1>3 DEF Safe, RowIsCurrent, NoRow, RowStatuses
  <2>2. /\ row' \in Rows /\ row'.status = "CANCELED" /\ LedgerAgrees' /\ QueuedHasRepair' /\ RowIsCurrent'
    BY <1>1, <1>3, <2>1, StatusStep
  <2>3. StoppedIsCanceled'
    BY <1>1, <1>3, <2>2 DEF Safe, StoppedIsCanceled
  <2>4. TypeOK'
    BY <1>1, <1>3, <2>2 DEF TypeOK
  <2> QED
    BY <1>1, <2>2, <2>3, <2>4 DEF Safe, PlansAgree
<1> QED
  BY <1>2, <1>3 DEF RequestCancel, CancelRuntimeRemediation, history, TypeOK

(* Jobs of the operator begin and end; time passes.                          *)
LEMMA OperatorStep ==
    ASSUME TypeOK, Safe, OperatorAction \/ OperatorConfiguration \/ ManualRepair
    PROVE  TypeOK' /\ Safe' /\ repairs' = 0
<1>1. /\ UNCHANGED <<rev, observed, arrivals, stored, handler, canceler>>
      /\ gen' = gen + 1 /\ edits' = edits + 1 /\ reports' = {} /\ repairs' = 0 /\ stopped' = FALSE
      /\ inst \in { "RUNNING", "STOPPED" } /\ inst' \in { "BUSY", "CONFIGURING", "RESTARTING" }
      /\ (row' = NoRow) \/ (inst' # "BUSY" /\ row' = row)
  BY DEF OperatorAction, OperatorConfiguration, ManualRepair, Moves, isObservableInstanceStatus
<1>2. row.status # "QUEUED"
  BY <1>1 DEF Safe, QueuedHasRepair
<1>3. RowOK(row') /\ row'.status # "QUEUED"
  BY <1>1, <1>2, NoRowOK, RowLedger DEF Safe, NoRow
<1>4. TypeOK'
  <2>1. row' \in Rows
    BY <1>3 DEF RowOK
  <2>2. gen' \in Nat /\ edits' \in Nat
    <3>1. gen' = gen + 1 /\ edits' = edits + 1 /\ gen \in Nat /\ edits \in Nat
      BY <1>1 DEF TypeOK
    <3> QED
      BY <3>1
  <2>3. repairs' \in Nat /\ reports' \in SUBSET Reports /\ stopped' \in BOOLEAN
    BY <1>1
  <2>4. inst' \in { "RUNNING", "RESTARTING", "BUSY", "CONFIGURING", "STOPPED" }
    BY <1>1
  <2> QED
    BY <1>1, <2>1, <2>2, <2>3, <2>4 DEF TypeOK
<1>5. LedgerAgrees' /\ QueuedHasRepair'
  BY <1>3 DEF LedgerAgrees, QueuedHasRepair, RowOK, Ledger
<1>6. RowIsCurrent'
  BY <1>1 DEF Safe, RowIsCurrent, NoRow
<1> QED
  BY <1>1, <1>4, <1>5, <1>6 DEF Safe, PlansAgree, StoppedIsCanceled

(* An operator's job ends; only one without a row changes the revision.      *)
LEMMA JobEndsStep ==
    ASSUME TypeOK, Safe, NEW s \in { "RUNNING", "STOPPED" }, NEW r \in { rev, rev + 1 }, OperatorJobEnds(s, r)
    PROVE  TypeOK' /\ Safe'
<1>1. /\ UNCHANGED <<edits, observed, arrivals, stored, row, handler, canceler, repairs, stopped>>
      /\ gen' = gen + 1 /\ reports' = {} /\ inst' = s /\ rev' = r /\ r \in Nat
      /\ inst = "BUSY" \/ (inst = "CONFIGURING" /\ r = rev)
  BY DEF OperatorJobEnds, Moves, history, TypeOK
<1>2. row.status # "QUEUED" /\ ~stopped
  BY <1>1 DEF Safe, QueuedHasRepair, StoppedIsCanceled
<1>3. TypeOK'
  BY <1>1 DEF TypeOK
<1>4. RowIsCurrent'
  BY <1>1 DEF Safe, RowIsCurrent, NoRow
<1> QED
  BY <1>1, <1>2, <1>3, <1>4 DEF Safe, LedgerAgrees, QueuedHasRepair, PlansAgree, StoppedIsCanceled

(* The pause before the next attempt runs down.                              *)
LEMMA TickStep ==
    ASSUME TypeOK, Safe, Tick
    PROVE  TypeOK' /\ Safe'
<1>1. /\ UNCHANGED <<inst, gen, rev, edits, observed, reports, arrivals, stored, handler, canceler, repairs, stopped>>
      /\ row' = [row EXCEPT !.wait = row.wait - 1] /\ row.wait > 0 /\ row.wait \in Nat
  BY DEF Tick, obsVars, history, TypeOK, Rows
<1>2. row.wait - 1 \in Nat
  BY <1>1
<1>3. /\ row' \in Rows /\ row'.status = row.status /\ row'.rev = row.rev
      /\ row'.phase = row.phase /\ row'.attempt = row.attempt /\ row'.total = row.total
  BY <1>1, <1>2 DEF TypeOK, Rows
<1>4. inst # "BUSY"
  BY <1>1 DEF Safe, RowIsCurrent, NoRow
<1>5. TypeOK'
  BY <1>1, <1>3 DEF TypeOK
<1> QED
  BY <1>1, <1>3, <1>4, <1>5
     DEF Safe, LedgerAgrees, QueuedHasRepair, PlansAgree, RowIsCurrent, StoppedIsCanceled

------------------------------------------------------------------------------
(* The theorems.                                                           *)

(* No row, no request and no cancellation at first.                          *)
LEMMA InitInvariant == Init => IInv
<1> SUFFICES ASSUME Init PROVE IInv
  OBVIOUS
<1>1. TypeOK
  BY NoRowOK DEF Init, TypeOK, NoStored, Stored, HealthChecks, RowOK, RequestStates, Idle, NoReport,
     NoPlan, Plans, Reports
<1>2. LedgerAgrees
  BY NoRowOK DEF Init, LedgerAgrees, RowOK, Ledger
<1> QED
  BY <1>1, <1>2 DEF Init, IInv, QueuedHasRepair, PlansAgree, RowIsCurrent, StoppedIsCanceled, NoRow, Idle

(* Every step keeps the invariant.                                           *)
LEMMA NextInvariant == IInv /\ [Next]_vars => IInv'
<1> SUFFICES ASSUME TypeOK, Safe, [Next]_vars
             PROVE  TypeOK' /\ Safe'
  BY DEF IInv, Safe
<1>1. ASSUME NEW check \in Checks, Observe(check)
      PROVE  TypeOK' /\ Safe'
  BY <1>1, ReportStep, ChecksAssumption
<1>2. ASSUME NEW p \in Handlers,
             \/ \E r \in reports : ValidateObservationSequence(p, r)
             \/ RecordObservations(p) \/ TrackRuntimeHealthObservation(p) \/ QueueRuntimeRepair(p)
             \/ RepairRefused(p) \/ RecordRuntimeRemediationQueueFailure(p) \/ HandlerDies(p)
      PROVE  TypeOK' /\ Safe'
  BY <1>2, RequestStep, TrackStep, QueueStep, RefusedStep
<1>3. ASSUME NEW ok \in BOOLEAN, RepairEnds(ok)
      PROVE  TypeOK' /\ Safe'
  BY <1>3, RepairStep
<1>4. ASSUME NEW s \in { "RUNNING", "STOPPED" }, NEW r \in { rev, rev + 1 }, OperatorJobEnds(s, r)
      PROVE  TypeOK' /\ Safe'
  BY <1>4, JobEndsStep
<1>5. CASE UNCHANGED vars
  BY <1>5 DEF vars, obsVars, history, TypeOK, Safe, LedgerAgrees, QueuedHasRepair, PlansAgree,
     RowIsCurrent, StoppedIsCanceled
<1> QED
  BY <1>1, <1>2, <1>3, <1>4, <1>5, CancelStep, OperatorStep, TickStep DEF Next

(* Every reachable state satisfies the inductive invariant.                  *)
THEOREM RemediationInvariance == Spec => []IInv
BY InitInvariant, NextInvariant, PTL DEF Spec

(* Overlapping requests, refused queueings, repairs of every outcome and     *)
(* cancellations keep the ledger of runtime_remediation_state: phase,        *)
(* attempt and total always agree and stay within the workflow's limits.     *)
THEOREM LedgerKept == Spec => []LedgerAgrees
<1>1. IInv => LedgerAgrees
  BY DEF IInv
<1> QED
  BY <1>1, RemediationInvariance, PTL

(* A row is QUEUED only while its repair restarts the instance.              *)
THEOREM QueuedIsUnderWay == Spec => []QueuedHasRepair
<1>1. IInv => QueuedHasRepair
  BY DEF IInv
<1> QED
  BY <1>1, RemediationInvariance, PTL

(* After the operator has stopped the recovery no repair is queued, not even *)
(* by a request that had decided on one before.                              *)
THEOREM CancelKept == Spec => CancelHolds
<1>1. IInv /\ [Next]_vars => [stopped => repairs' <= repairs]_vars
  <2> SUFFICES ASSUME TypeOK, Safe, Next, stopped
               PROVE  repairs' <= repairs
    BY DEF IInv, Safe
  <2>1. repairs \in Nat
    BY DEF TypeOK
  <2>2. CASE repairs' = repairs
    BY <2>1, <2>2
  <2>3. CASE repairs' = 0
    BY <2>1, <2>3
  <2>4. ASSUME NEW p \in Handlers, QueueRuntimeRepair(p)
        PROVE  FALSE
    BY <2>4, QueueStep
  <2>5. ASSUME NEW p \in Handlers, TrackRuntimeHealthObservation(p)
        PROVE  repairs' = repairs \/ repairs' = 0
    BY <2>5 DEF TrackRuntimeHealthObservation, history
  <2>6. \/ repairs' = repairs \/ repairs' = 0
        \/ \E p \in Handlers : QueueRuntimeRepair(p) \/ TrackRuntimeHealthObservation(p)
    BY DEF Next, Observe, ValidateObservationSequence, RecordObservations, RepairRefused,
       RecordRuntimeRemediationQueueFailure, HandlerDies, RepairEnds, RequestCancel,
       CancelRuntimeRemediation, OperatorAction, OperatorConfiguration, ManualRepair, OperatorJobEnds,
       Tick, history
  <2> QED
    BY <2>2, <2>3, <2>4, <2>5, <2>6
<1> QED
  BY <1>1, RemediationInvariance, PTL DEF Spec, CancelHolds
==============================================================================
