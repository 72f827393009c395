---------------------------- MODULE PolicyRollout ----------------------------
(***************************************************************************)
(* One rollout of a Fleet policy: a canary first, then the other targets   *)
(* one at a time, each a Hermes update of its own.  The rollout is carried *)
(* on by three kinds of callers - the request that starts it, the          *)
(* operator's pause, resume and cancel, and the background loop - that     *)
(* take turns under a lock of the process.  The loop and the starting      *)
(* request read the control metadata before they wait for that lock.       *)
(*                                                                         *)
(* Every write to the database is a step; the process may be restarted     *)
(* between any two, and the calls of a control request and of a            *)
(* reconciliation that end it early, or are ignored, may fail.             *)
(***************************************************************************)
EXTENDS Naturals, FiniteSets

CONSTANTS
    Targets,     \* instances in the scope of the policy, ordered by name
    Controls,    \* what the operator asks for
    MaxControls, \* bound on those requests
    Restarts,    \* is the control plane restarted
    MaxFailures, \* bound on the database calls that fail
    Recovers     \* may a blocked instance recover while it is being recorded

ASSUME RolloutAssumption ==
    /\ Targets \subseteq Nat /\ IsFiniteSet(Targets)
    /\ Controls \subseteq { "PAUSED", "RUNNING", "CANCELING" } /\ MaxControls \in Nat
    /\ Restarts \in BOOLEAN /\ MaxFailures \in Nat /\ Recovers \in BOOLEAN

VARIABLES
    op,       \* the rollout: status of the operation, control, acknowledged
    canary,
    target,   \* policy_rollout_targets
    child,    \* the Hermes update of an instance
    toMark,   \* blocked in the preview and not yet recorded
    copy, pc, \* metadata each caller works with, and where it is
    lock,     \* holder of policyRolloutLocks
    seen,     \* the holder's list of targets
    pick,     \* the target the holder is queueing
    failedNow,\* targetFailed
    asked,    \* number of control requests so far
    gate,     \* history: a target did not pass and nobody resumed since
    resumed,  \* history: an operator has resumed the rollout
    failures, \* number of failed calls so far
    unblocked \* history: a cancel was recorded, could not block the pending targets, nobody has since

trouble == <<failures, unblocked>>
vars == <<op, canary, target, child, toMark, copy, pc, lock, seen, pick,
          failedNow, asked, gate, resumed, failures, unblocked>>

Callers == { "start", "loop", "control" }
Nobody == "nobody"
NoMetadata == [control |-> "RUNNING", ack |-> FALSE]
Active == op.status \in { "PENDING", "RUNNING" }

Init ==
    /\ op = [status |-> "NONE", control |-> "RUNNING", ack |-> FALSE]
    /\ canary = 0 /\ target = [i \in Targets |-> "NONE"] /\ child = [i \in Targets |-> "none"]
    /\ toMark = {} /\ copy = [c \in Callers |-> NoMetadata] /\ pc = [c \in Callers |-> "idle"]
    /\ lock = Nobody /\ seen = target /\ pick = 0 /\ failedNow = FALSE /\ asked = 0 /\ gate = FALSE
    /\ resumed = FALSE /\ failures = 0 /\ unblocked = FALSE

Metadata == [control |-> op.control, ack |-> op.ack]

Has(list, statuses) == \E i \in Targets : list[i] \in statuses

------------------------------------------------------------------------------
(* evaluatePolicyTarget: an instance is compliant, has drifted and is      *)
(* ready, or is blocked.                                                   *)
Preview(ready, blocked) == ready \in SUBSET Targets /\ blocked \in SUBSET (Targets \ ready)

(* evaluatePolicy sorts the targets by name.                               *)
FirstByName(set) == CHOOSE i \in set : \A j \in set : i <= j

(* CreatePolicyRollout: the operation and all its targets.                 *)
CreatePolicyRollout(set) ==
    /\ op' = [status |-> "PENDING", control |-> "RUNNING", ack |-> FALSE]
    /\ target' = [i \in Targets |-> IF i \in set THEN "PENDING" ELSE "NONE"]

(* The first target that is ready is the canary.                           *)
startPolicyRollout ==
    /\ op.status = "NONE"
    /\ \E ready, blocked \in SUBSET Targets :
          /\ Preview(ready, blocked) /\ ready # {} /\ canary' = FirstByName(ready)
          /\ CreatePolicyRollout(ready \cup blocked) /\ toMark' = blocked
    /\ pc' = [pc EXCEPT !["start"] = "mark"] /\ copy' = [copy EXCEPT !["start"] = NoMetadata]
    /\ UNCHANGED <<child, lock, seen, pick, failedNow, asked, gate, resumed, trouble>>

(* UpdatePolicyRolloutTarget.                                              *)
UpdateTarget(i, s) == target' = [target EXCEPT ![i] = s]

(* The targets blocked in the preview are recorded one by one, without the *)
(* lock; failPolicyRollout if that does not work.                          *)
MarkBlocked ==
    /\ pc["start"] = "mark"
    /\ \/ \E i \in toMark :
            /\ UpdateTarget(i, "BLOCKED") /\ toMark' = toMark \ { i }
            /\ UNCHANGED <<op, pc>>
       \/ /\ toMark = {} /\ pc' = [pc EXCEPT !["start"] = "wait"] /\ UNCHANGED <<op, target, toMark>>
       \/ /\ toMark # {} /\ Active /\ op' = [op EXCEPT !.status = "FAILED"]
          /\ pc' = [pc EXCEPT !["start"] = "idle"] /\ toMark' = {} /\ UNCHANGED target
    /\ UNCHANGED <<canary, child, copy, lock, seen, pick, failedNow, asked, gate, resumed, trouble>>

(* ListActivePolicyRollouts.                                               *)
ListActive ==
    /\ pc["loop"] = "idle" /\ Active
    /\ copy' = [copy EXCEPT !["loop"] = Metadata] /\ pc' = [pc EXCEPT !["loop"] = "wait"]
    /\ UNCHANGED <<op, canary, target, child, toMark, lock, seen, pick, failedNow, asked, gate, resumed, trouble>>

Lock(c) ==
    /\ pc[c] = "wait" /\ lock = Nobody /\ lock' = c /\ pc' = [pc EXCEPT ![c] = "settle"]
    /\ UNCHANGED <<op, canary, target, child, toMark, copy, seen, pick, failedNow, asked, gate, resumed, trouble>>

(* The transitions an operator may ask for.                                *)
Allowed(current, requested) ==
    \/ requested = "PAUSED" /\ current = "RUNNING"
    \/ requested = "RUNNING" /\ current = "PAUSED"
    \/ requested = "CANCELING" /\ current \in { "RUNNING", "PAUSED" }

(* UpdatePolicyRolloutControl: fenced by the state the caller has seen.    *)
UpdateControl(from, to, ack) ==
    op' = IF Active /\ op.control = from THEN [op EXCEPT !.control = to, !.ack = ack] ELSE op

(* changePolicyRolloutControl, under the lock: resuming acknowledges       *)
(* failures.                                                               *)
Control(requested) ==
    /\ requested \in Controls /\ asked < MaxControls /\ lock = Nobody /\ pc["control"] = "idle"
    /\ Active /\ Allowed(op.control, requested)
    /\ UpdateControl(op.control, requested, op.ack \/ requested = "RUNNING")
    /\ gate' = (gate /\ requested # "RUNNING") /\ resumed' = (resumed \/ requested = "RUNNING")
    /\ lock' = "control" /\ asked' = asked + 1
    /\ pc' = [pc EXCEPT !["control"] = IF requested = "CANCELING" THEN "block" ELSE "settle"]
    /\ copy' = [copy EXCEPT !["control"] = [control |-> op'.control, ack |-> op'.ack]]
    /\ UNCHANGED <<canary, target, child, toMark, seen, pick, failedNow, trouble>>

Blocked(list) == [i \in Targets |-> IF list[i] = "PENDING" THEN "BLOCKED" ELSE list[i]]

(* A call to the database fails: it is busy, or the request's context is   *)
(* canceled.                                                               *)
CallFails == failures < MaxFailures /\ failures' = failures + 1

Leave(c) == pc' = [pc EXCEPT ![c] = "idle"] /\ lock' = Nobody

(* BlockPendingPolicyRolloutTargets, the second transaction of a cancel.   *)
(* When it fails the request is answered with an error: the cancel stays   *)
(* recorded, the targets stay pending and the lock is given up.            *)
BlockPending ==
    /\ pc["control"] = "block"
    /\ \/ /\ target' = Blocked(target) /\ pc' = [pc EXCEPT !["control"] = "settle"]
          /\ UNCHANGED <<lock, trouble>>
       \/ CallFails /\ Leave("control") /\ unblocked' = TRUE /\ UNCHANGED target
    /\ UNCHANGED <<op, canary, child, toMark, copy, seen, pick, failedNow, asked, gate, resumed>>

------------------------------------------------------------------------------
(* reconcilePolicyRolloutUnlocked, by the holder of the lock.              *)

Mine(c, label) == lock = c /\ pc[c] = label

Settled(i) ==
    CASE target[i] = "RUNNING" /\ child[i] = "succeeded" -> "SUCCEEDED"
      [] target[i] = "RUNNING" /\ child[i] = "failed" -> "FAILED"
      [] OTHER -> target[i]

(* ListPolicyRolloutTargets, and the child operations that have ended are  *)
(* recorded.                                                               *)
Settle(c) ==
    /\ Mine(c, "settle") /\ pc' = [pc EXCEPT ![c] = "decide"]
    /\ target' = [i \in Targets |-> Settled(i)] /\ seen' = target'
    /\ failedNow' = (\E i \in Targets : target'[i] = "FAILED" /\ target[i] # "FAILED")
    /\ gate' = (gate \/ failedNow')
    /\ UNCHANGED <<op, canary, child, toMark, copy, lock, pick, asked, resumed, trouble>>

(* The rollout could not be reloaded or its targets not be listed.         *)
ListFails(c) ==
    /\ Mine(c, "settle") /\ CallFails /\ Leave(c)
    /\ UNCHANGED <<op, canary, target, child, toMark, copy, seen, pick, failedNow, asked, gate, resumed, unblocked>>

Terminal(list) == ~Has(list, { "PENDING", "RUNNING" })

(* UpdateControlPlaneOperation: an operation that has ended stays ended.   *)
SetStatus(s) == op' = IF Active THEN [op EXCEPT !.status = s] ELSE op

Progress(c) == SetStatus("RUNNING") /\ Leave(c)

(* Mutant: targets that were blocked are not counted.                      *)
Finish_Blocked(c, list) ==
    /\ SetStatus(IF copy[c].control = "CANCELING" \/ Has(list, { "FAILED" })
                 THEN "FAILED" ELSE "SUCCEEDED")
    /\ Leave(c)

(* finishPolicyRollout.                                                    *)
Finish(c, list) ==
    /\ SetStatus(IF copy[c].control = "CANCELING" \/ Has(list, { "FAILED", "BLOCKED" })
                 THEN "FAILED" ELSE "SUCCEEDED")
    /\ Leave(c)

FinishNow(c) ==
    /\ Mine(c, "decide") /\ Terminal(seen) /\ Finish(c, seen)
    /\ UNCHANGED <<canary, target, child, toMark, copy, seen, pick, failedNow, asked, gate, resumed, trouble>>

(* Errors of the two calls are ignored: targets that could not be blocked  *)
(* stay pending, and a list that could not be read again is empty, so that *)
(* the rollout is finished.                                                *)
CancelPending(c) ==
    /\ Mine(c, "decide") /\ ~Terminal(seen) /\ copy[c].control = "CANCELING"
    /\ \E blocks, lists \in BOOLEAN :
          /\ IF blocks /\ lists THEN UNCHANGED failures ELSE CallFails
          /\ target' = IF blocks THEN Blocked(target) ELSE target
          /\ unblocked' = (unblocked /\ ~blocks)
          /\ IF ~lists \/ Terminal(target') THEN Finish(c, target') ELSE Progress(c)
    /\ UNCHANGED <<canary, child, toMark, copy, seen, pick, failedNow, asked, gate, resumed>>

(* A target failed now, or the canary did not pass and nobody has said     *)
(* that this is all right.                                                 *)
MustPause(c) ==
    /\ copy[c].control = "RUNNING" /\ Has(seen, { "PENDING" })
    /\ \/ failedNow
       \/ /\ ~Has(seen, { "RUNNING" })
          /\ seen[canary] \in { "FAILED", "BLOCKED" } /\ ~copy[c].ack

(* autoPausePolicyRollout: the reconciliation ends whether or not the      *)
(* fenced update found the rollout running.                                *)
Paused == UpdateControl("RUNNING", "PAUSED", FALSE)

AutoPause(c) ==
    /\ Mine(c, "decide") /\ MustPause(c) /\ Paused /\ Leave(c)
    /\ UNCHANGED <<canary, target, child, toMark, copy, seen, pick, failedNow, asked, gate, resumed, trouble>>

(* Nothing is started: paused, or a target is active.                      *)
Hold(c) ==
    /\ Mine(c, "decide") /\ ~Terminal(seen) /\ ~MustPause(c)
    /\ \/ copy[c].control = "PAUSED"
       \/ copy[c].control = "RUNNING" /\ Has(seen, { "RUNNING" })
    /\ Progress(c)
    /\ UNCHANGED <<canary, target, child, toMark, copy, seen, pick, failedNow, asked, gate, resumed, trouble>>

(* Mutant: a rollout that is being canceled goes on.                       *)
MayStart_Canceled(c) ==
    /\ Mine(c, "decide") /\ Has(seen, { "PENDING" }) /\ ~MustPause(c)
    /\ copy[c].control # "PAUSED" /\ ~Has(seen, { "RUNNING" })

MayStart(c) ==
    /\ Mine(c, "decide") /\ copy[c].control = "RUNNING" /\ Has(seen, { "PENDING" })
    /\ ~Has(seen, { "RUNNING" }) /\ ~MustPause(c)

(* Mutant: targets are taken in their order.                               *)
NextTarget_ByName ==
    CHOOSE i \in Targets : seen[i] = "PENDING" /\ \A j \in Targets : seen[j] = "PENDING" => i <= j

NextTarget ==
    IF seen[canary] = "PENDING" THEN canary
    ELSE CHOOSE i \in Targets : seen[i] = "PENDING" /\ \A j \in Targets : seen[j] = "PENDING" => i <= j

(* pinnedPolicyUpdateStatus: an instance that is being updated is not      *)
(* stable, one that was updated is current.                                *)
Eligible(i) == child[i] \notin { "active", "succeeded" } /\ (i \in toMark => Recovers)
Current(i) == child[i] \in { "none", "succeeded" } /\ (i \in toMark => Recovers)

(* queuePolicyTarget: blocked, found to be current, or a child operation   *)
(* is queued.                                                              *)
QueueTarget(c) ==
    /\ MayStart(c) /\ pick' = NextTarget
    /\ \/ /\ Eligible(pick') /\ child' = [child EXCEPT ![pick'] = "active"]
          /\ pc' = [pc EXCEPT ![c] = "record"] /\ UNCHANGED <<target, seen, gate>>
       \/ /\ Current(pick') /\ UpdateTarget(pick', "SUCCEEDED")
          /\ seen' = [seen EXCEPT ![pick'] = "SUCCEEDED"]
          /\ child' = [child EXCEPT ![pick'] = "succeeded"]
          /\ pc' = [pc EXCEPT ![c] = "after"] /\ UNCHANGED gate
       \/ /\ UpdateTarget(pick', "BLOCKED") /\ seen' = [seen EXCEPT ![pick'] = "BLOCKED"]
          /\ pc' = [pc EXCEPT ![c] = "after"] /\ gate' = TRUE /\ UNCHANGED child
    /\ UNCHANGED <<op, canary, toMark, copy, lock, failedNow, asked, resumed, trouble>>

(* The child operation is recorded with its target.                        *)
Record(c) ==
    /\ Mine(c, "record") /\ pc' = [pc EXCEPT ![c] = "after"]
    /\ UpdateTarget(pick, "RUNNING") /\ seen' = [seen EXCEPT ![pick] = "RUNNING"]
    /\ UNCHANGED <<op, canary, child, toMark, copy, lock, pick, failedNow, asked, gate, resumed, trouble>>

(* A wave's target that was blocked pauses the rollout.                    *)
After(c) ==
    /\ Mine(c, "after")
    /\ IF pick # canary /\ seen[pick] = "BLOCKED" /\ Has(seen, { "PENDING" })
       THEN Paused /\ Leave(c)
       ELSE IF Terminal(seen) THEN Finish(c, seen) ELSE Progress(c)
    /\ UNCHANGED <<canary, target, child, toMark, copy, seen, pick, failedNow, asked, gate, resumed, trouble>>

------------------------------------------------------------------------------
(* The Hermes update of an instance ends.                                  *)
ChildEnds(i) ==
    /\ child[i] = "active" /\ \E s \in { "succeeded", "failed" } : child' = [child EXCEPT ![i] = s]
    /\ UNCHANGED <<op, canary, target, toMark, copy, pc, lock, seen, pick, failedNow, asked, gate, resumed, trouble>>

(* With the process end the callers that read the metadata before a cancel. *)
Restart ==
    /\ Restarts /\ (\E c \in Callers : pc[c] # "idle")
    /\ pc' = [c \in Callers |-> "idle"] /\ lock' = Nobody /\ toMark' = {} /\ unblocked' = FALSE
    /\ UNCHANGED <<op, canary, target, child, copy, seen, pick, failedNow, asked, gate, resumed, failures>>

Reconcile(c) ==
    \/ Lock(c) \/ Settle(c) \/ ListFails(c) \/ FinishNow(c) \/ CancelPending(c) \/ AutoPause(c) \/ Hold(c)
    \/ QueueTarget(c) \/ Record(c) \/ After(c)

Next ==
    \/ startPolicyRollout \/ MarkBlocked \/ ListActive \/ BlockPending
    \/ (\E r \in { "PAUSED", "RUNNING", "CANCELING" } : Control(r))
    \/ (\E c \in Callers : Reconcile(c))
    \/ (\E i \in Targets : ChildEnds(i)) \/ Restart

(* The loop ticks and gets its lock, requests are served, updates end.     *)
Fairness ==
    /\ WF_vars(ListActive) /\ SF_vars(Reconcile("loop")) /\ WF_vars(MarkBlocked) /\ WF_vars(BlockPending)
    /\ \A c \in { "start", "control" } : SF_vars(Reconcile(c))
    /\ \A i \in Targets : WF_vars(ChildEnds(i))

Spec == Init /\ [][Next]_vars /\ Fairness

------------------------------------------------------------------------------
Statuses == { "NONE", "PENDING", "RUNNING", "SUCCEEDED", "FAILED", "BLOCKED" }
TypeOK ==
    /\ op \in [status : { "NONE", "PENDING", "RUNNING", "SUCCEEDED", "FAILED" },
               control : { "RUNNING", "PAUSED", "CANCELING" }, ack : BOOLEAN]
    /\ canary \in Targets \cup { 0 } /\ pick \in Targets \cup { 0 } /\ asked \in 0 .. MaxControls
    /\ { target, seen } \subseteq [Targets -> Statuses] /\ toMark \subseteq Targets
    /\ child \in [Targets -> { "none", "active", "succeeded", "failed" }]
    /\ copy \in [Callers -> [control : { "RUNNING", "PAUSED", "CANCELING" }, ack : BOOLEAN]]
    /\ pc \in [Callers -> { "idle", "mark", "wait", "block", "settle", "decide", "record", "after" }]
    /\ lock \in Callers \cup { Nobody } /\ { failedNow, gate, resumed, unblocked } \subseteq BOOLEAN
    /\ failures \in 0 .. MaxFailures

Started(i) == child[i] # "active" /\ child'[i] = "active"

(* At most one instance of the policy is being updated.                    *)
OneAtATime == Cardinality({ i \in Targets : child[i] = "active" }) <= 1

(* After a target failed or was blocked no update starts until an operator *)
(* resumes: Fleet stopped before the next wave.                            *)
GateHolds == [][(\E i \in Targets : Started(i)) => ~gate]_vars

(* Once a cancel is recorded no new target starts, whatever metadata a     *)
(* reconciliation under way has read and through restarts, with one        *)
(* exception: the cancel request answered with an error because it could   *)
(* not block the pending targets, and nobody has blocked them since.       *)
CanceledStartsNothing ==
    [][(\E i \in Targets : Started(i)) => op.control # "CANCELING" \/ unblocked]_vars

(* Canceled by Fleet admin; no new targets will start: what a rollout's    *)
(* control reason says as soon as the cancel is recorded.                  *)
CancelStopsRollout == [][(\E i \in Targets : Started(i)) => op.control # "CANCELING"]_vars

(* No update starts before the canary has passed, unless the canary        *)
(* did not pass and an operator has resumed the rollout.                   *)
CanaryFirst ==
    [][\A i \in Targets : Started(i) /\ i # canary /\ target[canary] # "SUCCEEDED" => resumed]_vars

(* A rollout that succeeded has brought every one of its targets to the    *)
(* frozen release.                                                         *)
SuccessIsComplete ==
    op.status = "SUCCEEDED" => \A i \in Targets : target[i] # "NONE" => child[i] = "succeeded"

(* A rollout that is not left paused ends.                                 *)
RolloutEnds ==
    op.status = "PENDING" ~> (op.status \in { "SUCCEEDED", "FAILED" } \/ op.control = "PAUSED")
==============================================================================
