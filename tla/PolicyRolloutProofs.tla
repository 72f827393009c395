------------------------- MODULE PolicyRolloutProofs -------------------------
(***************************************************************************)
(* Proofs about PolicyRollout for every set of targets, every number of    *)
(* control requests, with and without restarts.                            *)
(***************************************************************************)
EXTENDS PolicyRollout, WellFoundedInduction, TLAPS

Working == { "settle", "decide", "record", "after", "block" }
Listed == { "decide", "record", "after" }

(* Whoever works on the rollout holds the lock; only the cancel request      *)
(* blocks the pending targets.                                               *)
HoldsLock ==
    /\ \A c \in Callers : pc[c] \in Working => lock = c
    /\ \A c \in Callers : pc[c] = "block" => c = "control"

(* Before the rollout exists nobody works on it; afterwards its canary is    *)
(* one of its targets and not one that the preview blocked.                  *)
CanaryIsTarget ==
    /\ op.status = "NONE" => \A c \in Callers : pc[c] = "idle"
    /\ op.status # "NONE" => canary \in Targets /\ target[canary] # "NONE" /\ canary \notin toMark
    /\ \A i \in toMark : target[i] # "NONE"

(* The holder's list has the targets of the table, and its canary: the       *)
(* starting request, which records blocked targets without the lock, does    *)
(* not touch these.                                                          *)
ListAgrees ==
    \A c \in Callers :
        /\ pc[c] \in Listed =>
              seen[canary] = target[canary] /\ \A i \in Targets : seen[i] = "NONE" <=> target[i] = "NONE"
        /\ pc[c] = "record" => pick \in Targets /\ seen[pick] = "PENDING"

(* A target is recorded as succeeded only after its update was.              *)
ChildrenAgree ==
    \A i \in Targets : target[i] = "SUCCEEDED" \/ seen[i] = "SUCCEEDED" => child[i] = "succeeded"

(* Only an operator's resume acknowledges a failure.                         *)
AckIsResumed == (op.ack => resumed) /\ \A c \in Callers : copy[c].ack => resumed

(* Once the cancel is recorded, whoever still works with metadata read       *)
(* before it finds no pending target when it gets the lock: the pending ones *)
(* are blocked before the cancel request gives the lock away, unless that    *)
(* fails, and a restart in between ends all of them.                         *)
CancelAgrees ==
    op.control = "CANCELING" /\ ~unblocked =>
        /\ \A c \in Callers :
              pc[c] = "decide" => copy[c].control = "CANCELING" \/ ~Has(seen, { "PENDING" })
        /\ \/ pc["control"] = "block" \/ ~Has(target, { "PENDING" })
           \/ \A c \in Callers : pc[c] \in { "mark", "wait", "settle" } => copy[c].control = "CANCELING"

IInv ==
    /\ TypeOK /\ HoldsLock /\ CanaryIsTarget /\ ListAgrees /\ ChildrenAgree
    /\ AckIsResumed /\ CancelAgrees /\ SuccessIsComplete

(* TypeOK, variable by variable.                                             *)
Operations == [status : { "NONE", "PENDING", "RUNNING", "SUCCEEDED", "FAILED" },
               control : { "RUNNING", "PAUSED", "CANCELING" }, ack : BOOLEAN]
Copies == [control : { "RUNNING", "PAUSED", "CANCELING" }, ack : BOOLEAN]
Labels == { "idle", "mark", "wait", "block", "settle", "decide", "record", "after" }

Typed ==
    /\ op \in Operations /\ canary \in Targets \cup { 0 } /\ pick \in Targets \cup { 0 }
    /\ asked \in 0 .. MaxControls
    /\ target \in [Targets -> Statuses] /\ seen \in [Targets -> Statuses] /\ toMark \in SUBSET Targets
    /\ child \in [Targets -> { "none", "active", "succeeded", "failed" }]
    /\ copy \in [Callers -> Copies] /\ pc \in [Callers -> Labels]
    /\ lock \in Callers \cup { Nobody }
    /\ failedNow \in BOOLEAN /\ gate \in BOOLEAN /\ resumed \in BOOLEAN /\ unblocked \in BOOLEAN
    /\ failures \in 0 .. MaxFailures

Safe ==
    /\ HoldsLock /\ CanaryIsTarget /\ ListAgrees /\ ChildrenAgree
    /\ AckIsResumed /\ CancelAgrees /\ SuccessIsComplete

(* Both say the same of the types.                                           *)
LEMMA TypedIsTypeOK == TypeOK <=> Typed
BY DEF TypeOK, Typed, Operations, Copies, Labels

------------------------------------------------------------------------------
(* Targets by name.                                                        *)

(* A set of targets that is not empty has a first one.                       *)
LEMMA FirstTarget ==
    ASSUME NEW S \in SUBSET Targets, S # {}
    PROVE  FirstByName(S) \in S /\ \E m \in S : \A y \in S : m <= y
<1>1. S \in SUBSET Nat
  BY RolloutAssumption
<1>2. PICK m \in S : \A y \in S : <<y, m>> \notin OpToRel(<, Nat)
  BY <1>1, NatLessThanWellFounded, WFMin
<1>3. \A y \in S : m <= y
  <2> TAKE y \in S
  <2>1. y \in Nat /\ m \in Nat
    BY <1>1
  <2>2. ~(y < m)
    BY <1>2, <2>1 DEF OpToRel
  <2> QED
    BY <2>1, <2>2
<1> QED
  BY <1>3 DEF FirstByName

(* The next target is a pending one, and the canary if that is pending.      *)
LEMMA NextIsPending ==
    ASSUME Typed, Has(seen, { "PENDING" }), canary \in Targets
    PROVE  /\ NextTarget \in Targets /\ seen[NextTarget] = "PENDING"
           /\ seen[canary] = "PENDING" => NextTarget = canary
<1>1. CASE seen[canary] = "PENDING"
  BY <1>1 DEF NextTarget
<1>2. CASE seen[canary] # "PENDING"
  <2> DEFINE S == { i \in Targets : seen[i] = "PENDING" }
  <2>1. S \in SUBSET Targets /\ S # {}
    BY DEF Has
  <2>2. \E i \in Targets : seen[i] = "PENDING" /\ \A j \in Targets : seen[j] = "PENDING" => i <= j
    BY <2>1, FirstTarget
  <2> QED
    BY <1>2, <2>2 DEF NextTarget
<1> QED
  BY <1>1, <1>2

------------------------------------------------------------------------------
(* The invariant, action by action.                                        *)

(* The starting request creates the operation and its targets.               *)
LEMMA StartStep ==
    ASSUME Typed, Safe, startPolicyRollout
    PROVE  Typed' /\ Safe'
<1>1. PICK ready \in SUBSET Targets, blocked \in SUBSET Targets :
        /\ Preview(ready, blocked) /\ ready # {} /\ canary' = FirstByName(ready)
        /\ CreatePolicyRollout(ready \cup blocked) /\ toMark' = blocked
  BY DEF startPolicyRollout
<1>2. /\ op.status = "NONE" /\ pc' = [pc EXCEPT !["start"] = "mark"]
      /\ copy' = [copy EXCEPT !["start"] = NoMetadata]
      /\ UNCHANGED <<child, lock, seen, pick, failedNow, asked, gate, resumed, failures, unblocked>>
  BY DEF startPolicyRollout, trouble
<1>3. /\ op' = [status |-> "PENDING", control |-> "RUNNING", ack |-> FALSE]
      /\ target' = [i \in Targets |-> IF i \in ready \cup blocked THEN "PENDING" ELSE "NONE"]
  BY <1>1 DEF CreatePolicyRollout
<1>4. canary' \in ready /\ canary' \notin blocked /\ canary' \in Targets
  BY <1>1, FirstTarget DEF Preview
<1>5. \A c \in Callers : pc[c] = "idle" /\ pc'[c] \in { "idle", "mark" }
  BY <1>2 DEF Safe, CanaryIsTarget, Typed, Callers
<1>6. Typed'
  BY <1>1, <1>2, <1>3, <1>4 DEF Typed, Operations, Statuses, Copies, Labels, Callers, NoMetadata
<1>7. HoldsLock' /\ ListAgrees'
  BY <1>5 DEF HoldsLock, ListAgrees, Working, Listed
<1>8. CanaryIsTarget'
  BY <1>1, <1>3, <1>4 DEF CanaryIsTarget
<1>9. ChildrenAgree' /\ SuccessIsComplete' /\ CancelAgrees'
  BY <1>2, <1>3 DEF Safe, ChildrenAgree, SuccessIsComplete, CancelAgrees
<1>10. AckIsResumed'
  BY <1>2, <1>3 DEF Safe, AckIsResumed, Typed, NoMetadata
<1> QED
  BY <1>6, <1>7, <1>8, <1>9, <1>10 DEF Safe

(* Recording a blocked target, the end of it, and its failure.               *)
LEMMA MarkStep ==
    ASSUME Typed, Safe, MarkBlocked
    PROVE  Typed' /\ Safe'
<1>1. /\ UNCHANGED <<canary, child, copy, lock, seen, pick, failedNow, asked, gate, resumed, failures, unblocked>>
      /\ pc["start"] = "mark" /\ op.status # "NONE"
  BY DEF MarkBlocked, trouble, Safe, CanaryIsTarget, Callers
<1>2. ASSUME NEW i \in toMark, UpdateTarget(i, "BLOCKED"), toMark' = toMark \ { i }, UNCHANGED <<op, pc>>
      PROVE  Typed' /\ Safe'
  <2>1. i \in Targets /\ i # canary /\ target[i] # "NONE"
    BY <1>1, <1>2 DEF Typed, Safe, CanaryIsTarget
  <2>2. target' = [target EXCEPT ![i] = "BLOCKED"]
    BY <1>2 DEF UpdateTarget
  <2>3. target'[i] = "BLOCKED" /\ \A j \in Targets \ {i} : target'[j] = target[j]
    BY <2>1, <2>2 DEF Typed
  <2>4. Typed'
    BY <1>1, <1>2, <2>2 DEF Typed, Statuses
  <2>5. HoldsLock' /\ AckIsResumed'
    BY <1>1, <1>2 DEF Safe, HoldsLock, AckIsResumed
  <2>6. CanaryIsTarget'
    BY <1>1, <1>2, <2>1, <2>3 DEF Safe, CanaryIsTarget, Typed
  <2>7. ListAgrees'
    BY <1>1, <1>2, <2>1, <2>3 DEF Safe, ListAgrees, CanaryIsTarget
  <2>8. ChildrenAgree' /\ SuccessIsComplete'
    BY <1>1, <1>2, <2>1, <2>3 DEF Safe, ChildrenAgree, SuccessIsComplete
  <2>9. CancelAgrees'
    BY <1>1, <1>2, <2>3 DEF Safe, CancelAgrees, Has
  <2> QED
    BY <2>4, <2>5, <2>6, <2>7, <2>8, <2>9 DEF Safe
<1>3. ASSUME UNCHANGED target, NEW s \in { "idle", "wait" }, pc' = [pc EXCEPT !["start"] = s],
             toMark' = {},
             UNCHANGED op \/ op' = [op EXCEPT !.status = "FAILED"]
      PROVE  Typed' /\ Safe'
  <2>1. /\ op' \in Operations /\ op'.status \in { op.status, "FAILED" } /\ op'.control = op.control
        /\ op'.ack = op.ack
    BY <1>3 DEF Typed, Operations
  <2>2. Typed'
    BY <1>1, <1>3, <2>1 DEF Typed, Labels
  <2>3. pc'["start"] = s /\ \A c \in Callers \ {"start"} : pc'[c] = pc[c]
    BY <1>3 DEF Typed, Callers
  <2>4. HoldsLock' /\ AckIsResumed'
    BY <1>1, <2>1, <2>3 DEF Safe, HoldsLock, AckIsResumed, Working
  <2>5. CanaryIsTarget' /\ ListAgrees'
    BY <1>1, <1>3, <2>1, <2>3 DEF Safe, CanaryIsTarget, ListAgrees, Listed
  <2>6. ChildrenAgree' /\ SuccessIsComplete'
    BY <1>1, <1>3, <2>1 DEF Safe, ChildrenAgree, SuccessIsComplete
  <2>7. CancelAgrees'
    BY <1>1, <1>3, <2>1, <2>3 DEF Safe, CancelAgrees, Has, Callers
  <2> QED
    BY <2>2, <2>4, <2>5, <2>6, <2>7 DEF Safe
<1> QED
  BY <1>2, <1>3 DEF MarkBlocked

(* The loop reads the metadata; a caller gets the lock.                      *)
LEMMA TurnStep ==
    ASSUME Typed, Safe, ListActive \/ \E c \in Callers : Lock(c)
    PROVE  Typed' /\ Safe'
<1>1. UNCHANGED <<op, canary, target, child, toMark, seen, pick, failedNow, asked, gate, resumed, failures, unblocked>>
  BY DEF ListActive, Lock, trouble
<1>2. ChildrenAgree' /\ SuccessIsComplete'
  BY <1>1 DEF Safe, ChildrenAgree, SuccessIsComplete
<1>3. CASE ListActive
  <2>1. /\ copy' = [copy EXCEPT !["loop"] = Metadata] /\ pc' = [pc EXCEPT !["loop"] = "wait"]
        /\ op.status # "NONE" /\ lock' = lock
    BY <1>3 DEF ListActive, Active
  <2>2. Metadata \in Copies /\ Metadata.control = op.control /\ Metadata.ack = op.ack
    BY DEF Metadata, Typed, Operations, Copies
  <2>3. Typed'
    BY <1>1, <2>1, <2>2 DEF Typed, Labels
  <2>4. /\ pc'["loop"] = "wait" /\ copy'["loop"].control = op.control /\ copy'["loop"].ack = op.ack
        /\ \A c \in Callers \ {"loop"} : pc'[c] = pc[c] /\ copy'[c] = copy[c]
    BY <2>1, <2>2 DEF Typed, Callers
  <2>5. HoldsLock' /\ AckIsResumed'
    BY <1>1, <2>1, <2>4 DEF Safe, HoldsLock, AckIsResumed, Working
  <2>6. CanaryIsTarget' /\ ListAgrees'
    BY <1>1, <2>1, <2>4 DEF Safe, CanaryIsTarget, ListAgrees, Listed
  <2>7. CancelAgrees'
    BY <1>1, <2>4 DEF Safe, CancelAgrees, Has, Callers
  <2> QED
    BY <1>2, <2>3, <2>5, <2>6, <2>7 DEF Safe
<1>4. ASSUME NEW c \in Callers, Lock(c)
      PROVE  Typed' /\ Safe'
  <2>1. pc[c] = "wait" /\ lock = Nobody /\ lock' = c /\ pc' = [pc EXCEPT ![c] = "settle"] /\ copy' = copy
    BY <1>4 DEF Lock
  <2>2. pc'[c] = "settle" /\ \A d \in Callers \ {c} : pc'[d] = pc[d]
    BY <2>1 DEF Typed
  <2>3. Nobody \notin Callers
    BY DEF Nobody, Callers
  <2>4. Typed'
    BY <1>1, <2>1 DEF Typed, Labels
  <2>5. HoldsLock' /\ AckIsResumed'
    BY <1>1, <2>1, <2>2, <2>3 DEF Safe, HoldsLock, AckIsResumed, Working
  <2>6. CanaryIsTarget' /\ ListAgrees'
    BY <1>1, <2>1, <2>2 DEF Safe, CanaryIsTarget, ListAgrees, Listed
  <2>7. CancelAgrees'
    BY <1>1, <2>1, <2>2 DEF Safe, CancelAgrees, Has
  <2> QED
    BY <1>2, <2>4, <2>5, <2>6, <2>7 DEF Safe
<1> QED
  BY <1>3, <1>4

(* The operator's request, with the lock: a cancel is recorded while nobody  *)
(* works on the rollout.                                                     *)
LEMMA ControlStep ==
    ASSUME Typed, Safe, NEW r \in { "PAUSED", "RUNNING", "CANCELING" }, Control(r)
    PROVE  Typed' /\ Safe'
<1>1. /\ UNCHANGED <<canary, target, child, toMark, seen, pick, failedNow, failures, unblocked>>
      /\ op.status \in { "PENDING", "RUNNING" } /\ lock = Nobody /\ lock' = "control"
      /\ asked < MaxControls /\ asked' = asked + 1
      /\ gate' = (gate /\ r # "RUNNING") /\ resumed' = (resumed \/ r = "RUNNING")
      /\ pc' = [pc EXCEPT !["control"] = IF r = "CANCELING" THEN "block" ELSE "settle"]
      /\ copy' = [copy EXCEPT !["control"] = [control |-> op'.control, ack |-> op'.ack]]
      /\ op.control # "CANCELING"
      /\ op' = [op EXCEPT !.control = r, !.ack = op.ack \/ r = "RUNNING"]
  BY DEF Control, Active, UpdateControl, Allowed, trouble
<1>2. /\ op' \in Operations /\ op'.status = op.status /\ op'.control = r
      /\ op'.ack = (op.ack \/ r = "RUNNING")
  BY <1>1 DEF Typed, Operations
<1>3. asked' \in 0 .. MaxControls
  BY <1>1, RolloutAssumption DEF Typed
<1>4. Typed'
  BY <1>1, <1>2, <1>3 DEF Typed, Operations, Copies, Labels, Callers
<1>5. /\ pc'["control"] = (IF r = "CANCELING" THEN "block" ELSE "settle")
      /\ copy'["control"].control = op'.control /\ copy'["control"].ack = op'.ack
      /\ \A c \in Callers \ {"control"} : pc'[c] = pc[c] /\ copy'[c] = copy[c]
  BY <1>1 DEF Typed, Callers
<1>6. \A c \in Callers : pc[c] \notin Working
  BY <1>1 DEF Safe, HoldsLock, Nobody, Callers
<1>7. HoldsLock'
  BY <1>1, <1>5, <1>6 DEF HoldsLock, Working
<1>8. CanaryIsTarget' /\ ListAgrees'
  BY <1>1, <1>2, <1>5, <1>6 DEF Safe, CanaryIsTarget, ListAgrees, Listed, Working
<1>9. ChildrenAgree' /\ SuccessIsComplete'
  BY <1>1, <1>2 DEF Safe, ChildrenAgree, SuccessIsComplete
<1>10. AckIsResumed'
  BY <1>1, <1>2, <1>5 DEF Safe, AckIsResumed
<1>11. CancelAgrees'
  BY <1>2, <1>5, <1>6 DEF CancelAgrees, Working, Callers
<1> QED
  BY <1>4, <1>7, <1>8, <1>9, <1>10, <1>11 DEF Safe

(* Blocking the pending targets changes nothing else about them.             *)
LEMMA BlockedTargets ==
    ASSUME Typed
    PROVE  /\ Blocked(target) \in [Targets -> Statuses] /\ ~Has(Blocked(target), { "PENDING" })
           /\ \A i \in Targets : /\ Blocked(target)[i] = "NONE" <=> target[i] = "NONE"
                                 /\ Blocked(target)[i] = "SUCCEEDED" => target[i] = "SUCCEEDED"
BY DEF Blocked, Typed, Statuses, Has

(* The second transaction of a cancel, when it succeeds.                     *)
LEMMA BlockStep ==
    ASSUME Typed, Safe, pc["control"] = "block", target' = Blocked(target),
           pc' = [pc EXCEPT !["control"] = "settle"],
           UNCHANGED <<op, canary, child, toMark, copy, lock, seen, pick, failedNow, asked, gate, resumed,
                       failures, unblocked>>
    PROVE  Typed' /\ Safe'
<1>1. /\ UNCHANGED <<op, canary, child, toMark, copy, lock, seen, pick, failedNow, asked, gate, resumed>>
      /\ pc["control"] = "block" /\ target' = Blocked(target) /\ pc' = [pc EXCEPT !["control"] = "settle"]
  OBVIOUS
<1>2. /\ target' \in [Targets -> Statuses] /\ ~Has(target', { "PENDING" })
      /\ \A i \in Targets : /\ target'[i] = "NONE" <=> target[i] = "NONE"
                            /\ target'[i] = "SUCCEEDED" => target[i] = "SUCCEEDED"
  BY <1>1, BlockedTargets
<1>3. Typed'
  BY <1>1, <1>2 DEF Typed, Labels
<1>4. pc'["control"] = "settle" /\ \A c \in Callers \ {"control"} : pc'[c] = pc[c]
  BY <1>1 DEF Typed, Callers
<1>5. lock = "control" /\ \A c \in Callers : pc'[c] \notin Listed
  <2>1. lock = "control"
    BY <1>1 DEF Safe, HoldsLock, Working, Callers
  <2>2. ASSUME NEW c \in Callers \ {"control"}
        PROVE  pc'[c] \notin Listed
    BY <1>4, <2>1 DEF Safe, HoldsLock, Working, Listed
  <2> QED
    BY <1>4, <2>1, <2>2 DEF Listed
<1>6. HoldsLock'
  BY <1>1, <1>4, <1>5 DEF Safe, HoldsLock, Working
<1>7. AckIsResumed' /\ ListAgrees'
  BY <1>1, <1>5 DEF Safe, AckIsResumed, ListAgrees, Listed
<1>8. CanaryIsTarget'
  BY <1>1, <1>2, <1>4 DEF Safe, CanaryIsTarget, Typed, Callers
<1>9. ChildrenAgree' /\ SuccessIsComplete'
  BY <1>1, <1>2 DEF Safe, ChildrenAgree, SuccessIsComplete
<1>10. CancelAgrees'
  BY <1>2, <1>5 DEF CancelAgrees, Listed
<1> QED
  BY <1>3, <1>6, <1>7, <1>8, <1>9, <1>10 DEF Safe

(* The updates that have ended are recorded, and the list is taken.          *)
LEMMA SettleStep ==
    ASSUME Typed, Safe, NEW c \in Callers, Settle(c)
    PROVE  Typed' /\ Safe'
<1>1. /\ UNCHANGED <<op, canary, child, toMark, copy, lock, pick, asked, resumed, failures, unblocked>>
      /\ lock = c /\ pc[c] = "settle" /\ pc' = [pc EXCEPT ![c] = "decide"]
      /\ target' = [i \in Targets |-> Settled(i)] /\ seen' = target'
      /\ failedNow' \in BOOLEAN /\ gate' \in BOOLEAN
  BY DEF Settle, Mine, Typed, trouble
<1>2. ASSUME NEW i \in Targets
      PROVE  /\ target'[i] \in Statuses /\ (target'[i] = "NONE" <=> target[i] = "NONE")
             /\ target'[i] = "PENDING" => target[i] = "PENDING"
             /\ target'[i] = "SUCCEEDED" => child[i] = "succeeded"
  BY <1>1 DEF Settled, Typed, Safe, ChildrenAgree, Statuses
<1>3. Typed'
  BY <1>1, <1>2 DEF Typed, Labels
<1>4. pc'[c] = "decide" /\ \A d \in Callers \ {c} : pc'[d] = pc[d]
  BY <1>1 DEF Typed
<1>5. HoldsLock' /\ AckIsResumed'
  BY <1>1, <1>4 DEF Safe, HoldsLock, AckIsResumed, Working
<1>6. CanaryIsTarget'
  BY <1>1, <1>2, <1>4 DEF Safe, CanaryIsTarget, Typed
<1>7. \A d \in Callers \ {c} : pc[d] \notin Working
  BY <1>1 DEF Safe, HoldsLock
<1>8. ListAgrees' /\ ChildrenAgree' /\ SuccessIsComplete'
  BY <1>1, <1>2, <1>4, <1>7 DEF Safe, ListAgrees, ChildrenAgree, SuccessIsComplete, Working, Listed
<1>9. CancelAgrees'
  <2> SUFFICES ASSUME op.control = "CANCELING", ~unblocked PROVE CancelAgrees'
    BY <1>1 DEF CancelAgrees
  <2>1. pc["control"] # "block"
    BY <1>1, <1>7 DEF Working, Callers
  <2>2. \/ ~Has(target, { "PENDING" })
        \/ \A d \in Callers : pc[d] \in { "mark", "wait", "settle" } => copy[d].control = "CANCELING"
    BY <2>1 DEF Safe, CancelAgrees
  <2>3. ~Has(target, { "PENDING" }) => ~Has(target', { "PENDING" })
    BY <1>2 DEF Has
  <2> QED
    BY <1>1, <1>4, <1>7, <2>2, <2>3 DEF CancelAgrees, Working
<1> QED
  BY <1>3, <1>5, <1>6, <1>8, <1>9 DEF Safe

(* A reconciliation ends: what it writes to the operation is justified by    *)
(* the targets.                                                              *)
LEMMA LeaveStep ==
    ASSUME Typed, Safe, NEW c \in Callers, pc[c] \in Working, Leave(c),
           UNCHANGED <<canary, child, toMark, copy, seen, pick, failedNow, asked, gate, resumed>>,
           target' \in { target, Blocked(target) },
           failures' \in 0 .. MaxFailures, unblocked' \in BOOLEAN,
           unblocked' = unblocked \/ unblocked' = TRUE \/ target' = Blocked(target),
           pc[c] = "block" => unblocked',
           op' \in Operations, op'.status # "NONE", op'.control = op.control \/ op'.control # "CANCELING",
           op'.ack => op.ack,
           op'.status = "SUCCEEDED" =>
              op.status = "SUCCEEDED" \/ \A i \in Targets : target'[i] # "NONE" => child[i] = "succeeded"
    PROVE  Typed' /\ Safe'
<1>1. pc' = [pc EXCEPT ![c] = "idle"] /\ lock' = Nobody
  BY DEF Leave
<1>2. /\ target' \in [Targets -> Statuses]
      /\ Has(target', { "PENDING" }) => Has(target, { "PENDING" })
      /\ \A i \in Targets : /\ target'[i] = "NONE" <=> target[i] = "NONE"
                            /\ target'[i] = "SUCCEEDED" => target[i] = "SUCCEEDED"
  BY BlockedTargets DEF Typed
<1>3. pc'[c] = "idle" /\ \A d \in Callers \ {c} : pc'[d] = pc[d]
  BY <1>1 DEF Typed
<1>4. \A d \in Callers : pc'[d] \notin Working
  BY <1>3 DEF Safe, HoldsLock, Working
<1>5. Typed'
  BY <1>1, <1>2 DEF Typed, Labels
<1>6. HoldsLock' /\ ListAgrees' /\ AckIsResumed'
  BY <1>4 DEF Safe, HoldsLock, ListAgrees, AckIsResumed, Working, Listed
<1>7. op.status # "NONE"
  BY DEF Safe, CanaryIsTarget, Working
<1>8. CanaryIsTarget'
  BY <1>2, <1>3, <1>7 DEF Safe, CanaryIsTarget, Typed
<1>9. ChildrenAgree' /\ SuccessIsComplete'
  BY <1>2 DEF Safe, ChildrenAgree, SuccessIsComplete
<1>10. CancelAgrees'
  <2> SUFFICES ASSUME op'.control = "CANCELING", ~unblocked' PROVE CancelAgrees'
    BY DEF CancelAgrees
  <2>1. op.control = "CANCELING" /\ pc["control"] # "block"
    BY DEF Safe, HoldsLock, Working, Callers
  <2>2. CASE target' = Blocked(target)
    BY <1>4, <2>2, BlockedTargets DEF CancelAgrees, Working
  <2>3. CASE ~unblocked
    BY <1>2, <1>3, <1>4, <2>1, <2>3 DEF Safe, CancelAgrees, Working
  <2> QED
    BY <2>2, <2>3
<1> QED
  BY <1>5, <1>6, <1>8, <1>9, <1>10 DEF Safe

(* A failed call is counted within the bound.                                *)
LEMMA CallCounted ==
    ASSUME Typed, CallFails \/ UNCHANGED failures
    PROVE  failures' \in 0 .. MaxFailures
BY RolloutAssumption DEF Typed, CallFails

(* A caller gives up: the pending targets could not be blocked, or the       *)
(* rollout not be read.                                                      *)
LEMMA FailStep ==
    ASSUME Typed, Safe, BlockPending \/ \E c \in Callers : ListFails(c)
    PROVE  Typed' /\ Safe'
<1>1. ASSUME NEW c \in Callers, pc[c] \in { "block", "settle" }, CallFails, Leave(c),
             UNCHANGED <<op, canary, target, child, toMark, copy, seen, pick, failedNow, asked, gate, resumed>>,
             unblocked' \in { unblocked, TRUE }, pc[c] = "block" => unblocked'
      PROVE  Typed' /\ Safe'
  <2>1. pc[c] \in Working /\ op \in Operations /\ op.status # "NONE"
    BY <1>1 DEF Working, Typed, Safe, CanaryIsTarget
  <2>2. failures' \in 0 .. MaxFailures /\ unblocked' \in BOOLEAN
    BY <1>1, CallCounted DEF Typed
  <2> QED
    BY <1>1, <2>1, <2>2, LeaveStep
<1>2. CASE BlockPending
  BY <1>1, <1>2, BlockStep DEF BlockPending, trouble, Callers
<1>3. ASSUME NEW c \in Callers, ListFails(c)
      PROVE  Typed' /\ Safe'
  BY <1>1, <1>3 DEF ListFails, Mine
<1> QED
  BY <1>2, <1>3

(* The ways a reconciliation ends.                                           *)
LEMMA EndStep ==
    ASSUME Typed, Safe, NEW c \in Callers,
           FinishNow(c) \/ CancelPending(c) \/ AutoPause(c) \/ Hold(c) \/ After(c)
    PROVE  Typed' /\ Safe'
<1>1. /\ pc[c] \in Listed /\ UNCHANGED <<canary, child, toMark, copy, seen, pick, failedNow, asked, gate, resumed>>
      /\ target' \in { target, Blocked(target) } /\ Leave(c)
  BY DEF FinishNow, CancelPending, AutoPause, Hold, After, Finish, Progress, Mine, Listed
<1>2. op.status # "NONE" /\ op \in Operations /\ pc[c] \in Working /\ pc[c] # "block"
  BY <1>1 DEF Safe, CanaryIsTarget, Listed, Working, Typed
<1>8. /\ failures' \in 0 .. MaxFailures /\ unblocked' \in BOOLEAN
      /\ unblocked' = unblocked \/ target' = Blocked(target)
  <2>1. CASE CancelPending(c)
    BY <2>1, CallCounted DEF CancelPending, Typed
  <2>2. CASE FinishNow(c) \/ AutoPause(c) \/ Hold(c) \/ After(c)
    BY <2>2 DEF FinishNow, AutoPause, Hold, After, trouble, Typed
  <2> QED
    BY <2>1, <2>2
<1>3. ASSUME NEW s \in { "RUNNING", "SUCCEEDED", "FAILED" }, SetStatus(s),
             s = "SUCCEEDED" => \A i \in Targets : target'[i] # "NONE" => child[i] = "succeeded"
      PROVE  Typed' /\ Safe'
  <2>1. /\ op' \in Operations /\ op'.status \in { op.status, s } /\ op'.control = op.control
        /\ op'.ack = op.ack
    BY <1>2, <1>3 DEF SetStatus, Operations
  <2> QED
    BY <1>1, <1>2, <1>3, <1>8, <2>1, LeaveStep
<1>4. CASE Paused
  <2>1. /\ op' \in Operations /\ op'.status = op.status /\ (op'.ack => op.ack)
        /\ op'.control = op.control \/ op'.control # "CANCELING"
    BY <1>2, <1>4 DEF Paused, UpdateControl, Operations
  <2>2. op'.status # "NONE" /\ (op'.status = "SUCCEEDED" => op.status = "SUCCEEDED")
    BY <1>2, <2>1
  <2> QED
    BY <1>1, <1>2, <1>8, <2>1, <2>2, LeaveStep
<1>5. ASSUME Terminal(seen), Finish(c, seen), UNCHANGED target
      PROVE  Typed' /\ Safe'
  <2> DEFINE s == IF copy[c].control = "CANCELING" \/ Has(seen, { "FAILED", "BLOCKED" })
                  THEN "FAILED" ELSE "SUCCEEDED"
  <2>1. SetStatus(s)
    BY <1>5 DEF Finish
  <2>2. s = "SUCCEEDED" => \A i \in Targets : seen[i] \in { "NONE", "SUCCEEDED" }
    BY <1>5 DEF Terminal, Has, Typed, Statuses
  <2>3. s \in { "RUNNING", "SUCCEEDED", "FAILED" }
    OBVIOUS
  <2> HIDE DEF s
  <2>4. s = "SUCCEEDED" => \A i \in Targets : target'[i] # "NONE" => child[i] = "succeeded"
    BY <1>1, <1>5, <2>2 DEF Safe, ListAgrees, ChildrenAgree
  <2> QED
    BY <1>3, <2>1, <2>3, <2>4
<1>6. CASE CancelPending(c)
  <2>1. SetStatus("FAILED") \/ SetStatus("RUNNING")
    BY <1>6 DEF CancelPending, Finish, Progress
  <2> QED
    BY <1>3, <2>1
<1>7. ASSUME Progress(c)
      PROVE  Typed' /\ Safe'
  BY <1>3, <1>7 DEF Progress
<1> QED
  BY <1>4, <1>5, <1>6, <1>7 DEF FinishNow, AutoPause, Hold, After

(* A row changes in the table and in the holder's list alike.                *)
LEMMA RowStep ==
    ASSUME Typed, Safe, NEW c \in Callers, pc[c] \in { "decide", "record" },
           NEW i \in Targets, pick' = i, seen[i] = "PENDING", NEW s \in Statuses \ { "NONE", "PENDING" },
           target' = [target EXCEPT ![i] = s], seen' = [seen EXCEPT ![i] = s],
           pc' = [pc EXCEPT ![c] = "after"], gate' \in BOOLEAN,
           child' \in [Targets -> { "none", "active", "succeeded", "failed" }],
           \A j \in Targets : child[j] = "succeeded" => child'[j] = "succeeded",
           s = "SUCCEEDED" => child'[i] = "succeeded",
           UNCHANGED <<op, canary, toMark, copy, lock, failedNow, asked, resumed, failures, unblocked>>
    PROVE  Typed' /\ Safe'
<1>1. /\ target'[i] = s /\ seen'[i] = s
      /\ \A j \in Targets \ {i} : target'[j] = target[j] /\ seen'[j] = seen[j]
      /\ pc'[c] = "after" /\ \A d \in Callers \ {c} : pc'[d] = pc[d]
  BY DEF Typed
<1>2. lock = c /\ \A d \in Callers \ {c} : pc[d] \notin Working
  BY DEF Safe, HoldsLock, Working
<1>3. Typed'
  BY DEF Typed, Labels
<1>4. HoldsLock' /\ AckIsResumed'
  BY <1>1 DEF Safe, HoldsLock, AckIsResumed, Working
<1>5. target[i] # "NONE" /\ op.status # "NONE" /\ canary \in Targets /\ seen[canary] = target[canary]
  BY DEF Safe, ListAgrees, CanaryIsTarget, Listed
<1>6. CanaryIsTarget'
  BY <1>1, <1>5 DEF Safe, CanaryIsTarget, Typed
<1>7. ListAgrees'
  BY <1>1, <1>2, <1>5 DEF Safe, ListAgrees, Working, Listed
<1>8. ChildrenAgree' /\ SuccessIsComplete'
  BY <1>1, <1>5 DEF Safe, ChildrenAgree, SuccessIsComplete
<1>9. CancelAgrees'
  BY <1>1 DEF Safe, CancelAgrees, Has
<1> QED
  BY <1>3, <1>4, <1>6, <1>7, <1>8, <1>9 DEF Safe

(* Queueing a target, and recording it.                                      *)
LEMMA TargetStep ==
    ASSUME Typed, Safe, NEW c \in Callers, QueueTarget(c) \/ Record(c)
    PROVE  Typed' /\ Safe'
<1>1. CASE Record(c)
  <2>1. pc[c] = "record" /\ pick \in Targets /\ seen[pick] = "PENDING"
    BY <1>1 DEF Record, Mine, Safe, ListAgrees
  <2>2. "RUNNING" \in Statuses \ { "NONE", "PENDING" }
    BY DEF Statuses
  <2>3. /\ target' = [target EXCEPT ![pick] = "RUNNING"] /\ seen' = [seen EXCEPT ![pick] = "RUNNING"]
        /\ pc' = [pc EXCEPT ![c] = "after"] /\ pick' = pick /\ child' = child /\ gate' = gate
        /\ UNCHANGED <<op, canary, toMark, copy, lock, failedNow, asked, resumed, failures, unblocked>>
    BY <1>1 DEF Record, UpdateTarget, trouble
  <2>4. /\ gate' \in BOOLEAN /\ child' \in [Targets -> { "none", "active", "succeeded", "failed" }]
        /\ \A j \in Targets : child[j] = "succeeded" => child'[j] = "succeeded"
    BY <2>3 DEF Typed
  <2> QED
    BY <2>1, <2>2, <2>3, <2>4, RowStep
<1>2. CASE QueueTarget(c)
  <2>1. /\ MayStart(c) /\ pick' = NextTarget
        /\ UNCHANGED <<op, canary, toMark, copy, lock, failedNow, asked, resumed, failures, unblocked>>
    BY <1>2 DEF QueueTarget, trouble
  <2>2. pc[c] = "decide" /\ Has(seen, { "PENDING" })
    BY <2>1 DEF MayStart, Mine
  <2>3. op.status # "NONE" /\ canary \in Targets
    BY <2>2 DEF Safe, CanaryIsTarget
  <2>4. PICK i \in Targets : i = pick' /\ seen[i] = "PENDING"
    BY <2>1, <2>2, <2>3, NextIsPending
  <2>5. ASSUME Eligible(i), child' = [child EXCEPT ![i] = "active"], pc' = [pc EXCEPT ![c] = "record"],
               UNCHANGED <<target, seen, gate>>
        PROVE  Typed' /\ Safe'
    <3>1. Typed'
      BY <2>1, <2>4, <2>5 DEF Typed, Labels
    <3>2. pc'[c] = "record" /\ \A d \in Callers \ {c} : pc'[d] = pc[d]
      BY <2>5 DEF Typed
    <3>3. lock = c /\ \A d \in Callers \ {c} : pc[d] \notin Working
      BY <2>2 DEF Safe, HoldsLock, Working
    <3>4. \A j \in Targets : child[j] = "succeeded" => child'[j] = "succeeded"
      BY <2>5 DEF Eligible, Typed
    <3>5. HoldsLock' /\ AckIsResumed' /\ CanaryIsTarget'
      BY <2>1, <2>2, <2>5, <3>2 DEF Safe, HoldsLock, AckIsResumed, CanaryIsTarget, Working
    <3>6. ListAgrees'
      BY <2>1, <2>2, <2>4, <2>5, <3>2, <3>3 DEF Safe, ListAgrees, Working, Listed
    <3>7. ChildrenAgree' /\ SuccessIsComplete'
      BY <2>1, <2>5, <3>4 DEF Safe, ChildrenAgree, SuccessIsComplete
    <3>8. CancelAgrees'
      BY <2>1, <2>2, <2>5, <3>2 DEF Safe, CancelAgrees, Has
    <3> QED
      BY <3>1, <3>5, <3>6, <3>7, <3>8 DEF Safe
  <2>6. ASSUME NEW s \in { "SUCCEEDED", "BLOCKED" }, UpdateTarget(i, s), seen' = [seen EXCEPT ![i] = s],
               child' \in { child, [child EXCEPT ![i] = "succeeded"] },
               s = "SUCCEEDED" => child' = [child EXCEPT ![i] = "succeeded"],
               pc' = [pc EXCEPT ![c] = "after"], gate' \in { gate, TRUE }
        PROVE  Typed' /\ Safe'
    <3>1. s \in Statuses \ { "NONE", "PENDING" } /\ target' = [target EXCEPT ![i] = s]
      BY <2>6 DEF Statuses, UpdateTarget
    <3>2. /\ child' \in [Targets -> { "none", "active", "succeeded", "failed" }] /\ gate' \in BOOLEAN
          /\ \A j \in Targets : child[j] = "succeeded" => child'[j] = "succeeded"
          /\ s = "SUCCEEDED" => child'[i] = "succeeded"
      BY <2>6 DEF Typed
    <3> QED
      BY <2>1, <2>2, <2>4, <2>6, <3>1, <3>2, RowStep
  <2> QED
    BY <1>2, <2>4, <2>5, <2>6 DEF QueueTarget
<1> QED
  BY <1>1, <1>2

(* An update ends; the process is restarted.                                 *)
LEMMA OutsideStep ==
    ASSUME Typed, Safe, Restart \/ \E i \in Targets : ChildEnds(i)
    PROVE  Typed' /\ Safe'
<1>1. UNCHANGED <<op, canary, target, copy, seen, pick, failedNow, asked, gate, resumed, failures>>
  BY DEF Restart, ChildEnds, trouble
<1>2. ASSUME NEW i \in Targets, ChildEnds(i)
      PROVE  Typed' /\ Safe'
  <2>1. /\ UNCHANGED <<toMark, pc, lock, unblocked>> /\ child' \in [Targets -> { "none", "active", "succeeded", "failed" }]
        /\ \A j \in Targets : child[j] = "succeeded" => child'[j] = "succeeded"
    BY <1>2 DEF ChildEnds, trouble, Typed
  <2>2. Typed'
    BY <1>1, <2>1 DEF Typed
  <2> QED
    BY <1>1, <2>1, <2>2 DEF Safe, HoldsLock, CanaryIsTarget, ListAgrees, ChildrenAgree, AckIsResumed,
       CancelAgrees, SuccessIsComplete, Has
<1>3. CASE Restart
  <2>1. /\ child' = child /\ toMark' = {} /\ lock' = Nobody /\ pc' \in [Callers -> Labels]
        /\ unblocked' = FALSE
        /\ \A c \in Callers : pc'[c] = "idle"
    BY <1>3 DEF Restart, Labels
  <2>2. Typed'
    BY <1>1, <2>1 DEF Typed
  <2>3. pc'["control"] = "idle"
    BY <2>1 DEF Callers
  <2> QED
    BY <1>1, <2>1, <2>2, <2>3 DEF Safe, HoldsLock, CanaryIsTarget, ListAgrees, ChildrenAgree, AckIsResumed,
       CancelAgrees, SuccessIsComplete, Has, Working, Listed
<1> QED
  BY <1>2, <1>3

------------------------------------------------------------------------------
(* The theorems.                                                           *)

(* There is no rollout at first.                                             *)
LEMMA InitInvariant == Init => IInv
<1> SUFFICES ASSUME Init PROVE IInv
  OBVIOUS
<1>1. Typed
  <2>1. op \in Operations /\ asked \in 0 .. MaxControls /\ failures \in 0 .. MaxFailures
    BY RolloutAssumption DEF Init, Operations
  <2>2. target \in [Targets -> Statuses] /\ seen \in [Targets -> Statuses]
    BY DEF Init, Statuses
  <2>3. copy \in [Callers -> Copies] /\ pc \in [Callers -> Labels]
    BY DEF Init, Copies, Labels, NoMetadata
  <2>4. child \in [Targets -> { "none", "active", "succeeded", "failed" }]
    BY DEF Init
  <2> QED
    BY <2>1, <2>2, <2>3, <2>4 DEF Init, Typed
<1>2. Safe
  BY <1>1 DEF Init, NoMetadata, Safe, HoldsLock, CanaryIsTarget, ListAgrees, ChildrenAgree, AckIsResumed,
     CancelAgrees, SuccessIsComplete, Working, Listed
<1> QED
  BY <1>1, <1>2, TypedIsTypeOK DEF IInv, Safe

(* Every step keeps the invariant.                                           *)
LEMMA NextInvariant == IInv /\ [Next]_vars => IInv'
<1> SUFFICES ASSUME IInv, [Next]_vars
             PROVE  IInv'
  OBVIOUS
<1>1. Typed /\ Safe
  BY TypedIsTypeOK DEF IInv, Safe
<1>2. ASSUME NEW c \in Callers, Reconcile(c)
      PROVE  Typed' /\ Safe'
  BY <1>1, <1>2, TurnStep, SettleStep, FailStep, EndStep, TargetStep DEF Reconcile
<1>3. ASSUME NEW r \in { "PAUSED", "RUNNING", "CANCELING" }, Control(r)
      PROVE  Typed' /\ Safe'
  BY <1>1, <1>3, ControlStep
<1>4. ASSUME UNCHANGED vars
      PROVE  Typed' /\ Safe'
  <2>1. Typed'
    BY <1>1, <1>4 DEF vars, Typed
  <2> QED
    BY <1>1, <1>4, <2>1 DEF vars, Safe, HoldsLock, CanaryIsTarget, ListAgrees, ChildrenAgree, AckIsResumed,
       CancelAgrees, SuccessIsComplete, Has
<1>5. Typed' /\ Safe'
  BY <1>1, <1>2, <1>3, <1>4, StartStep, MarkStep, TurnStep, FailStep, OutsideStep DEF Next
<1>6. Typed' => TypeOK'
  BY DEF Typed, TypeOK, Operations, Copies, Labels
<1> QED
  BY <1>5, <1>6 DEF IInv, Safe

(* Every reachable state satisfies the inductive invariant.                  *)
THEOREM RolloutInvariance == Spec => []IInv
<1>1. Init /\ [][Next]_vars => []IInv
  BY InitInvariant, NextInvariant, PTL
<1> QED
  BY <1>1, PTL DEF Spec

(* A rollout that succeeded has brought all of its targets to the release,   *)
(* through restarts in the middle of a reconciliation.                       *)
THEOREM RolloutSuccess == Spec => []SuccessIsComplete
<1>1. IInv => SuccessIsComplete
  BY DEF IInv
<1> QED
  BY <1>1, RolloutInvariance, PTL

(* An update starts only in QueueTarget, of the target it picked.            *)
LEMMA StartedIsQueued ==
    ASSUME Typed, Safe, Next, NEW i \in Targets, Started(i)
    PROVE  \E c \in Callers : MayStart(c) /\ pc[c] = "decide" /\ i = NextTarget
<1>1. PICK c \in Callers : QueueTarget(c)
  BY DEF Next, Reconcile, Started, startPolicyRollout, MarkBlocked, ListActive, BlockPending, Control,
     ChildEnds, Restart, Lock, Settle, ListFails, FinishNow, CancelPending, AutoPause, Hold, Record, After, Typed
<1>2. MayStart(c) /\ pc[c] = "decide" /\ pick' = NextTarget
  BY <1>1 DEF QueueTarget, MayStart, Mine
<1>3. i = pick'
  BY <1>1 DEF QueueTarget, Started, Typed
<1> QED
  BY <1>2, <1>3

(* Once a cancel is recorded no update starts: neither the loop nor the      *)
(* starting request, which read the metadata before, queues a target, unless *)
(* the cancel request failed to block the pending ones and nobody has since. *)
THEOREM CancelStartsNothing == Spec => CanceledStartsNothing
<1>1. IInv /\ [Next]_vars => [(\E i \in Targets : Started(i)) => op.control # "CANCELING" \/ unblocked]_vars
  <2> SUFFICES ASSUME IInv, Next, NEW i \in Targets, Started(i)
               PROVE  op.control # "CANCELING" \/ unblocked
    OBVIOUS
  <2>1. Typed /\ Safe
    BY TypedIsTypeOK DEF IInv, Safe
  <2>2. PICK c \in Callers : MayStart(c) /\ pc[c] = "decide"
    BY <2>1, StartedIsQueued
  <2>3. copy[c].control = "RUNNING" /\ Has(seen, { "PENDING" })
    BY <2>2 DEF MayStart
  <2> QED
    BY <2>1, <2>2, <2>3 DEF Safe, CancelAgrees
<1> QED
  BY <1>1, RolloutInvariance, PTL DEF Spec, CanceledStartsNothing

(* The canary goes first: another target starts only after the canary        *)
(* succeeded or an operator resumed the rollout.                             *)
THEOREM CanaryGoesFirst == Spec => CanaryFirst
<1>1. IInv /\ [Next]_vars =>
        [\A i \in Targets : Started(i) /\ i # canary /\ target[canary] # "SUCCEEDED" => resumed]_vars
  <2> SUFFICES ASSUME IInv, Next, NEW i \in Targets, Started(i), i # canary, target[canary] # "SUCCEEDED"
               PROVE  resumed
    OBVIOUS
  <2>1. Typed /\ Safe
    BY TypedIsTypeOK DEF IInv, Safe
  <2>2. PICK c \in Callers : MayStart(c) /\ pc[c] = "decide" /\ i = NextTarget
    BY <2>1, StartedIsQueued
  <2>3. /\ copy[c].control = "RUNNING" /\ Has(seen, { "PENDING" }) /\ ~Has(seen, { "RUNNING" })
        /\ seen[canary] \in { "FAILED", "BLOCKED" } => copy[c].ack
    BY <2>2 DEF MayStart, MustPause
  <2>4. /\ canary \in Targets /\ target[canary] # "NONE" /\ seen[canary] = target[canary]
    BY <2>1, <2>2 DEF Safe, CanaryIsTarget, ListAgrees, Listed
  <2>5. seen[canary] # "PENDING"
    BY <2>1, <2>2, <2>3, <2>4, NextIsPending
  <2>6. seen[canary] # "RUNNING" /\ seen[canary] \in Statuses
    BY <2>1, <2>3, <2>4 DEF Has, Typed
  <2>7. copy[c].ack
    BY <2>3, <2>4, <2>5, <2>6 DEF Statuses
  <2> QED
    BY <2>1, <2>7 DEF Safe, AckIsResumed
<1> QED
  BY <1>1, RolloutInvariance, PTL DEF Spec, CanaryFirst
==============================================================================
