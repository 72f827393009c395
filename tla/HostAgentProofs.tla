---------------------------- MODULE HostAgentProofs ----------------------------
(***************************************************************************)
(* Proofs about the job queue and the Host Agent that works it.            *)
(*                                                                         *)
(* Part 1 is about JobStore alone, for every number of hosts, instances,   *)
(* sessions, jobs, claims and lease ticks: the invariant of the queue.     *)
(* Part 2 is about its other tables, which agree with each other:          *)
(* operations, messages, event streams and configuration rows with their   *)
(* jobs, and the limits of the queue.  There every step of the store is    *)
(* first brought into one of few forms a row can take; the invariants are  *)
(* argued on those forms.  Part 3 adds the agent, for every number of      *)
(* workers and all durations that fit together (TimingAssumption): a       *)
(* worker that executes a lifecycle job holds its lease, a stored result   *)
(* is answered to its worker, and agent and queue together implement       *)
(* ExclusiveExecution.                                                     *)
(***************************************************************************)
EXTENDS HostAgent, FiniteSetTheorems, WellFoundedInduction, TLAPS

-----------------------------------------------------------------------------
(* Part 1: the job queue.                                                  *)

(* The job types whose result puts the status their payload asked for back. *)
ReturningTypes ==
    { "image.repair", "runtime.sync", "runtime.configure", "hermes.update" } \cup ConfigTypes

(* What every row carries: an instance, a payload that asks for a resting   *)
(* status, an untouched lease before the first claim, an open stream.       *)
RowsOK ==
    \A j \in JobIds :
        /\ jobs[j].type \in JobTypes => jobs[j].inst \in Instances
        /\ Active(j) => jobs[j].type \in JobTypes
        /\ Active(j) /\ jobs[j].type \in ReturningTypes => jobs[j].asked \in { "RUNNING", "STOPPED" }
        /\ jobs[j].status = "PENDING" => jobs[j].attempts = 0
        /\ jobs[j].status \notin TerminalStatuses => \A e \in events[j] : e.seq <= MaxSequence

(* An instance without a row has no work.                                   *)
UnbornIdle ==
    \A i \in Instances : inst[i] = "NONE" =>
        /\ i \notin reveals
        /\ \A j \in JobIds : Active(j) => jobs[j].inst # i

(* Inspections that need Hermes wait on a running instance.                 *)
InspectedRuns ==
    \A j \in JobIds : Active(j) /\ jobs[j].type \in RunningInspectionTypes =>
        inst[jobs[j].inst] = "RUNNING"

(* After a successful delete job nothing owns the instance any more.        *)
DeletedForGood ==
    \A j \in JobIds : jobs[j].type = "delete" /\ jobs[j].status = "SUCCEEDED" =>
        /\ inst[jobs[j].inst] \in { "DELETING", "DELETED" }
        /\ \A k \in JobIds : Active(k) /\ Lifecycle(k) => jobs[k].inst # jobs[j].inst

IInv ==
    /\ TypeOK /\ RowsOK
    /\ UnbornIdle /\ OneExclusiveJob /\ LifecycleFence /\ ChatLifecycleExclusion
    /\ InspectedRuns /\ DeletedForGood

------------------------------------------------------------------------------
(* The streams of events.                                                  *)

(* The largest number of a non-empty bounded set exists: Max, which Closed  *)
(* uses for the next sequence number, is well defined.                      *)
LEMMA MaxOfBounded ==
    ASSUME NEW n \in Nat, NEW S \in SUBSET (0..n), S # {}
    PROVE  Max(S) \in S /\ \A y \in S : y <= Max(S)
<1> DEFINE T == { n - x : x \in S }
<1>1. T \subseteq Nat /\ T # {}
  <2>1. \A x \in S : x \in 0..n
    OBVIOUS
  <2>2. \A x \in S : n - x \in Nat
    BY <2>1
  <2> QED
    BY <2>2
<1>2. PICK m \in T : \A y \in T : <<y, m>> \notin OpToRel(<, Nat)
  BY <1>1, NatLessThanWellFounded, WFMin
<1>3. \A y \in T : m <= y
  <2> TAKE y \in T
  <2>1. y \in Nat /\ m \in Nat
    BY <1>1
  <2>2. ~(y < m)
    BY <1>2, <2>1 DEF OpToRel
  <2> QED
    BY <2>1, <2>2
<1>4. PICK x \in S : m = n - x
  OBVIOUS
<1>5. \A y \in S : x >= y
  <2> TAKE y \in S
  <2>1. n - y \in T
    OBVIOUS
  <2>2. n - x <= n - y
    BY <1>3, <1>4, <2>1
  <2>3. x \in Int /\ y \in Int
    OBVIOUS
  <2> QED
    BY <2>2, <2>3
<1> HIDE DEF T
<1>6. Max(S) \in S /\ \A y \in S : Max(S) >= y
  BY <1>5 DEF Max
<1>7. \A y \in S : y \in Int
  OBVIOUS
<1> QED
  BY <1>6, <1>7

(* Closing an open stream keeps it typed.                                   *)
LEMMA ClosedStream ==
    ASSUME NEW stream \in SUBSET [seq : 0..(MaxSequence + 1), type : EventTypes],
           \A e \in stream : e.seq <= MaxSequence,
           NEW type \in EventTypes
    PROVE  Closed(stream, type) \in SUBSET [seq : 0..(MaxSequence + 1), type : EventTypes]
<1> DEFINE S == { e.seq : e \in stream } \cup { 0 }
<1>1. MaxSequence \in Nat
  BY BoundsAssumption
<1>2. S \in SUBSET (0..MaxSequence) /\ S # {}
  BY <1>1
<1>3. Max(S) \in 0..MaxSequence
  BY <1>1, <1>2, MaxOfBounded
<1> HIDE DEF S
<1>4. 1 + Max(S) \in 0..(MaxSequence + 1)
  BY <1>1, <1>3
<1> QED
  BY <1>4 DEF Closed, S

------------------------------------------------------------------------------
(* Rows.                                                                   *)

(* The fields of a fresh row.                                               *)
LEMMA NewJobRow ==
    ASSUME NEW type \in JobTypes, NEW i \in Instances, NEW s \in Sessions \cup { NoOne },
           NEW asked \in InstanceStatuses, NEW rev \in Revisions \cup { NoRevision }
    PROVE  LET job == NewJob(type, i, s, asked, rev)
           IN /\ job \in JobRecords
              /\ job.type = type /\ job.inst = i /\ job.sess = s /\ job.status = "PENDING"
              /\ job.asked = asked /\ job.rev = rev /\ job.attempts = 0
<1>1. "PENDING" \in JobStatuses /\ NoResult \in Results
  BY DEF JobStatuses, NoResult, Results, InstanceStatuses
<1>2. NoToken \in 0..MaxClaims /\ NoLease \in -1..LeaseTicks /\ 0 \in 0..MaxClaims
  BY BoundsAssumption DEF NoToken, NoLease
<1> QED
  BY <1>1, <1>2 DEF NewJob, NoJob, JobRecords

(* A row taken away from its worker is typed and says so.                   *)
LEMMA FencedRow ==
    ASSUME NEW job \in JobRecords
    PROVE  /\ Fenced(job) \in JobRecords
           /\ Fenced(job).status = "FAILED"
           /\ Fenced(job).type = job.type /\ Fenced(job).inst = job.inst
           /\ Fenced(job).sess = job.sess /\ Fenced(job).rev = job.rev
           /\ Fenced(job).attempts = job.attempts
<1>1. "FAILED" \in JobStatuses
  BY DEF JobStatuses
<1>2. NoToken \in 0..MaxClaims /\ NoLease \in -1..LeaseTicks
  BY BoundsAssumption DEF NoToken, NoLease
<1> QED
  BY <1>1, <1>2 DEF Fenced, JobRecords

(* A leased row is typed as long as a claim is left.                        *)
LEMMA LeasedRow ==
    ASSUME NEW job \in JobRecords, job.attempts < MaxClaims
    PROVE  /\ LeasedTo(job) \in JobRecords
           /\ LeasedTo(job).status = "LEASED"
           /\ LeasedTo(job).type = job.type /\ LeasedTo(job).inst = job.inst
           /\ LeasedTo(job).asked = job.asked
           /\ LeasedTo(job).sess = job.sess /\ LeasedTo(job).rev = job.rev
           /\ LeasedTo(job).attempts = job.attempts + 1
<1>1. "LEASED" \in JobStatuses
  BY DEF JobStatuses
<1>2. job.attempts \in 0..MaxClaims
  BY DEF JobRecords
<1>3. job.attempts + 1 \in 0..MaxClaims /\ LeaseTicks \in -1..LeaseTicks
  BY <1>2, BoundsAssumption
<1> QED
  BY <1>1, <1>3 DEF LeasedTo, JobRecords

(* A configuration row that waits for its job is typed.                     *)
LEMMA PendingConfigRow ==
    ASSUME NEW row \in ConfigRecords, NEW rev \in Revisions
    PROVE  [row EXCEPT !.status = "PENDING", !.desired = rev] \in ConfigRecords
BY DEF ConfigRecords

(* What inserting a row does to the two tables.                             *)
LEMMA Inserted ==
    ASSUME TypeOK, NEW j \in JobIds, NEW job \in JobRecords, insertOperationAndJob(j, job)
    PROVE  /\ jobs' \in [JobIds -> JobRecords] /\ ops' \in [JobIds -> OperationStatuses]
           /\ jobs[j].status = "NONE" /\ jobs'[j] = job
           /\ \A k \in JobIds \ {j} : jobs'[k] = jobs[k]
<1>1. jobs[j].status = "NONE"
  BY BoundsAssumption DEF insertOperationAndJob, NextRow, JobIds
<1>2. /\ jobs' \in [JobIds -> JobRecords] /\ ops' \in [JobIds -> OperationStatuses]
      /\ jobs'[j] = job /\ \A k \in JobIds \ {j} : jobs'[k] = jobs[k]
  BY DEF insertOperationAndJob, TypeOK, OperationStatuses
<1> QED
  BY <1>1, <1>2

------------------------------------------------------------------------------
(* Queued rows.                                                            *)

(* A row that may be queued.                                                *)
Queueable(job) ==
    /\ job \in JobRecords /\ job.status = "PENDING" /\ job.attempts = 0
    /\ job.type \in JobTypes /\ job.inst \in Instances
    /\ job.type \in ReturningTypes => job.asked \in { "RUNNING", "STOPPED" }

(* Every row the handlers build is one.                                     *)
LEMMA QueueableRow ==
    ASSUME NEW type \in JobTypes, NEW i \in Instances, NEW s \in Sessions \cup { NoOne },
           NEW asked \in InstanceStatuses, NEW rev \in Revisions \cup { NoRevision },
           type \in ReturningTypes => asked \in { "RUNNING", "STOPPED" }
    PROVE  LET job == NewJob(type, i, s, asked, rev)
           IN Queueable(job) /\ job.type = type /\ job.inst = i
BY NewJobRow DEF Queueable

(* Queueing one keeps the rows in order.                                    *)
LEMMA QueuedRows ==
    ASSUME TypeOK, RowsOK, NEW j \in JobIds, NEW job, Queueable(job),
           insertOperationAndJob(j, job), \A e \in events'[j] : e.seq <= MaxSequence,
           \A k \in JobIds \ {j} : events'[k] = events[k]
    PROVE  RowsOK'
<1>1. jobs'[j] = job /\ \A k \in JobIds \ {j} : jobs'[k] = jobs[k]
  BY Inserted DEF Queueable
<1> QED
  BY <1>1 DEF RowsOK, Queueable, Active, TerminalStatuses

------------------------------------------------------------------------------
(* Steps that queue nothing.                                               *)

Resting == { "RUNNING", "STOPPED", "FAILED" }
Settled == Resting \cup { "DELETING" }

(* The types of the jobs whose end may write the instance row.              *)
OwnerTypes == LifecycleTypes \cup { "hermes.inspect" }

(* What a step that queues nothing may do: it starts no job, a delete job    *)
(* succeeds with the instance DELETING, an instance row changes only to a    *)
(* settled status with the end of a job that owns it, and every ended        *)
(* lifecycle job leaves a settled status behind.                             *)
Releases ==
    /\ \A k \in JobIds : Active(k)' =>
          Active(k) /\ jobs'[k].type = jobs[k].type /\ jobs'[k].inst = jobs[k].inst
    /\ \A k \in JobIds : jobs'[k].type = "delete" /\ jobs'[k].status = "SUCCEEDED" =>
          \/ jobs'[k] = jobs[k]
          \/ /\ Active(k) /\ jobs[k].type = "delete" /\ jobs'[k].inst = jobs[k].inst
             /\ inst'[jobs[k].inst] = "DELETING"
    /\ \A i \in Instances : inst'[i] # inst[i] =>
          /\ inst'[i] \in Settled
          /\ \E k \in JobIds : /\ Active(k) /\ ~Active(k)'
                               /\ jobs[k].type \in OwnerTypes /\ jobs[k].inst = i
    /\ \A k \in JobIds : Active(k) /\ Lifecycle(k) /\ ~Active(k)' =>
          inst'[jobs[k].inst] \in Settled
    /\ reveals' = reveals

(* A row as it was, or leased anew.                                          *)
Carried(row, job) ==
    \/ row = job
    \/ /\ job.status \in ActiveStatuses /\ row.status = "LEASED"
       /\ row.type = job.type /\ row.inst = job.inst /\ row.asked = job.asked

(* Where an abandoned lease leaves its instance.                             *)
LEMMA ExpirySettles ==
    ASSUME TypeOK, RowsOK, NEW j \in JobIds, Active(j)
    PROVE  /\ ExpiryStatus(j) \in Resting \cup { "" }
           /\ ExpiryStatus(j) # "" <=> jobs[j].type \in OwnerTypes
<1>1. jobs[j].type \in JobTypes
  BY DEF RowsOK
<1>2. jobs[j].type = "hermes.update" => jobs[j].asked \in { "RUNNING", "STOPPED" }
  BY DEF RowsOK, ReturningTypes
<1> QED
  BY <1>1, <1>2 DEF ExpiryStatus, statusAfterExpiry, JobTypes, OwnerTypes, LifecycleTypes,
     ActionTypes, ConfigTypes, InspectionTypes, RunningInspectionTypes, Resting

(* failExpiredJobLease for any set of expired leases.                        *)
LEMMA ExpiryStep ==
    ASSUME TypeOK, RowsOK, NEW F \in SUBSET JobIds, \A j \in F : Expired(j),
           NEW jobRows \in [JobIds -> JobRecords], NEW opRows \in [JobIds -> OperationStatuses],
           \A k \in JobIds : Carried(jobRows[k], jobs[k]),
           failExpiredJobLeases(F, jobRows, opRows)
    PROVE  TypeOK' /\ RowsOK' /\ Releases
<1>1. \A j \in F : Active(j)
  BY DEF Expired, Leased, Active, ActiveStatuses
<1>2. jobs \in [JobIds -> JobRecords] /\ inst \in [Instances -> InstanceStatuses]
  BY DEF TypeOK
<1>3. \A k \in JobIds : jobs'[k] = IF k \in F THEN Fenced(jobs[k]) ELSE jobRows[k]
  BY DEF failExpiredJobLeases
<1>4. jobs' \in [JobIds -> JobRecords]
  <2>1. \A k \in JobIds : Fenced(jobs[k]) \in JobRecords
    BY <1>2, FencedRow
  <2> QED
    BY <2>1 DEF failExpiredJobLeases
<1>5. ops' \in [JobIds -> OperationStatuses]
  BY DEF failExpiredJobLeases, OperationStatuses
<1>6. \A i \in Instances :
        \/ inst'[i] = inst[i] /\ \A j \in F : jobs[j].inst = i => ExpiryStatus(j) = ""
        \/ \E j \in F : jobs[j].inst = i /\ ExpiryStatus(j) # "" /\ inst'[i] = ExpiryStatus(j)
  BY DEF failExpiredJobLeases, InstancesAfterExpiry
<1>7. inst' \in [Instances -> InstanceStatuses]
  <2>1. \A i \in Instances : inst'[i] \in InstanceStatuses
    BY <1>1, <1>2, <1>6, ExpirySettles DEF Resting, InstanceStatuses
  <2> QED
    BY <2>1 DEF failExpiredJobLeases, InstancesAfterExpiry
<1>8. messages' \in [JobIds -> MessageStatuses]
  BY DEF failExpiredJobLeases, TypeOK, MessageStatuses
<1>9. /\ events' \in [JobIds -> SUBSET [seq : 0..(MaxSequence + 1), type : EventTypes]]
      /\ \A k \in JobIds \ F : events'[k] = events[k]
  <2>1. \A j \in F : Closed(events[j], "RUN_FAILED") \in
                        SUBSET [seq : 0..(MaxSequence + 1), type : EventTypes]
    <3> TAKE j \in F
    <3>1. events[j] \in SUBSET [seq : 0..(MaxSequence + 1), type : EventTypes]
      BY DEF TypeOK
    <3>2. \A e \in events[j] : e.seq <= MaxSequence
      BY <1>1 DEF RowsOK, Active, ActiveStatuses, TerminalStatuses
    <3> QED
      BY <3>1, <3>2, ClosedStream DEF EventTypes
  <2> QED
    BY <2>1 DEF failExpiredJobLeases, TypeOK
<1>10. config' \in [ConfigTypes -> [Instances -> ConfigRecords]]
  <2>1. \A row \in ConfigRecords : [row EXCEPT !.status = "FAILED"] \in ConfigRecords
    BY DEF ConfigRecords
  <2> QED
    BY <2>1 DEF failExpiredJobLeases, ConfigAfterExpiry, TypeOK
<1>11. TypeOK'
  BY <1>4, <1>5, <1>7, <1>8, <1>9, <1>10 DEF TypeOK, failExpiredJobLeases
<1>12. \A k \in JobIds \ F : Carried(jobs'[k], jobs[k])
  BY <1>3
<1>13. \A k \in F : /\ jobs'[k].status = "FAILED" /\ jobs'[k].type = jobs[k].type
                    /\ jobs'[k].inst = jobs[k].inst
  BY <1>2, <1>3, FencedRow
<1>14. RowsOK'
  BY <1>9, <1>12, <1>13 DEF RowsOK, Carried, Active, ActiveStatuses, TerminalStatuses
<1>15. Releases
  <2>1. \A k \in JobIds : Active(k)' =>
            Active(k) /\ jobs'[k].type = jobs[k].type /\ jobs'[k].inst = jobs[k].inst
    BY <1>12, <1>13 DEF Carried, Active, ActiveStatuses
  <2>2. \A k \in JobIds : jobs'[k].status = "SUCCEEDED" => jobs'[k] = jobs[k]
    BY <1>12, <1>13 DEF Carried
  <2>3. \A k \in F : ~Active(k)'
    BY <1>13 DEF Active, ActiveStatuses
  <2>4. \A i \in Instances : inst'[i] # inst[i] =>
          /\ inst'[i] \in Settled
          /\ \E k \in JobIds : /\ Active(k) /\ ~Active(k)'
                               /\ jobs[k].type \in OwnerTypes /\ jobs[k].inst = i
    BY <1>1, <1>6, <2>3, ExpirySettles DEF Settled
  <2>5. ASSUME NEW k \in JobIds, Active(k), Lifecycle(k), ~Active(k)'
        PROVE  inst'[jobs[k].inst] \in Settled
    <3>1. k \in F
      BY <1>12, <2>5 DEF Carried, Active, ActiveStatuses
    <3>2. jobs[k].inst \in Instances /\ ExpiryStatus(k) # ""
      BY <2>5, ExpirySettles DEF RowsOK, Lifecycle, OwnerTypes
    <3>3. PICK j \in F : inst'[jobs[k].inst] = ExpiryStatus(j) /\ ExpiryStatus(j) # ""
      BY <1>6, <3>1, <3>2
    <3>4. j \in JobIds /\ Active(j)
      BY <1>1
    <3> QED
      BY <3>3, <3>4, ExpirySettles DEF Settled
  <2> QED
    BY <2>1, <2>2, <2>4, <2>5 DEF Releases, failExpiredJobLeases
<1> QED
  BY <1>11, <1>14, <1>15

(* ClaimJob: the claimed job has a claim left, all failed ones had expired.  *)
LEMMA ClaimStep ==
    ASSUME TypeOK, RowsOK, NEW h \in Hosts, ClaimJob(h)
    PROVE  TypeOK' /\ RowsOK' /\ Releases
<1> DEFINE exhausted == { j \in Candidates(h) : Exhausted(j) }
           claimable == Candidates(h) \ exhausted
<1>1. jobs \in [JobIds -> JobRecords] /\ ops \in [JobIds -> OperationStatuses]
  BY DEF TypeOK
<1>2. exhausted \subseteq JobIds /\ claimable \subseteq JobIds
      /\ \A j \in exhausted : Expired(j)
  BY DEF Candidates, Exhausted
<1>3. ASSUME NEW c \in claimable,
             failExpiredJobLeases({ j \in exhausted : Earlier(j, c) },
                                  [jobs EXCEPT ![c] = LeasedTo(@)], [ops EXCEPT ![c] = "RUNNING"])
      PROVE  TypeOK' /\ RowsOK' /\ Releases
  <2>1. c \in JobIds /\ (jobs[c].status = "PENDING" \/ (Expired(c) /\ ~Exhausted(c)))
    BY <1>2 DEF Candidates
  <2>2. jobs[c] \in JobRecords /\ jobs[c].attempts \in 0..MaxClaims
    BY <1>1, <2>1 DEF JobRecords
  <2>3. jobs[c].attempts < MaxClaims
    BY <2>1, <2>2, BoundsAssumption DEF RowsOK, Exhausted
  <2>4. LeasedTo(jobs[c]) \in JobRecords /\ Carried(LeasedTo(jobs[c]), jobs[c])
    BY <2>1, <2>2, <2>3, LeasedRow DEF Carried, Expired, Leased, ActiveStatuses
  <2> DEFINE jobRows == [jobs EXCEPT ![c] = LeasedTo(@)]
             opRows == [ops EXCEPT ![c] = "RUNNING"]
             F == { j \in exhausted : Earlier(j, c) }
  <2>5. jobRows \in [JobIds -> JobRecords] /\ opRows \in [JobIds -> OperationStatuses]
    BY <1>1, <2>4 DEF OperationStatuses
  <2>6. \A k \in JobIds : Carried(jobRows[k], jobs[k])
    BY <1>1, <2>1, <2>4 DEF Carried
  <2>7. F \in SUBSET JobIds /\ \A j \in F : Expired(j)
    BY <1>2
  <2>8. failExpiredJobLeases(F, jobRows, opRows)
    BY <1>3
  <2> HIDE DEF F, jobRows, opRows
  <2> QED
    BY <2>5, <2>6, <2>7, <2>8, ExpiryStep
<1>4. ASSUME failExpiredJobLeases(exhausted, jobs, ops)
      PROVE  TypeOK' /\ RowsOK' /\ Releases
  <2>1. \A k \in JobIds : Carried(jobs[k], jobs[k])
    BY DEF Carried
  <2> QED
    BY <1>1, <1>2, <1>4, <2>1, ExpiryStep
<1> QED
  BY <1>3, <1>4 DEF ClaimJob

(* The maintenance loop.                                                     *)
LEMMA ReconcileStep ==
    ASSUME TypeOK, RowsOK, ReconcileExpiredJobs
    PROVE  TypeOK' /\ RowsOK' /\ Releases
<1> DEFINE F == { j \in JobIds : Exhausted(j) }
<1>1. jobs \in [JobIds -> JobRecords] /\ ops \in [JobIds -> OperationStatuses]
  BY DEF TypeOK
<1>2. F \in SUBSET JobIds /\ (\A j \in F : Expired(j)) /\ \A k \in JobIds : Carried(jobs[k], jobs[k])
  BY DEF Exhausted, Carried
<1>3. failExpiredJobLeases(F, jobs, ops)
  BY DEF ReconcileExpiredJobs
<1> HIDE DEF F
<1> QED
  BY <1>1, <1>2, <1>3, ExpiryStep

(* A lease renewed, acknowledged or running down keeps its row typed.        *)
LEMMA LeaseRow ==
    ASSUME NEW job \in JobRecords, NEW status \in { "LEASED", "RUNNING" }, NEW left \in -1..LeaseTicks
    PROVE  /\ [job EXCEPT !.status = status, !.left = left] \in JobRecords
           /\ [job EXCEPT !.left = left] \in JobRecords
<1>1. status \in JobStatuses
  BY DEF JobStatuses
<1> QED
  BY <1>1 DEF JobRecords

(* The rows after a step that touches leases only.                           *)
OnlyLeases ==
    /\ jobs' \in [JobIds -> JobRecords]
    /\ \A k \in JobIds :
          /\ jobs'[k].type = jobs[k].type /\ jobs'[k].inst = jobs[k].inst
          /\ jobs'[k].asked = jobs[k].asked
          /\ jobs'[k] = jobs[k] \/ (Leased(k) /\ jobs'[k].status \in { "LEASED", "RUNNING" })

(* Acknowledgement, renewal and the passing of time.                         *)
LEMMA LeaseStep ==
    ASSUME TypeOK, RowsOK,
           \/ \E j \in JobIds : \E t \in Issued(j) : AcknowledgeJob(j, t) \/ RenewJob(j, t)
           \/ Tick
    PROVE  TypeOK' /\ RowsOK' /\ Releases
<1>1. jobs \in [JobIds -> JobRecords] /\ LeaseTicks \in -1..LeaseTicks
  BY BoundsAssumption DEF TypeOK
<1>2. ASSUME NEW j \in JobIds, NEW t \in Issued(j), AcknowledgeJob(j, t)
      PROVE  OnlyLeases
  <2>1. [jobs[j] EXCEPT !.status = "RUNNING", !.left = LeaseTicks] \in JobRecords
    BY <1>1, LeaseRow
  <2>2. jobs' = [jobs EXCEPT ![j] = [jobs[j] EXCEPT !.status = "RUNNING", !.left = LeaseTicks]]
    BY <1>2 DEF AcknowledgeJob
  <2> QED
    BY <1>1, <1>2, <2>1, <2>2 DEF AcknowledgeJob, OnlyLeases, Leased, JobRecords
<1>3. ASSUME NEW j \in JobIds, NEW t \in Issued(j), RenewJob(j, t)
      PROVE  OnlyLeases
  <2>1. [jobs[j] EXCEPT !.left = LeaseTicks] \in JobRecords
    BY <1>1, LeaseRow
  <2>2. jobs' = [jobs EXCEPT ![j] = [jobs[j] EXCEPT !.left = LeaseTicks]]
    BY <1>3 DEF RenewJob
  <2> QED
    BY <1>1, <1>3, <2>1, <2>2 DEF RenewJob, OnlyLeases, Leased, JobRecords
<1>4. ASSUME Tick
      PROVE  OnlyLeases
  <2>1. ASSUME NEW k \in JobIds, Live(k)
        PROVE  LET row == [jobs[k] EXCEPT !.left = @ - 1]
               IN /\ row \in JobRecords /\ row.type = jobs[k].type /\ row.inst = jobs[k].inst
                  /\ row.asked = jobs[k].asked /\ row.status = jobs[k].status
    <3>1. jobs[k] \in JobRecords /\ jobs[k].left \in -1..LeaseTicks /\ jobs[k].left >= 0
      BY <1>1, <2>1 DEF Live, JobRecords
    <3>2. jobs[k].left - 1 \in -1..LeaseTicks
      BY <3>1, BoundsAssumption
    <3> QED
      BY <3>1, <3>2, LeaseRow DEF JobRecords
  <2>2. jobs' = [j \in JobIds |-> IF Live(j) THEN [jobs[j] EXCEPT !.left = @ - 1] ELSE jobs[j]]
    BY <1>4 DEF Tick
  <2>3. jobs' \in [JobIds -> JobRecords]
    BY <1>1, <2>1, <2>2
  <2> QED
    BY <2>1, <2>2, <2>3 DEF OnlyLeases, Live, Leased
<1>5. OnlyLeases /\ UNCHANGED <<inst, ops, config, chatVars, reveals>>
  BY <1>2, <1>3, <1>4 DEF AcknowledgeJob, RenewJob, Tick
<1>6. TypeOK'
  BY <1>5 DEF TypeOK, OnlyLeases, chatVars
<1>7. RowsOK'
  BY <1>5 DEF RowsOK, OnlyLeases, chatVars, Leased, Active, ActiveStatuses, TerminalStatuses
<1>8. Releases
  BY <1>5 DEF Releases, OnlyLeases, chatVars, Leased, Active, ActiveStatuses
<1> QED
  BY <1>6, <1>7, <1>8

(* A streamed event stays below the bound of what a Host Agent sends.        *)
LEMMA AppendStep ==
    ASSUME TypeOK, RowsOK, NEW j \in JobIds, NEW t \in Issued(j), NEW n \in 1..MaxSequence,
           AppendChatEvent(j, t, n)
    PROVE  TypeOK' /\ RowsOK' /\ Releases
<1>1. [seq |-> n, type |-> "ASSISTANT_DELTA"] \in [seq : 0..(MaxSequence + 1), type : EventTypes]
      /\ n <= MaxSequence
  BY BoundsAssumption DEF EventTypes
<1> DEFINE e == [seq |-> n, type |-> "ASSISTANT_DELTA"]
<1>2. e.seq = n
  OBVIOUS
<1>3. events' = [events EXCEPT ![j] = @ \cup { e }]
  BY DEF AppendChatEvent
<1> HIDE DEF e
<1>4. TypeOK'
  BY <1>1, <1>3 DEF AppendChatEvent, TypeOK, e
<1>5. RowsOK'
  BY <1>1, <1>2, <1>3 DEF AppendChatEvent, TypeOK, RowsOK, Active
<1>6. Releases
  BY DEF AppendChatEvent, Releases, Active
<1> QED
  BY <1>4, <1>5, <1>6

(* A completed row is typed.                                                 *)
LEMMA EndedRow ==
    ASSUME NEW job \in JobRecords, NEW ok \in BOOLEAN, NEW st \in InstanceStatuses \cup { "" }
    PROVE  /\ Ended(job, ok, st) \in JobRecords
           /\ Ended(job, ok, st).status \in TerminalStatuses
           /\ Ended(job, ok, st).status = "SUCCEEDED" => ok
           /\ Ended(job, ok, st).status = "FAILED" => ~ok
           /\ Ended(job, ok, st).type = job.type /\ Ended(job, ok, st).inst = job.inst
           /\ Ended(job, ok, st).sess = job.sess /\ Ended(job, ok, st).rev = job.rev
           /\ Ended(job, ok, st).attempts = job.attempts
<1> DEFINE status == IF ok THEN "SUCCEEDED" ELSE "FAILED"
           result == [outcome |-> IF ok THEN "SUCCESS" ELSE "FAILURE", status |-> st]
<1>1. /\ status \in JobStatuses /\ status \in TerminalStatuses
      /\ status = "SUCCEEDED" => ok
      /\ status = "FAILED" => ~ok
  BY DEF JobStatuses, TerminalStatuses
<1>2. result \in Results
  <2>1. CASE ok
    BY <2>1 DEF Results
  <2>2. CASE ~ok
    BY <2>2 DEF Results
  <2> QED
    BY <2>1, <2>2
<1>3. Ended(job, ok, st) = [job EXCEPT !.status = status, !.result = result]
  BY DEF Ended
<1> HIDE DEF status, result
<1>4. LET row == [job EXCEPT !.status = status, !.result = result]
      IN /\ row \in JobRecords /\ row.status = status
         /\ row.type = job.type /\ row.inst = job.inst
         /\ row.sess = job.sess /\ row.rev = job.rev /\ row.attempts = job.attempts
  BY <1>1, <1>2 DEF JobRecords
<1> QED
  BY <1>1, <1>3, <1>4

(* The configuration row a result writes is typed.                           *)
LEMMA EndedConfigRow ==
    ASSUME NEW row \in ConfigRecords, NEW ok \in BOOLEAN, NEW rev \in Revisions \cup { NoRevision }
    PROVE  EndedConfig(row, ok, rev) \in ConfigRecords
BY DEF ConfigRecords, EndedConfig

(* A result the store accepts carries a settled status, DELETING only from a *)
(* delete job, and none for a job that does not own the instance.            *)
LEMMA ResultSettles ==
    ASSUME TypeOK, RowsOK, NEW j \in JobIds, Active(j), NEW ok \in BOOLEAN,
           NEW st, IF ResultStatuses(jobs[j], ok) = {} THEN st = ""
                   ELSE st \in ResultStatuses(jobs[j], ok)
    PROVE  /\ st \in Settled \cup { "" }
           /\ st # "" <=> Lifecycle(j)
           /\ jobs[j].type = "delete" /\ ok => st = "DELETING"
<1>1. jobs[j].type \in JobTypes
  BY DEF RowsOK
<1>2. jobs[j].type \in ReturningTypes => jobs[j].asked \in { "RUNNING", "STOPPED" }
  BY DEF RowsOK
<1>3. CASE ok
  BY <1>1, <1>2, <1>3 DEF ResultStatuses, statusAfterSuccess, JobTypes, LifecycleTypes,
     ActionTypes, ConfigTypes, InspectionTypes, RunningInspectionTypes, ReturningTypes,
     Settled, Resting, Lifecycle
<1>4. CASE ~ok
  BY <1>1, <1>2, <1>4 DEF ResultStatuses, statusAfterFailure, JobTypes, LifecycleTypes,
     ActionTypes, ConfigTypes, InspectionTypes, RunningInspectionTypes, ReturningTypes,
     Settled, Resting, Lifecycle
<1> QED
  BY <1>3, <1>4

(* CompleteJobWithHash.                                                      *)
LEMMA CompleteStep ==
    ASSUME TypeOK, RowsOK, NEW j \in JobIds, NEW t \in Issued(j), NEW ok \in BOOLEAN,
           NEW st \in InstanceStatuses \cup { "" }, CompleteJob(j, t, ok, st)
    PROVE  TypeOK' /\ RowsOK' /\ Releases
<1>1. jobs \in [JobIds -> JobRecords] /\ inst \in [Instances -> InstanceStatuses]
  BY DEF TypeOK
<1>2. Active(j) /\ jobs[j].type \in JobTypes /\ jobs[j].inst \in Instances
  BY DEF CompleteJob, Completable, Active, ActiveStatuses, RowsOK
<1> DEFINE row == Ended(jobs[j], ok, st)
<1>3. jobs' = [jobs EXCEPT ![j] = row]
  BY DEF CompleteJob
<1>4. /\ row \in JobRecords /\ row.status \in TerminalStatuses /\ (row.status = "SUCCEEDED" => ok)
      /\ row.type = jobs[j].type /\ row.inst = jobs[j].inst
  BY <1>1, EndedRow
<1> HIDE DEF row
<1>5. /\ jobs' \in [JobIds -> JobRecords] /\ jobs'[j] = row
      /\ \A k \in JobIds \ {j} : jobs'[k] = jobs[k]
  BY <1>1, <1>3, <1>4
<1>6. /\ st \in Settled \cup { "" }
      /\ st # "" <=> Lifecycle(j)
      /\ jobs[j].type = "delete" /\ ok => st = "DELETING"
  BY <1>2, ResultSettles DEF CompleteJob
<1>7. /\ inst' \in [Instances -> InstanceStatuses]
      /\ st # "" => inst'[jobs[j].inst] = st
      /\ \A i \in Instances : inst'[i] # inst[i] => i = jobs[j].inst /\ st # ""
  BY <1>1, <1>2 DEF CompleteJob
<1>8. ops' \in [JobIds -> OperationStatuses] /\ messages' \in [JobIds -> MessageStatuses]
  BY DEF CompleteJob, TypeOK, OperationStatuses, MessageStatuses
<1>9. /\ events' \in [JobIds -> SUBSET [seq : 0..(MaxSequence + 1), type : EventTypes]]
       /\ \A k \in JobIds \ {j} : events'[k] = events[k]
  <2> DEFINE end == IF ok THEN "RUN_COMPLETED" ELSE "RUN_FAILED"
  <2>1. events[j] \in SUBSET [seq : 0..(MaxSequence + 1), type : EventTypes] /\ end \in EventTypes
    BY DEF TypeOK, EventTypes
  <2>2. \A e \in events[j] : e.seq <= MaxSequence
    BY <1>2 DEF RowsOK, Active, ActiveStatuses, TerminalStatuses
  <2>3. events' = IF Chat(j) THEN [events EXCEPT ![j] = Closed(@, end)] ELSE events
    BY DEF CompleteJob
  <2> HIDE DEF end
  <2>4. Closed(events[j], end) \in SUBSET [seq : 0..(MaxSequence + 1), type : EventTypes]
    BY <2>1, <2>2, ClosedStream
  <2> QED
    BY <2>3, <2>4 DEF TypeOK
<1>10. config' \in [ConfigTypes -> [Instances -> ConfigRecords]]
  <2>1. CASE jobs[j].type \notin ConfigTypes
    BY <2>1 DEF CompleteJob, ConfigAfter, TypeOK
  <2>2. CASE jobs[j].type \in ConfigTypes
    <3> DEFINE old == config[jobs[j].type][jobs[j].inst]
               new == EndedConfig(old, ok, jobs[j].rev)
    <3>1. old \in ConfigRecords /\ jobs[j].rev \in Revisions \cup { NoRevision }
      BY <1>1, <1>2, <2>2 DEF TypeOK, JobRecords
    <3>2. new \in ConfigRecords
      BY <3>1, EndedConfigRow
    <3>3. config' = [config EXCEPT ![jobs[j].type][jobs[j].inst] = new]
      BY <2>2 DEF CompleteJob, ConfigAfter
    <3> HIDE DEF new
    <3> QED
      BY <2>2, <1>2, <3>2, <3>3 DEF TypeOK
  <2> QED
    BY <2>1, <2>2
<1>11. TypeOK'
  BY <1>5, <1>7, <1>8, <1>9, <1>10 DEF TypeOK, CompleteJob
<1>12. ~Active(j)' /\ jobs'[j].status \in TerminalStatuses
  BY <1>4, <1>5 DEF Active, ActiveStatuses, TerminalStatuses
<1>13. RowsOK'
  BY <1>2, <1>4, <1>5, <1>9, <1>12 DEF RowsOK, Active, ActiveStatuses
<1>14. Releases
  <2>1. \A k \in JobIds : Active(k)' =>
           Active(k) /\ jobs'[k].type = jobs[k].type /\ jobs'[k].inst = jobs[k].inst
    BY <1>5, <1>12 DEF Active
  <2>2. \A k \in JobIds : jobs'[k].type = "delete" /\ jobs'[k].status = "SUCCEEDED" =>
          \/ jobs'[k] = jobs[k]
          \/ /\ Active(k) /\ jobs[k].type = "delete" /\ jobs'[k].inst = jobs[k].inst
             /\ inst'[jobs[k].inst] = "DELETING"
    BY <1>2, <1>4, <1>5, <1>6, <1>7
  <2>3. Lifecycle(j) => jobs[j].type \in OwnerTypes
    BY DEF Lifecycle, OwnerTypes
  <2>4. \A i \in Instances : inst'[i] # inst[i] =>
          /\ inst'[i] \in Settled
          /\ \E k \in JobIds : /\ Active(k) /\ ~Active(k)'
                               /\ jobs[k].type \in OwnerTypes /\ jobs[k].inst = i
    <3>1. ASSUME NEW i \in Instances, inst'[i] # inst[i]
          PROVE  /\ i = jobs[j].inst /\ inst'[i] = st /\ st \in Settled
                 /\ jobs[j].type \in OwnerTypes
      BY <1>6, <1>7, <2>3, <3>1
    <3> QED
      BY <1>2, <1>12, <3>1
  <2>5. ASSUME NEW k \in JobIds, Active(k), Lifecycle(k), ~Active(k)'
        PROVE  inst'[jobs[k].inst] \in Settled
    <3>1. k = j
      BY <1>5, <2>5 DEF Active
    <3> QED
      BY <1>6, <1>7, <2>5, <3>1
  <2> QED
    BY <2>1, <2>2, <2>4, <2>5 DEF Releases, CompleteJob
<1> QED
  BY <1>11, <1>13, <1>14

(* The operator's cancellations take one row away from its worker.           *)
LEMMA CancelStep ==
    ASSUME TypeOK, RowsOK, NEW j \in JobIds, Active(j), jobs[j].type \in { "auth.codex", "chat.send" },
           jobs' = [jobs EXCEPT ![j] = Fenced(@)], UNCHANGED <<inst, reveals>>,
           \A k \in JobIds \ {j} : events'[k] = events[k]
    PROVE  jobs' \in [JobIds -> JobRecords] /\ RowsOK' /\ Releases
<1>1. jobs \in [JobIds -> JobRecords]
  BY DEF TypeOK
<1>2. /\ Fenced(jobs[j]) \in JobRecords /\ Fenced(jobs[j]).status = "FAILED"
      /\ Fenced(jobs[j]).type = jobs[j].type /\ Fenced(jobs[j]).inst = jobs[j].inst
  BY <1>1, FencedRow
<1>3. /\ jobs' \in [JobIds -> JobRecords] /\ jobs'[j] = Fenced(jobs[j])
      /\ \A k \in JobIds \ {j} : jobs'[k] = jobs[k]
  BY <1>1, <1>2
<1>4. RowsOK'
  BY <1>2, <1>3 DEF RowsOK, Active, ActiveStatuses, TerminalStatuses
<1>5. ~Lifecycle(j)
  BY DEF Lifecycle, LifecycleTypes, ActionTypes, ConfigTypes
<1>6. Releases
  BY <1>2, <1>3, <1>5 DEF Releases, Active, ActiveStatuses
<1> QED
  BY <1>3, <1>4, <1>6

(* The operator's steps.                                                     *)
LEMMA OperatorTyped ==
    ASSUME TypeOK, RowsOK, OperatorStep
    PROVE  TypeOK' /\ RowsOK' /\ Releases
<1>1. ASSUME NEW j \in JobIds, CancelCodexAuth(j)
      PROVE  TypeOK' /\ RowsOK' /\ Releases
  <2>1. jobs' \in [JobIds -> JobRecords] /\ RowsOK' /\ Releases
    BY <1>1, CancelStep DEF CancelCodexAuth, chatVars
  <2> QED
    BY <1>1, <2>1 DEF CancelCodexAuth, TypeOK, chatVars, OperationStatuses
<1>2. ASSUME NEW s \in Sessions, CancelActiveChat(s)
      PROVE  TypeOK' /\ RowsOK' /\ Releases
  <2>1. PICK j \in JobIds :
          /\ Chat(j) /\ Active(j)
          /\ jobs' = [jobs EXCEPT ![j] = Fenced(@)]
          /\ ops' = [ops EXCEPT ![j] = "FAILED"]
          /\ messages' = [messages EXCEPT ![j] = "FAILED"]
          /\ events' = [events EXCEPT ![j] = Closed(@, "RUN_CANCELED")]
          /\ UNCHANGED <<inst, config, sessions, reveals>>
    BY <1>2 DEF CancelActiveChat
  <2>2. events[j] \in SUBSET [seq : 0..(MaxSequence + 1), type : EventTypes]
    BY DEF TypeOK
  <2>3. \A e \in events[j] : e.seq <= MaxSequence
    BY <2>1 DEF RowsOK, Active, ActiveStatuses, TerminalStatuses
  <2>4. Closed(events[j], "RUN_CANCELED") \in SUBSET [seq : 0..(MaxSequence + 1), type : EventTypes]
    BY <2>2, <2>3, ClosedStream DEF EventTypes
  <2>5. /\ events' \in [JobIds -> SUBSET [seq : 0..(MaxSequence + 1), type : EventTypes]]
        /\ \A k \in JobIds \ {j} : events'[k] = events[k]
    BY <2>1, <2>4 DEF TypeOK
  <2>6. jobs' \in [JobIds -> JobRecords] /\ RowsOK' /\ Releases
    BY <2>1, <2>5, CancelStep DEF Chat
  <2> QED
    BY <2>1, <2>5, <2>6 DEF TypeOK, OperationStatuses, MessageStatuses
<1>3. ASSUME NEW s \in Sessions, DeleteChatSession(s)
      PROVE  TypeOK' /\ RowsOK' /\ Releases
  <2> DEFINE doomed == { j \in JobIds : Chat(j) /\ jobs[j].sess = s }
             gone == [NoJob EXCEPT !.status = "GONE"]
  <2>1. gone \in JobRecords /\ gone.status = "GONE" /\ gone.type = NoOne
    <3>1. "GONE" \in JobStatuses /\ NoResult \in Results /\ "NONE" \in InstanceStatuses
      BY DEF JobStatuses, NoResult, Results, InstanceStatuses
    <3>2. NoToken \in 0..MaxClaims /\ NoLease \in -1..LeaseTicks /\ 0 \in 0..MaxClaims
      BY BoundsAssumption DEF NoToken, NoLease
    <3> QED
      BY <3>1, <3>2 DEF NoJob, JobRecords
  <2>2. jobs' = [j \in JobIds |-> IF j \in doomed THEN gone ELSE jobs[j]]
    BY <1>3 DEF DeleteChatSession
  <2>3. \A j \in doomed : jobs[j].type = "chat.send"
    BY DEF Chat
  <2> HIDE DEF gone
  <2>4. TypeOK'
    BY <1>3, <2>1, <2>2 DEF DeleteChatSession, TypeOK, OperationStatuses, MessageStatuses
  <2>5. \A j \in JobIds : \/ jobs'[j] = jobs[j] /\ events'[j] = events[j]
                          \/ jobs'[j] = gone /\ events'[j] = {} /\ ~Lifecycle(j)
    BY <1>3, <2>2, <2>3 DEF DeleteChatSession, Lifecycle, LifecycleTypes, ActionTypes, ConfigTypes
  <2>6. NoOne \notin JobTypes /\ NoOne # "delete"
    BY DEF NoOne, JobTypes, LifecycleTypes, ActionTypes, ConfigTypes, InspectionTypes,
           RunningInspectionTypes
  <2>7. RowsOK'
    BY <2>1, <2>5, <2>6 DEF RowsOK, Active, ActiveStatuses
  <2>8. Releases
    BY <1>3, <2>1, <2>5, <2>6 DEF Releases, DeleteChatSession, Active, ActiveStatuses
  <2> QED
    BY <2>4, <2>7, <2>8
<1> QED
  BY <1>1, <1>2, <1>3 DEF OperatorStep

(* The cleanup of a deletion writes the operation and the instance only.     *)
LEMMA CleanupTyped ==
    ASSUME TypeOK, RowsOK, NEW j \in JobIds, NEW op \in { "RUNNING", "FAILED", "SUCCEEDED" },
           UpdateInstanceDeletionCleanup(j, op)
    PROVE  TypeOK' /\ RowsOK'
<1>1. RowsOK'
  BY DEF UpdateInstanceDeletionCleanup, chatVars, RowsOK, Active
<1>2. ops' \in [JobIds -> OperationStatuses] /\ inst' \in [Instances -> InstanceStatuses]
  BY DEF UpdateInstanceDeletionCleanup, TypeOK, OperationStatuses, InstanceStatuses
<1> QED
  BY <1>1, <1>2 DEF UpdateInstanceDeletionCleanup, TypeOK, chatVars

------------------------------------------------------------------------------
(* The fences.                                                             *)

Fences ==
    /\ UnbornIdle /\ OneExclusiveJob /\ LifecycleFence /\ ChatLifecycleExclusion
    /\ InspectedRuns /\ DeletedForGood

(* Job types fall into three disjoint classes.                               *)
LEMMA TypeClasses ==
    /\ "chat.send" \notin OwnerTypes /\ "hermes.inspect" \in RunningInspectionTypes
    /\ \A type \in LifecycleTypes : type \in OwnerTypes /\ type \notin RunningInspectionTypes
    /\ \A type \in OwnerTypes : type \in LifecycleTypes \/ type = "hermes.inspect"
    /\ \A type \in RunningInspectionTypes : type # "chat.send" /\ type # "delete"
    /\ "delete" \in LifecycleTypes
    /\ \A status \in Settled : status # "NONE" /\ status \notin TransitionalStatuses
BY DEF OwnerTypes, LifecycleTypes, ActionTypes, ConfigTypes, RunningInspectionTypes, Settled,
       Resting, TransitionalStatuses

(* The status a queueing transaction writes is a job's own.                  *)
LEMMA QueuedStatusOwned ==
    ASSUME NEW type \in LifecycleTypes
    PROVE  /\ QueuedStatus(type) \in TransitionalStatuses \cup { "DELETING" }
           /\ QueuedStatus(type) # "RUNNING" /\ QueuedStatus(type) # "NONE"
           /\ QueuedStatus(type) = "DELETING" <=> type = "delete"
BY DEF QueuedStatus, LifecycleTypes, ActionTypes, ConfigTypes, TransitionalStatuses

(* A step that queues nothing keeps every fence.                             *)
LEMMA ReleaseKeepsFences ==
    ASSUME TypeOK, RowsOK, Fences, Releases, TypeOK'
    PROVE  Fences'
<1>1. \A k \in JobIds : Active(k)' =>
          Active(k) /\ jobs'[k].type = jobs[k].type /\ jobs'[k].inst = jobs[k].inst
  BY DEF Releases
<1>2. \A i \in Instances : inst'[i] # inst[i] =>
          /\ inst'[i] \in Settled
          /\ \E k \in JobIds : /\ Active(k) /\ ~Active(k)'
                               /\ jobs[k].type \in OwnerTypes /\ jobs[k].inst = i
  BY DEF Releases
<1>3. \A k \in JobIds : Active(k) => jobs[k].type \in JobTypes /\ jobs[k].inst \in Instances
  BY DEF RowsOK
<1>4. ASSUME NEW k \in JobIds, Active(k)', ~Chat(k)
      PROVE  inst'[jobs[k].inst] = inst[jobs[k].inst]
  <2> SUFFICES ASSUME inst'[jobs[k].inst] # inst[jobs[k].inst]
               PROVE  FALSE
    OBVIOUS
  <2>1. PICK l \in JobIds : /\ Active(l) /\ ~Active(l)'
                            /\ jobs[l].type \in OwnerTypes /\ jobs[l].inst = jobs[k].inst
    BY <1>1, <1>2, <1>3, <1>4
  <2>2. ~Chat(l)
    BY <2>1, TypeClasses DEF Chat
  <2> QED
    BY <1>1, <1>4, <2>1, <2>2 DEF Fences, OneExclusiveJob
<1>5. OneExclusiveJob'
  BY <1>1 DEF Fences, OneExclusiveJob, Chat
<1>6. ChatLifecycleExclusion'
  BY <1>1 DEF Fences, ChatLifecycleExclusion, Chat, Lifecycle
<1>7. UnbornIdle'
  BY <1>1, <1>2, TypeClasses DEF Fences, UnbornIdle, Releases
<1>8. InspectedRuns'
  BY <1>1, <1>4, TypeClasses DEF Fences, InspectedRuns, Chat
<1>9. LifecycleFence'
  <2>1. ASSUME NEW k \in JobIds, Active(k)', Lifecycle(k)'
        PROVE  inst'[jobs'[k].inst] = QueuedStatus(jobs'[k].type)
    <3>1. Active(k) /\ Lifecycle(k) /\ ~Chat(k)
      BY <1>1, <2>1, TypeClasses DEF Lifecycle, Chat
    <3> QED
      BY <1>1, <1>4, <2>1, <3>1 DEF Fences, LifecycleFence
  <2>2. ASSUME NEW i \in Instances, inst'[i] \in TransitionalStatuses
        PROVE  \E k \in JobIds : Active(k)' /\ Lifecycle(k)' /\ jobs'[k].inst = i
    <3>1. inst'[i] = inst[i]
      BY <1>2, <2>2, TypeClasses
    <3>2. PICK k \in JobIds : Active(k) /\ Lifecycle(k) /\ jobs[k].inst = i
      BY <2>2, <3>1 DEF Fences, LifecycleFence
    <3>3. Active(k)'
      BY <2>2, <3>2, TypeClasses DEF Releases
    <3> QED
      BY <1>1, <3>2, <3>3 DEF Lifecycle
  <2> QED
    BY <2>1, <2>2 DEF LifecycleFence
<1>10. DeletedForGood'
  <2> SUFFICES ASSUME NEW j \in JobIds, jobs'[j].type = "delete", jobs'[j].status = "SUCCEEDED"
               PROVE  /\ inst'[jobs'[j].inst] \in { "DELETING", "DELETED" }
                      /\ \A k \in JobIds : Active(k)' /\ Lifecycle(k)' => jobs'[k].inst # jobs'[j].inst
    BY DEF DeletedForGood
  <2>1. CASE jobs'[j] = jobs[j]
    <3>1. /\ inst[jobs[j].inst] \in { "DELETING", "DELETED" } /\ jobs[j].inst \in Instances
          /\ \A k \in JobIds : Active(k) /\ Lifecycle(k) => jobs[k].inst # jobs[j].inst
      BY <2>1, TypeClasses DEF Fences, DeletedForGood, RowsOK, JobTypes
    <3>2. inst'[jobs[j].inst] = inst[jobs[j].inst]
      <4> SUFFICES ASSUME inst'[jobs[j].inst] # inst[jobs[j].inst]
                   PROVE  FALSE
        OBVIOUS
      <4>1. PICK l \in JobIds : Active(l) /\ jobs[l].type \in OwnerTypes /\ jobs[l].inst = jobs[j].inst
        BY <1>2, <3>1
      <4>2. jobs[l].type = "hermes.inspect"
        BY <3>1, <4>1, TypeClasses DEF Lifecycle
      <4> QED
        BY <3>1, <4>1, <4>2, TypeClasses DEF Fences, InspectedRuns
    <3> QED
      BY <1>1, <2>1, <3>1, <3>2 DEF Lifecycle
  <2>2. CASE /\ Active(j) /\ jobs[j].type = "delete" /\ jobs'[j].inst = jobs[j].inst
             /\ inst'[jobs[j].inst] = "DELETING"
    <3>1. ASSUME NEW k \in JobIds, Active(k)', Lifecycle(k)', jobs'[k].inst = jobs'[j].inst
          PROVE  FALSE
      <4>1. Active(k) /\ ~Chat(k) /\ ~Chat(j) /\ jobs[k].inst = jobs[j].inst
        BY <1>1, <2>2, <3>1, TypeClasses DEF Lifecycle, Chat
      <4>2. k = j
        BY <2>2, <4>1 DEF Fences, OneExclusiveJob
      <4> QED
        BY <3>1, <4>2 DEF Active, ActiveStatuses
    <3> QED
      BY <2>2, <3>1
  <2> QED
    BY <2>1, <2>2 DEF Releases
<1> QED
  BY <1>5, <1>6, <1>7, <1>8, <1>9, <1>10 DEF Fences

(* A lifecycle job queued on an idle instance keeps every fence.             *)
LEMMA LifecycleQueueKeepsFences ==
    ASSUME TypeOK, RowsOK, Fences, NEW j \in JobIds, NEW job, Queueable(job),
           insertOperationAndJob(j, job), job.type \in LifecycleTypes,
           \A k \in JobIds : Active(k) => jobs[k].inst # job.inst,
           inst[job.inst] \notin { "DELETING", "DELETED" },
           inst' = [inst EXCEPT ![job.inst] = QueuedStatus(job.type)],
           reveals' = reveals
    PROVE  Fences'
<1>1. /\ jobs'[j] = job /\ \A k \in JobIds \ {j} : jobs'[k] = jobs[k]
  BY Inserted DEF Queueable
<1>2. /\ job.inst \in Instances /\ job.status = "PENDING" /\ job.type # "chat.send"
      /\ job.type \notin RunningInspectionTypes
  BY TypeClasses DEF Queueable
<1>3. /\ inst'[job.inst] = QueuedStatus(job.type)
      /\ \A i \in Instances \ { job.inst } : inst'[i] = inst[i]
  BY <1>2 DEF TypeOK
<1>4. Active(j)' /\ Lifecycle(j)' /\ ~Chat(j)'
  BY <1>1, <1>2 DEF Active, ActiveStatuses, Lifecycle, Chat
<1>5. \A k \in JobIds \ {j} : /\ Active(k)' <=> Active(k)
                              /\ Active(k)' => jobs'[k].inst # job.inst
  BY <1>1 DEF Active
<1>6. \A k \in JobIds : Active(k) => jobs[k].inst \in Instances
  BY DEF RowsOK
<1>7. UnbornIdle'
  BY <1>1, <1>3, <1>5, QueuedStatusOwned DEF Fences, UnbornIdle
<1>8. OneExclusiveJob'
  BY <1>1, <1>5 DEF Fences, OneExclusiveJob, Chat
<1>9. ChatLifecycleExclusion'
  BY <1>1, <1>4, <1>5 DEF Fences, ChatLifecycleExclusion, Chat, Lifecycle
<1>10. InspectedRuns'
  BY <1>1, <1>2, <1>3, <1>5, <1>6 DEF Fences, InspectedRuns
<1>11. LifecycleFence'
  <2>1. ASSUME NEW k \in JobIds, Active(k)', Lifecycle(k)'
        PROVE  inst'[jobs'[k].inst] = QueuedStatus(jobs'[k].type)
    BY <1>1, <1>3, <1>5, <1>6, <2>1 DEF Fences, LifecycleFence, Lifecycle
  <2>2. ASSUME NEW i \in Instances, inst'[i] \in TransitionalStatuses
        PROVE  \E k \in JobIds : Active(k)' /\ Lifecycle(k)' /\ jobs'[k].inst = i
    <3>1. CASE i = job.inst
      BY <1>1, <1>4, <3>1
    <3>2. CASE i # job.inst
      <4>1. PICK k \in JobIds : Active(k) /\ Lifecycle(k) /\ jobs[k].inst = i
        BY <1>3, <2>2, <3>2 DEF Fences, LifecycleFence
      <4>2. k # j
        BY <4>1, Inserted DEF Active, ActiveStatuses, Queueable
      <4> QED
        BY <1>1, <1>5, <4>1, <4>2 DEF Lifecycle
    <3> QED
      BY <3>1, <3>2
  <2> QED
    BY <2>1, <2>2 DEF LifecycleFence
<1>12. DeletedForGood'
  <2> SUFFICES ASSUME NEW d \in JobIds, jobs'[d].type = "delete", jobs'[d].status = "SUCCEEDED"
               PROVE  /\ inst'[jobs'[d].inst] \in { "DELETING", "DELETED" }
                      /\ \A k \in JobIds : Active(k)' /\ Lifecycle(k)' => jobs'[k].inst # jobs'[d].inst
    BY DEF DeletedForGood
  <2>1. d # j /\ jobs'[d] = jobs[d]
    BY <1>1, <1>2
  <2>2. /\ inst[jobs[d].inst] \in { "DELETING", "DELETED" } /\ jobs[d].inst \in Instances
        /\ \A k \in JobIds : Active(k) /\ Lifecycle(k) => jobs[k].inst # jobs[d].inst
    BY <2>1, TypeClasses DEF Fences, DeletedForGood, RowsOK, JobTypes
  <2> QED
    BY <1>1, <1>3, <1>5, <2>1, <2>2 DEF Lifecycle
<1> QED
  BY <1>7, <1>8, <1>9, <1>10, <1>11, <1>12 DEF Fences

(* So does a job that leaves the instance row alone: an inspection on an     *)
(* idle instance, a chat message on a running one.                           *)
LEMMA SideQueueKeepsFences ==
    ASSUME TypeOK, RowsOK, Fences, NEW j \in JobIds, NEW job, Queueable(job),
           insertOperationAndJob(j, job), job.type \notin LifecycleTypes,
           inst[job.inst] # "NONE",
           job.type # "chat.send" => \A k \in JobIds : Active(k) => jobs[k].inst # job.inst,
           job.type \in RunningInspectionTypes \cup { "chat.send" } => inst[job.inst] = "RUNNING",
           inst' = inst, reveals' \subseteq reveals
    PROVE  Fences'
<1>1. /\ jobs'[j] = job /\ \A k \in JobIds \ {j} : jobs'[k] = jobs[k]
  BY Inserted DEF Queueable
<1>2. job.inst \in Instances /\ job.status = "PENDING" /\ job.type # "delete"
  BY TypeClasses DEF Queueable
<1>3. ~Lifecycle(j)' /\ ~Active(j) /\ (Chat(j)' <=> job.type = "chat.send")
  BY <1>1, Inserted DEF Lifecycle, Active, ActiveStatuses, Queueable, Chat
<1>4. \A k \in JobIds \ {j} : /\ Active(k)' <=> Active(k)
                              /\ Lifecycle(k)' <=> Lifecycle(k)
                              /\ Chat(k)' <=> Chat(k)
  BY <1>1 DEF Active, Lifecycle, Chat
<1>5. UnbornIdle'
  BY <1>1, <1>2, <1>4 DEF Fences, UnbornIdle
<1>6. OneExclusiveJob'
  BY <1>1, <1>3, <1>4 DEF Fences, OneExclusiveJob
<1>7. ChatLifecycleExclusion'
  <2> SUFFICES ASSUME NEW k \in JobIds, NEW m \in JobIds, Active(k)', Lifecycle(k)',
                      Active(m)', Chat(m)', jobs'[k].inst = jobs'[m].inst
               PROVE  FALSE
    BY DEF ChatLifecycleExclusion
  <2>1. k # j /\ Active(k) /\ Lifecycle(k) /\ jobs'[k] = jobs[k]
    BY <1>1, <1>3, <1>4
  <2>2. CASE m = j
    <3>1. inst[jobs[k].inst] = "RUNNING"
      BY <1>1, <1>3, <2>1, <2>2
    <3> QED
      BY <2>1, <3>1, QueuedStatusOwned DEF Fences, LifecycleFence, Lifecycle
  <2>3. CASE m # j
    BY <1>1, <1>4, <2>1, <2>3 DEF Fences, ChatLifecycleExclusion
  <2> QED
    BY <2>2, <2>3
<1>8. InspectedRuns'
  BY <1>1, <1>2, <1>4 DEF Fences, InspectedRuns
<1>9. LifecycleFence'
  BY <1>1, <1>3, <1>4 DEF Fences, LifecycleFence
<1>10. DeletedForGood'
  BY <1>1, <1>2, <1>3, <1>4 DEF Fences, DeletedForGood
<1> QED
  BY <1>5, <1>6, <1>7, <1>8, <1>9, <1>10 DEF Fences

(* The queueing transactions add one row, or none, and keep the invariant.   *)
LEMMA QueueKeepsInvariant ==
    ASSUME TypeOK, RowsOK, Fences, QueueStep
    PROVE  TypeOK' /\ RowsOK' /\ Fences'
<1>1. "NONE" \in InstanceStatuses /\ NoRevision \in Revisions \cup { NoRevision }
      /\ NoOne \in Sessions \cup { NoOne }
  BY DEF InstanceStatuses
<1>2. ASSUME NEW j \in JobIds, NEW job, Queueable(job), insertOperationAndJob(j, job),
             UNCHANGED events
      PROVE  RowsOK'
  <2>1. jobs[j].status = "NONE"
    BY <1>2, Inserted DEF Queueable
  <2>2. \A e \in events[j] : e.seq <= MaxSequence
    BY <2>1 DEF RowsOK, TerminalStatuses
  <2> QED
    BY <1>2, <2>2, QueuedRows
<1>3. ASSUME NEW j \in JobIds, NEW i \in Instances, CreateInstance(j, i)
      PROVE  TypeOK' /\ RowsOK' /\ Fences'
  <2> DEFINE job == NewJob("provision", i, NoOne, "NONE", NoRevision)
  <2>1. Queueable(job) /\ job.type = "provision" /\ job.inst = i
    <3>1. "provision" \in JobTypes /\ "provision" \notin ReturningTypes
      BY DEF JobTypes, LifecycleTypes, ActionTypes, ReturningTypes, ConfigTypes
    <3> QED
      BY <1>1, <3>1, QueueableRow
  <2>2. insertOperationAndJob(j, job) /\ UNCHANGED events
    BY <1>3 DEF CreateInstance, chatVars
  <2>3. jobs' \in [JobIds -> JobRecords] /\ ops' \in [JobIds -> OperationStatuses]
    BY <2>1, <2>2, Inserted DEF Queueable
  <2>4. RowsOK'
    BY <1>2, <2>1, <2>2
  <2>5. inst' \in [Instances -> InstanceStatuses]
    BY <1>3 DEF CreateInstance, TypeOK, InstanceStatuses
  <2>6. Fences'
    <3>1. \A k \in JobIds : Active(k) => jobs[k].inst # i
      BY <1>3 DEF CreateInstance, Fences, UnbornIdle
    <3>2. "provision" \in LifecycleTypes /\ QueuedStatus("provision") = "PROVISIONING"
      BY DEF LifecycleTypes, ActionTypes, ConfigTypes, QueuedStatus
    <3>3. /\ inst[i] \notin { "DELETING", "DELETED" }
          /\ inst' = [inst EXCEPT ![i] = QueuedStatus("provision")]
      BY <1>3, <3>2 DEF CreateInstance
    <3> HIDE DEF job
    <3> QED
      BY <1>3, <2>1, <2>2, <3>1, <3>3, <3>2, LifecycleQueueKeepsFences DEF CreateInstance
  <2> QED
    BY <1>3, <2>3, <2>4, <2>5, <2>6 DEF CreateInstance, TypeOK, chatVars
<1>4. ASSUME NEW j \in JobIds, NEW i \in Instances, NEW type \in ActionTypes, QueueAction(j, i, type)
      PROVE  TypeOK' /\ RowsOK' /\ Fences'
  <2> DEFINE job == NewJob(type, i, NoOne, PayloadStatus(type, inst[i]), NoRevision)
  <2>1. Queueable(job) /\ job.type = type /\ job.inst = i
    <3>1. type \in JobTypes
      BY DEF JobTypes, LifecycleTypes
    <3>2. PayloadStatus(type, inst[i]) \in InstanceStatuses
      BY DEF PayloadStatus, InstanceStatuses, TypeOK
    <3>3. type \in ReturningTypes => PayloadStatus(type, inst[i]) \in { "RUNNING", "STOPPED" }
      BY <1>4 DEF QueueAction, PayloadStatus, QueueableFrom, ReturningTypes, ConfigTypes
    <3> QED
      BY <1>1, <3>1, <3>2, <3>3, QueueableRow
  <2>2. insertOperationAndJob(j, job) /\ UNCHANGED events
    BY <1>4 DEF QueueAction, chatVars
  <2>3. jobs' \in [JobIds -> JobRecords] /\ ops' \in [JobIds -> OperationStatuses]
    BY <2>1, <2>2, Inserted DEF Queueable
  <2>4. RowsOK'
    BY <1>2, <2>1, <2>2
  <2>5. inst' \in [Instances -> InstanceStatuses]
    <3>1. QueuedStatus(type) \in InstanceStatuses
      BY DEF QueuedStatus, InstanceStatuses, ActionTypes, ConfigTypes
    <3> QED
      BY <1>4, <3>1 DEF QueueAction, TypeOK
  <2>6. Fences'
    <3>1. \A k \in JobIds : Active(k) => jobs[k].inst # i
      BY <1>4 DEF QueueAction, activeInstanceJobs
    <3>2. /\ type \in LifecycleTypes /\ inst[i] \notin { "DELETING", "DELETED" }
          /\ inst' = [inst EXCEPT ![i] = QueuedStatus(type)]
      BY <1>4 DEF QueueAction, LifecycleTypes, ActionTypes, ConfigTypes, QueueableFrom
    <3> HIDE DEF job
    <3> QED
      BY <1>4, <2>1, <2>2, <3>1, <3>2, LifecycleQueueKeepsFences DEF QueueAction
  <2> QED
    BY <1>4, <2>3, <2>4, <2>5, <2>6 DEF QueueAction, TypeOK, chatVars
<1>5. ASSUME NEW j \in JobIds, NEW i \in Instances, NEW type \in ConfigTypes,
             NEW rev \in Revisions, QueueConfiguration(j, i, type, rev)
      PROVE  TypeOK' /\ RowsOK' /\ Fences'
  <2> DEFINE job == NewJob(type, i, NoOne, inst[i], rev)
  <2>1. Queueable(job) /\ job.type = type /\ job.inst = i
    <3>1. type \in JobTypes
      BY DEF JobTypes, LifecycleTypes
    <3>2. inst[i] \in InstanceStatuses /\ inst[i] \in { "RUNNING", "STOPPED" }
      BY <1>5 DEF QueueConfiguration, QueueableFrom, ConfigTypes, TypeOK
    <3>3. rev \in Revisions \cup { NoRevision }
      OBVIOUS
    <3> QED
      BY <1>1, <3>1, <3>2, <3>3, QueueableRow
  <2>2. insertOperationAndJob(j, job) /\ UNCHANGED events
    BY <1>5 DEF QueueConfiguration, chatVars
  <2>3. jobs' \in [JobIds -> JobRecords] /\ ops' \in [JobIds -> OperationStatuses]
    BY <2>1, <2>2, Inserted DEF Queueable
  <2>4. RowsOK'
    BY <1>2, <2>1, <2>2
  <2>5. inst' \in [Instances -> InstanceStatuses]
    <3>1. QueuedStatus(type) \in InstanceStatuses
      BY DEF QueuedStatus, InstanceStatuses, ConfigTypes
    <3> QED
      BY <1>5, <3>1 DEF QueueConfiguration, TypeOK
  <2>6. config' \in [ConfigTypes -> [Instances -> ConfigRecords]]
    <3>1. config \in [ConfigTypes -> [Instances -> ConfigRecords]]
      BY DEF TypeOK
    <3> DEFINE row == [config[type][i] EXCEPT !.status = "PENDING", !.desired = rev]
    <3>2. row \in ConfigRecords
      BY <3>1, PendingConfigRow
    <3>3. config' = [config EXCEPT ![type][i] = row]
      BY <1>5 DEF QueueConfiguration
    <3> HIDE DEF row
    <3> QED
      BY <3>1, <3>2, <3>3
  <2>7. Fences'
    <3>1. \A k \in JobIds : Active(k) => jobs[k].inst # i
      BY <1>5 DEF QueueConfiguration, activeInstanceJobs
    <3>2. /\ type \in LifecycleTypes /\ inst[i] \notin { "DELETING", "DELETED" }
          /\ inst' = [inst EXCEPT ![i] = QueuedStatus(type)]
      BY <1>5 DEF QueueConfiguration, LifecycleTypes, ActionTypes, ConfigTypes, QueueableFrom
    <3> HIDE DEF job
    <3> QED
      BY <1>5, <2>1, <2>2, <3>1, <3>2, LifecycleQueueKeepsFences DEF QueueConfiguration
  <2> QED
    BY <1>5, <2>3, <2>4, <2>5, <2>6, <2>7 DEF QueueConfiguration, TypeOK, chatVars
<1>6. ASSUME NEW j \in JobIds, NEW i \in Instances, NEW type \in RunningInspectionTypes,
             QueueRunningInspection(j, i, type)
      PROVE  TypeOK' /\ RowsOK' /\ Fences'
  <2> DEFINE job == NewJob(type, i, NoOne, "NONE", NoRevision)
  <2>1. Queueable(job) /\ job.type = type /\ job.inst = i
    <3>1. type \in JobTypes /\ type \notin ReturningTypes
      BY DEF JobTypes, InspectionTypes, RunningInspectionTypes, ReturningTypes, ConfigTypes
    <3> QED
      BY <1>1, <3>1, QueueableRow
  <2>2. insertOperationAndJob(j, job) /\ UNCHANGED events
    BY <1>6 DEF QueueRunningInspection, chatVars
  <2>3. jobs' \in [JobIds -> JobRecords] /\ ops' \in [JobIds -> OperationStatuses]
    BY <2>1, <2>2, Inserted DEF Queueable
  <2>4. RowsOK'
    BY <1>2, <2>1, <2>2
  <2>5. Fences'
    <3>1. \A k \in JobIds : Active(k) => jobs[k].inst # i
      BY <1>6 DEF QueueRunningInspection, activeInstanceJobs
    <3>2. /\ type \notin LifecycleTypes /\ inst[i] = "RUNNING"
          /\ inst' = inst /\ reveals' = reveals
      BY <1>6, TypeClasses DEF QueueRunningInspection
    <3> HIDE DEF job
    <3> QED
      BY <2>1, <2>2, <3>1, <3>2, SideQueueKeepsFences
  <2> QED
    BY <1>6, <2>3, <2>4, <2>5 DEF QueueRunningInspection, TypeOK, chatVars
<1>7. ASSUME NEW j \in JobIds, NEW i \in Instances, QueueInspection(j, i)
      PROVE  TypeOK' /\ RowsOK' /\ Fences'
  <2> DEFINE job == NewJob("credentials.inspect", i, NoOne, "NONE", NoRevision)
  <2>1. Queueable(job) /\ job.type = "credentials.inspect" /\ job.inst = i
    <3>1. "credentials.inspect" \in JobTypes /\ "credentials.inspect" \notin ReturningTypes
      BY DEF JobTypes, InspectionTypes, ReturningTypes, ConfigTypes
    <3> QED
      BY <1>1, <3>1, QueueableRow
  <2>2. insertOperationAndJob(j, job) /\ UNCHANGED events
    BY <1>7 DEF QueueInspection, chatVars
  <2>3. jobs' \in [JobIds -> JobRecords] /\ ops' \in [JobIds -> OperationStatuses]
    BY <2>1, <2>2, Inserted DEF Queueable
  <2>4. RowsOK'
    BY <1>2, <2>1, <2>2
  <2>5. Fences'
    <3>1. \A k \in JobIds : Active(k) => jobs[k].inst # i
      BY <1>7 DEF QueueInspection, activeInstanceJobs
    <3>2. inst[i] # "NONE"
      BY <1>7 DEF QueueInspection, Fences, UnbornIdle
    <3>3. inst' = inst /\ reveals' \subseteq reveals
      BY <1>7 DEF QueueInspection
    <3>4. job.type \notin LifecycleTypes \cup RunningInspectionTypes \cup { "chat.send" }
      BY <2>1 DEF LifecycleTypes, ActionTypes, ConfigTypes, RunningInspectionTypes
    <3> HIDE DEF job
    <3> QED
      BY <2>1, <2>2, <3>1, <3>2, <3>3, <3>4, SideQueueKeepsFences
  <2> QED
    BY <1>7, <2>3, <2>4, <2>5 DEF QueueInspection, TypeOK, chatVars
<1>8. ASSUME NEW i \in Instances, RequestCredentials(i) \/ RefuseInspection(i)
      PROVE  TypeOK' /\ RowsOK' /\ Fences'
  <2>1. TypeOK' /\ RowsOK'
    BY <1>8 DEF RequestCredentials, RefuseInspection, TypeOK, RowsOK, Active, chatVars
  <2>2. Fences'
    BY <1>8 DEF RequestCredentials, RefuseInspection, Fences, UnbornIdle, OneExclusiveJob,
       LifecycleFence, ChatLifecycleExclusion, InspectedRuns, DeletedForGood, Active, Chat, Lifecycle
  <2> QED
    BY <2>1, <2>2
<1>9. ASSUME NEW s \in Sessions, CreateChatSession(s)
      PROVE  TypeOK' /\ RowsOK' /\ Fences'
  <2>1. TypeOK' /\ RowsOK'
    BY <1>9 DEF CreateChatSession, TypeOK, RowsOK, Active
  <2>2. Fences'
    BY <1>9 DEF CreateChatSession, Fences, UnbornIdle, OneExclusiveJob,
       LifecycleFence, ChatLifecycleExclusion, InspectedRuns, DeletedForGood, Active, Chat, Lifecycle
  <2> QED
    BY <2>1, <2>2
<1>10. ASSUME NEW j \in JobIds, NEW s \in Sessions, QueueChatMessage(j, s)
      PROVE  TypeOK' /\ RowsOK' /\ Fences'
  <2> DEFINE job == NewJob("chat.send", SessionOf[s], s, "NONE", NoRevision)
             queued == { [seq |-> 0, type |-> "RUN_QUEUED"] }
  <2>1. Queueable(job) /\ job.type = "chat.send" /\ job.inst = SessionOf[s]
    <3>1. "chat.send" \in JobTypes /\ "chat.send" \notin ReturningTypes
      BY DEF JobTypes, ReturningTypes, ConfigTypes
    <3>2. SessionOf[s] \in Instances
      BY SessionsAssumption
    <3> QED
      BY <1>1, <3>1, <3>2, QueueableRow
  <2>2. insertOperationAndJob(j, job)
    BY <1>10 DEF QueueChatMessage
  <2>3. jobs' \in [JobIds -> JobRecords] /\ ops' \in [JobIds -> OperationStatuses]
    BY <2>1, <2>2, Inserted DEF Queueable
  <2>4. queued \in SUBSET [seq : 0..(MaxSequence + 1), type : EventTypes]
        /\ \A e \in queued : e.seq <= MaxSequence
    BY BoundsAssumption DEF EventTypes
  <2> HIDE DEF queued
  <2>5. events' = [events EXCEPT ![j] = queued]
    BY <1>10 DEF QueueChatMessage, queued
  <2>6. /\ events' \in [JobIds -> SUBSET [seq : 0..(MaxSequence + 1), type : EventTypes]]
        /\ events'[j] = queued /\ \A k \in JobIds \ {j} : events'[k] = events[k]
    BY <2>4, <2>5 DEF TypeOK
  <2>7. RowsOK'
    BY <2>1, <2>2, <2>4, <2>6, QueuedRows
  <2>8. messages' \in [JobIds -> MessageStatuses]
    BY <1>10 DEF QueueChatMessage, TypeOK, MessageStatuses
  <2>9. Fences'
    <3>1. inst[SessionOf[s]] = "RUNNING" /\ inst' = inst /\ reveals' = reveals
      BY <1>10 DEF QueueChatMessage
    <3>2. job.type \notin LifecycleTypes
      BY <2>1 DEF LifecycleTypes, ActionTypes, ConfigTypes
    <3> HIDE DEF job
    <3> QED
      BY <2>1, <2>2, <3>1, <3>2, SideQueueKeepsFences
  <2> QED
    BY <1>10, <2>3, <2>6, <2>7, <2>8, <2>9 DEF QueueChatMessage, TypeOK
<1> QED
  BY <1>3, <1>4, <1>5, <1>6, <1>7, <1>8, <1>9, <1>10 DEF QueueStep

(* The cleanup of a deletion finds nothing else on its instance.             *)
LEMMA CleanupKeepsInvariant ==
    ASSUME TypeOK, RowsOK, Fences, NEW j \in JobIds, NEW op \in { "RUNNING", "FAILED", "SUCCEEDED" },
           UpdateInstanceDeletionCleanup(j, op)
    PROVE  TypeOK' /\ RowsOK' /\ Fences'
<1>1. TypeOK' /\ RowsOK'
  BY CleanupTyped
<1>2. jobs[j].type = "delete" /\ jobs[j].status = "SUCCEEDED" /\ inst[jobs[j].inst] = "DELETING"
  BY DEF UpdateInstanceDeletionCleanup, PendingInstanceDeletion
<1>3. jobs' = jobs /\ reveals' = reveals /\ jobs[j].inst \in Instances
  BY <1>2, TypeClasses DEF UpdateInstanceDeletionCleanup, RowsOK, JobTypes
<1>4. \A i \in Instances : \/ inst'[i] = inst[i]
                           \/ i = jobs[j].inst /\ inst'[i] = "DELETED"
  BY <1>3 DEF UpdateInstanceDeletionCleanup, TypeOK
<1>5. \A k \in JobIds : Active(k) /\ Lifecycle(k) => jobs[k].inst # jobs[j].inst
  BY <1>2 DEF Fences, DeletedForGood
<1>6. \A k \in JobIds : Active(k) /\ jobs[k].type \in RunningInspectionTypes =>
                           jobs[k].inst # jobs[j].inst
  BY <1>2 DEF Fences, InspectedRuns
<1>7. \A k \in JobIds : Active(k) => jobs[k].inst \in Instances
  BY DEF RowsOK
<1> USE DEF Active, Chat, Lifecycle
<1>8. UnbornIdle' /\ OneExclusiveJob' /\ ChatLifecycleExclusion'
  BY <1>3, <1>4 DEF Fences, UnbornIdle, OneExclusiveJob, ChatLifecycleExclusion
<1>9. InspectedRuns'
  BY <1>3, <1>4, <1>6, <1>7 DEF Fences, InspectedRuns
<1>10. LifecycleFence'
  BY <1>3, <1>4, <1>5, <1>7 DEF Fences, LifecycleFence, TransitionalStatuses
<1>11. DeletedForGood'
  BY <1>3, <1>4, TypeClasses DEF Fences, DeletedForGood, RowsOK, JobTypes
<1> QED
  BY <1>1, <1>8, <1>9, <1>10, <1>11 DEF Fences

------------------------------------------------------------------------------
(* The invariant.                                                          *)

(* It holds at the start, when there is no row.                              *)
LEMMA InitInvariant == Init => IInv
<1> SUFFICES ASSUME Init PROVE IInv
  OBVIOUS
<1>1. NoJob \in JobRecords /\ NoJob.status = "NONE" /\ NoJob.type = NoOne
  <2>1. "NONE" \in JobStatuses /\ NoResult \in Results /\ "NONE" \in InstanceStatuses
    BY DEF JobStatuses, NoResult, Results, InstanceStatuses
  <2>2. NoToken \in 0..MaxClaims /\ NoLease \in -1..LeaseTicks /\ 0 \in 0..MaxClaims
    BY BoundsAssumption DEF NoToken, NoLease
  <2> QED
    BY <2>1, <2>2 DEF NoJob, JobRecords
<1>2. NoConfig \in ConfigRecords
  BY DEF NoConfig, ConfigRecords
<1>3. TypeOK
  BY <1>1, <1>2 DEF Init, TypeOK, InstanceStatuses, OperationStatuses, MessageStatuses
<1>4. \A j \in JobIds : jobs[j] = NoJob /\ events[j] = {} /\ ~Active(j)
  BY <1>1 DEF Init, Active, ActiveStatuses
<1>5. NoOne \notin JobTypes /\ NoOne # "delete"
  BY DEF NoOne, JobTypes, LifecycleTypes, ActionTypes, ConfigTypes, InspectionTypes,
         RunningInspectionTypes
<1>6. RowsOK
  BY <1>1, <1>4, <1>5 DEF RowsOK
<1>7. UnbornIdle /\ OneExclusiveJob /\ LifecycleFence /\ ChatLifecycleExclusion
      /\ InspectedRuns /\ DeletedForGood
  BY <1>1, <1>4, <1>5 DEF Init, UnbornIdle, OneExclusiveJob, LifecycleFence, ChatLifecycleExclusion,
     InspectedRuns, DeletedForGood, TransitionalStatuses
<1> QED
  BY <1>3, <1>6, <1>7 DEF IInv

(* A step that queues nothing and is no cleanup only releases.               *)
LEMMA OtherSteps ==
    ASSUME TypeOK, RowsOK, AgentStep \/ OperatorStep \/ ReconcileExpiredJobs \/ Tick
    PROVE  TypeOK' /\ RowsOK' /\ Releases
BY ClaimStep, LeaseStep, AppendStep, CompleteStep, OperatorTyped, ReconcileStep DEF AgentStep

(* Every step keeps it.                                                      *)
LEMMA NextInvariant == IInv /\ [Next]_vars => IInv'
<1> SUFFICES ASSUME TypeOK, RowsOK, Fences, [Next]_vars
             PROVE  TypeOK' /\ RowsOK' /\ Fences'
  BY DEF IInv, Fences
<1>1. CASE QueueStep
  BY <1>1, QueueKeepsInvariant
<1>2. CASE AgentStep \/ OperatorStep \/ ReconcileExpiredJobs \/ Tick
  BY <1>2, OtherSteps, ReleaseKeepsFences
<1>3. CASE \E j \in JobIds : \E op \in { "RUNNING", "FAILED", "SUCCEEDED" } :
              UpdateInstanceDeletionCleanup(j, op)
  BY <1>3, CleanupKeepsInvariant
<1>4. CASE UNCHANGED vars
  BY <1>4 DEF vars, chatVars, TypeOK, RowsOK, Fences, UnbornIdle, OneExclusiveJob,
     LifecycleFence, ChatLifecycleExclusion, InspectedRuns, DeletedForGood, Active, Chat, Lifecycle
<1> QED
  BY <1>1, <1>2, <1>3, <1>4 DEF Next, ServerStep

(* Every reachable state of the store satisfies the inductive invariant.     *)
THEOREM Invariance == Spec => []IInv
BY InitInvariant, NextInvariant, PTL DEF Spec

(* The tables keep their types; no job is claimed more often than            *)
(* jobLeaseMaxClaims and no event number leaves its range.                   *)
THEOREM TypeCorrectness == Spec => []TypeOK
<1>1. IInv => TypeOK
  BY DEF IInv
<1> QED
  BY <1>1, Invariance, PTL

(* The active-job fence holds for any number of clients, hosts and workers.  *)
THEOREM ExclusiveJobs == Spec => []OneExclusiveJob
<1>1. IInv => OneExclusiveJob
  BY DEF IInv
<1> QED
  BY <1>1, Invariance, PTL

(* An unfinished lifecycle job owns its instance's status, and a status that *)
(* says "busy" always has such a job behind it.                              *)
THEOREM LifecycleFenced == Spec => []LifecycleFence
<1>1. IInv => LifecycleFence
  BY DEF IInv
<1> QED
  BY <1>1, Invariance, PTL

(* Chat and lifecycle work never share an instance.                          *)
THEOREM ChatExcluded == Spec => []ChatLifecycleExclusion
<1>1. IInv => ChatLifecycleExclusion
  BY DEF IInv
<1> QED
  BY <1>1, Invariance, PTL

------------------------------------------------------------------------------
(* What a step may never do.                                               *)

(* Fencing, completing and leasing only happen to unfinished rows, and a     *)
(* row is inserted only where none was.                                      *)
LEMMA TerminalStep ==
    ASSUME TypeOK, RowsOK, Next, NEW j \in JobIds, jobs[j].status \in TerminalStatuses
    PROVE  jobs'[j] = jobs[j] \/ jobs'[j].status = "GONE"
<1>1. jobs[j].status \notin { "NONE", "PENDING", "LEASED", "RUNNING" }
  BY DEF TerminalStatuses
<1>2. jobs \in [JobIds -> JobRecords]
  BY DEF TypeOK
<1>3. ASSUME NEW k \in JobIds, NEW job, insertOperationAndJob(k, job)
      PROVE  jobs'[j] = jobs[j]
  <2>1. jobs[k].status = "NONE"
    BY <1>3, BoundsAssumption DEF insertOperationAndJob, NextRow, JobIds
  <2> QED
    BY <1>1, <1>2, <1>3, <2>1 DEF insertOperationAndJob
<1>4. CASE QueueStep
  BY <1>3, <1>4 DEF QueueStep, CreateInstance, QueueAction, QueueConfiguration,
     QueueRunningInspection, QueueInspection, RequestCredentials, RefuseInspection,
     CreateChatSession, QueueChatMessage
<1>5. ASSUME NEW F \in SUBSET JobIds, \A k \in F : Expired(k), NEW jobRows, NEW opRows,
             failExpiredJobLeases(F, jobRows, opRows), jobRows[j] = jobs[j]
      PROVE  jobs'[j] = jobs[j]
  <2>1. j \notin F
    BY <1>1, <1>5 DEF Expired, Leased
  <2> QED
    BY <1>5, <2>1 DEF failExpiredJobLeases
<1>6. ASSUME NEW h \in Hosts, ClaimJob(h)
      PROVE  jobs'[j] = jobs[j]
  <2> DEFINE exhausted == { k \in Candidates(h) : Exhausted(k) }
  <2>1. exhausted \subseteq JobIds /\ \A k \in exhausted : Expired(k)
    BY DEF Candidates, Exhausted
  <2>2. ASSUME NEW c \in Candidates(h),
               failExpiredJobLeases({ k \in exhausted : Earlier(k, c) },
                                    [jobs EXCEPT ![c] = LeasedTo(@)], [ops EXCEPT ![c] = "RUNNING"])
        PROVE  jobs'[j] = jobs[j]
    <3>1. c # j
      BY <1>1 DEF Candidates, Expired, Leased
    <3> DEFINE F == { k \in exhausted : Earlier(k, c) }
               jobRows == [jobs EXCEPT ![c] = LeasedTo(@)]
               opRows == [ops EXCEPT ![c] = "RUNNING"]
    <3>2. F \in SUBSET JobIds /\ (\A k \in F : Expired(k)) /\ jobRows[j] = jobs[j]
      BY <1>2, <2>1, <3>1
    <3>3. failExpiredJobLeases(F, jobRows, opRows)
      BY <2>2
    <3> HIDE DEF F, jobRows, opRows
    <3> QED
      BY <1>5, <3>2, <3>3
  <2>3. ASSUME failExpiredJobLeases(exhausted, jobs, ops)
        PROVE  jobs'[j] = jobs[j]
    BY <1>5, <2>1, <2>3
  <2> QED
    BY <1>6, <2>2, <2>3 DEF ClaimJob
<1>7. CASE ReconcileExpiredJobs
  <2> DEFINE F == { k \in JobIds : Exhausted(k) }
  <2>1. F \in SUBSET JobIds /\ (\A k \in F : Expired(k)) /\ failExpiredJobLeases(F, jobs, ops)
    BY <1>7 DEF ReconcileExpiredJobs, Exhausted
  <2> HIDE DEF F
  <2> QED
    BY <1>5, <2>1
<1>8. ASSUME NEW k \in JobIds, NEW t, NEW ok, NEW st, NEW n,
             \/ AcknowledgeJob(k, t) \/ RenewJob(k, t) \/ AppendChatEvent(k, t, n)
             \/ CompleteJob(k, t, ok, st) \/ CancelCodexAuth(k)
      PROVE  jobs'[j] = jobs[j]
  BY <1>1, <1>2, <1>8 DEF AcknowledgeJob, RenewJob, AppendChatEvent, CompleteJob, Completable,
     CancelCodexAuth, Active, ActiveStatuses
<1>9. CASE AgentStep
  BY <1>6, <1>8, <1>9 DEF AgentStep
<1>10. ASSUME NEW s \in Sessions, CancelActiveChat(s) \/ DeleteChatSession(s)
       PROVE  jobs'[j] = jobs[j] \/ jobs'[j].status = "GONE"
  <2>1. CASE CancelActiveChat(s)
    BY <1>1, <1>2, <2>1 DEF CancelActiveChat, Active, ActiveStatuses
  <2>2. CASE DeleteChatSession(s)
    <3>1. [NoJob EXCEPT !.status = "GONE"].status = "GONE"
      BY DEF NoJob
    <3> QED
      BY <2>2, <3>1 DEF DeleteChatSession
  <2> QED
    BY <1>10, <2>1, <2>2
<1>11. CASE OperatorStep
  BY <1>8, <1>10, <1>11 DEF OperatorStep
<1>12. CASE ServerStep
  BY <1>7, <1>12 DEF ServerStep, UpdateInstanceDeletionCleanup
<1>13. CASE Tick
  BY <1>1, <1>13 DEF Tick, Live, Leased
<1> QED
  BY <1>4, <1>9, <1>11, <1>12, <1>13 DEF Next

(* An ended job is final: no late, repeated or outdated message of a Host    *)
(* Agent, no expiry and no cancellation changes it.                          *)
THEOREM TerminalJobsFinal == Spec => TerminalIsFinal
<1>1. IInv /\ [Next]_vars =>
        [\A j \in JobIds : jobs[j].status \in TerminalStatuses =>
            jobs'[j] = jobs[j] \/ jobs'[j].status = "GONE"]_vars
  BY TerminalStep DEF IInv
<1> QED
  BY <1>1, Invariance, PTL DEF Spec, TerminalIsFinal

------------------------------------------------------------------------------
(* Part 2: the tables.                                                     *)

(* A row and its operation: an operation agrees with its job, except that   *)
(* the operation of a succeeded delete job goes on until its cleanup does.  *)
OperationRow(j) ==
    /\ jobs[j].status = "NONE" => jobs[j].type = NoOne /\ ops[j] = "NONE"
    /\ jobs[j].status = "GONE" => jobs[j].type = NoOne /\ ops[j] = "GONE"
    /\ jobs[j].status = "PENDING" => ops[j] = "PENDING"
    /\ jobs[j].status \in { "LEASED", "RUNNING" } => ops[j] = "RUNNING"
    /\ jobs[j].status = "FAILED" => ops[j] = "FAILED"
    /\ jobs[j].status = "SUCCEEDED" =>
          ops[j] = "SUCCEEDED" \/ (jobs[j].type = "delete" /\ ops[j] \in { "RUNNING", "FAILED" })

(* A chat row, its message and its stream.                                  *)
ChatRow(j) ==
    /\ Chat(j) => jobs[j].attempts <= 1
    /\ Chat(j) /\ Active(j) => messages[j] = "PENDING"
    /\ messages[j] \in { "PENDING", "SUCCEEDED", "FAILED" } => Chat(j)

EndsOf(stream) == { e \in stream : e.type \in TerminalEvents }

StreamRow(j) ==
    /\ messages[j] = "PENDING" => Active(j) /\ EndsOf(events[j]) = {}
    /\ messages[j] \in { "SUCCEEDED", "FAILED" } =>
          /\ jobs[j].status = messages[j]
          /\ \E e \in events[j] : /\ EndsOf(events[j]) = {e}
                                  /\ \A f \in events[j] \ {e} : f.seq < e.seq

TableRows == \A j \in JobIds : OperationRow(j) /\ ChatRow(j) /\ StreamRow(j)

(* An instance is deleted once, and reported so when its row says so.       *)
DeletionsAgree ==
    /\ \A j, k \in JobIds :
          /\ jobs[j].type = "delete" /\ jobs[j].status = "SUCCEEDED"
          /\ jobs[k].type = "delete" /\ jobs[k].status = "SUCCEEDED"
          /\ jobs[j].inst = jobs[k].inst
          => j = k
    /\ \A j \in JobIds : jobs[j].type = "delete" /\ jobs[j].status = "SUCCEEDED" =>
          (ops[j] = "SUCCEEDED" <=> inst[jobs[j].inst] = "DELETED")

(* An unfinished configuration job carries the revision its row waits for.  *)
ConfigsOwned ==
    \A j \in JobIds : Active(j) /\ jobs[j].type \in ConfigTypes =>
        /\ config[jobs[j].type][jobs[j].inst].status = "PENDING"
        /\ config[jobs[j].type][jobs[j].inst].desired = jobs[j].rev

QueuesBounded == \A h \in Hosts : Cardinality(HostQueue(h)) <= QueueMax

TableInv ==
    /\ TableRows /\ SessionInOrder /\ DeletionsAgree
    /\ ConfigsOwned /\ ConfigurationAgrees /\ QueuesBounded

------------------------------------------------------------------------------
(* What a step does to one row and to what hangs on it.                    *)

(* The fields no step changes while the row exists.                         *)
Keeps(row, job) ==
    /\ row.type = job.type /\ row.inst = job.inst
    /\ row.sess = job.sess /\ row.rev = job.rev

SameStream(j) == messages'[j] = messages[j] /\ events'[j] = events[j]

Untouched(j) == jobs'[j] = jobs[j] /\ ops'[j] = ops[j] /\ SameStream(j)

(* The row an insertion adds.                                               *)
QueuedStream(j, job) ==
    IF job.type = "chat.send"
    THEN messages'[j] = "PENDING" /\ events'[j] = { [seq |-> 0, type |-> "RUN_QUEUED"] }
    ELSE SameStream(j)

QueuedRow(j) ==
    /\ NextRow(j) /\ jobs[j].status = "NONE"
    /\ Queueable(jobs'[j]) /\ ops'[j] = "PENDING" /\ QueuedStream(j, jobs'[j])
    /\ \A k \in JobIds \ {j} : Untouched(k)

(* A row that a result, an expiry or a cancellation ends.                   *)
EndedStatus(j) ==
    IF jobs'[j].status = "SUCCEEDED" /\ jobs[j].type = "delete" THEN "RUNNING"
    ELSE jobs'[j].status

EndsRow(j) ==
    /\ Active(j) /\ jobs'[j].status \in TerminalStatuses
    /\ Keeps(jobs'[j], jobs[j]) /\ jobs'[j].attempts = jobs[j].attempts
    /\ ops'[j] = EndedStatus(j)
    /\ IF Chat(j) THEN /\ messages'[j] = jobs'[j].status
                       /\ \E type \in TerminalEvents : events'[j] = Closed(events[j], type)
                  ELSE SameStream(j)

(* The row a claim hands out.                                               *)
ClaimsRow(j) ==
    /\ jobs[j].status = "PENDING" \/ (Expired(j) /\ ~Chat(j))
    /\ ~Blocked(j)
    /\ jobs'[j].status = "LEASED" /\ Keeps(jobs'[j], jobs[j])
    /\ jobs'[j].attempts = jobs[j].attempts + 1
    /\ ops'[j] = "RUNNING" /\ SameStream(j)
    /\ \A k \in JobIds \ {j} : Untouched(k) \/ EndsRow(k)

(* A lease acknowledged, renewed or running down.                           *)
LeasesRow(j) ==
    /\ Leased(j) /\ jobs'[j].status \in { "LEASED", "RUNNING" }
    /\ Keeps(jobs'[j], jobs[j]) /\ jobs'[j].attempts = jobs[j].attempts
    /\ jobs'[j].left >= 0 => jobs[j].left >= 0
    /\ ops'[j] = ops[j] /\ SameStream(j)

StreamsRow(j) ==
    /\ Chat(j) /\ jobs[j].status = "RUNNING"
    /\ jobs'[j] = jobs[j] /\ ops'[j] = ops[j] /\ messages'[j] = messages[j]
    /\ \E n \in 1..MaxSequence :
          events'[j] = events[j] \cup { [seq |-> n, type |-> "ASSISTANT_DELTA"] }

RemovesRow(j) ==
    /\ Chat(j)
    /\ jobs'[j].status = "GONE" /\ jobs'[j].type = NoOne /\ jobs'[j].attempts = 0
    /\ ops'[j] = "GONE" /\ messages'[j] = "GONE" /\ events'[j] = {}

(* The Cloudflare half of a deletion moves its operation.                   *)
CleansRow(j) ==
    /\ PendingInstanceDeletion(j)
    /\ jobs'[j] = jobs[j] /\ ops'[j] \in { "RUNNING", "FAILED", "SUCCEEDED" } /\ SameStream(j)
    /\ ops'[j] = "SUCCEEDED" <=> inst'[jobs[j].inst] = "DELETED"

RowStep(j) ==
    \/ Untouched(j) \/ QueuedRow(j) \/ EndsRow(j) \/ ClaimsRow(j) \/ LeasesRow(j)
    \/ StreamsRow(j) \/ RemovesRow(j) \/ CleansRow(j)

(* What a step that inserts a row does to the configurations, and to the     *)
(* instances: it never moves one that a job or a deletion owns.              *)
QueuedConfig(job) ==
    IF job.type \in ConfigTypes
    THEN /\ activeInstanceJobs(job.inst) = {}
         /\ job.rev \in Revisions
         /\ config' = [config EXCEPT ![job.type][job.inst] =
                          [@ EXCEPT !.status = "PENDING", !.desired = job.rev]]
    ELSE config' = config

FreeInstancesOnly ==
    \A i \in Instances : inst'[i] # inst[i] =>
        inst[i] \notin TransitionalStatuses \cup { "DELETING", "DELETED" }

Queued(j, job) ==
    /\ Queueable(job) /\ insertOperationAndJob(j, job)
    /\ QueuedStream(j, job) /\ (\A k \in JobIds \ {j} : SameStream(k))
    /\ QueuedConfig(job)

------------------------------------------------------------------------------
(* Every queueing step inserts one row, or touches no table of jobs.         *)
LEMMA QueueForms ==
    ASSUME TypeOK, RowsOK, QueueStep
    PROVE  /\ FreeInstancesOnly
           /\ \/ UNCHANGED <<jobs, ops, config, messages, events>>
              \/ \E j \in JobIds, job \in JobRecords : Queued(j, job)
<1>1. /\ "NONE" \in InstanceStatuses /\ NoOne \in Sessions \cup { NoOne }
      /\ NoRevision \in Revisions \cup { NoRevision }
  BY DEF InstanceStatuses
<1>2. inst \in [Instances -> InstanceStatuses]
  BY DEF TypeOK
<1>3. ASSUME NEW j \in JobIds, NEW i \in Instances, CreateInstance(j, i)
      PROVE  FreeInstancesOnly /\ \E job \in JobRecords : Queued(j, job)
  <2> DEFINE job == NewJob("provision", i, NoOne, "NONE", NoRevision)
  <2>1. Queueable(job) /\ job.type = "provision" /\ job.inst = i
    <3>1. "provision" \in JobTypes /\ "provision" \notin ReturningTypes
      BY DEF JobTypes, LifecycleTypes, ActionTypes, ReturningTypes, ConfigTypes
    <3> QED
      BY <1>1, <3>1, QueueableRow
  <2>2. insertOperationAndJob(j, job) /\ UNCHANGED <<config, messages, events>>
    BY <1>3 DEF CreateInstance, chatVars
  <2> HIDE DEF job
  <2>3. Queued(j, job)
    BY <2>1, <2>2 DEF Queued, QueuedStream, SameStream, QueuedConfig, ConfigTypes
  <2>4. FreeInstancesOnly
    BY <1>2, <1>3 DEF CreateInstance, FreeInstancesOnly, TransitionalStatuses
  <2> QED
    BY <2>1, <2>3, <2>4 DEF Queueable
<1>4. ASSUME NEW j \in JobIds, NEW i \in Instances, NEW type \in ActionTypes, QueueAction(j, i, type)
      PROVE  FreeInstancesOnly /\ \E job \in JobRecords : Queued(j, job)
  <2> DEFINE asked == PayloadStatus(type, inst[i])
             job == NewJob(type, i, NoOne, asked, NoRevision)
  <2>1. inst[i] \in QueueableFrom(type) /\ inst[i] \in { "RUNNING", "STOPPED", "FAILED" }
    BY <1>4 DEF QueueAction, QueueableFrom, ActionTypes, ConfigTypes
  <2>2. asked \in InstanceStatuses /\ (type \in ReturningTypes => asked \in { "RUNNING", "STOPPED" })
    BY <2>1 DEF PayloadStatus, QueueableFrom, ReturningTypes, ConfigTypes, ActionTypes, InstanceStatuses
  <2> HIDE DEF asked
  <2>3. Queueable(job) /\ job.type = type /\ job.inst = i
    <3>1. type \in JobTypes
      BY DEF JobTypes, LifecycleTypes
    <3> QED
      BY <1>1, <2>2, <3>1, QueueableRow
  <2>4. insertOperationAndJob(j, job) /\ UNCHANGED <<config, messages, events>>
    BY <1>4 DEF QueueAction, chatVars, asked
  <2> HIDE DEF job
  <2>5. Queued(j, job)
    BY <2>3, <2>4 DEF Queued, QueuedStream, SameStream, QueuedConfig, ConfigTypes, ActionTypes
  <2>6. FreeInstancesOnly
    BY <1>2, <1>4, <2>1 DEF QueueAction, FreeInstancesOnly, TransitionalStatuses
  <2> QED
    BY <2>3, <2>5, <2>6 DEF Queueable
<1>5. ASSUME NEW j \in JobIds, NEW i \in Instances, NEW type \in ConfigTypes, NEW rev \in Revisions,
             QueueConfiguration(j, i, type, rev)
      PROVE  FreeInstancesOnly /\ \E job \in JobRecords : Queued(j, job)
  <2> DEFINE job == NewJob(type, i, NoOne, inst[i], rev)
  <2>1. inst[i] \in { "RUNNING", "STOPPED" }
    BY <1>5 DEF QueueConfiguration, QueueableFrom, ConfigTypes
  <2>2. /\ Queueable(job) /\ job.type = type /\ job.inst = i /\ job.rev = rev
    <3>1. type \in JobTypes /\ inst[i] \in InstanceStatuses
      BY <2>1 DEF JobTypes, LifecycleTypes, InstanceStatuses
    <3> QED
      BY <1>1, <2>1, <3>1, QueueableRow, NewJobRow
  <2>3. insertOperationAndJob(j, job) /\ UNCHANGED <<messages, events>>
    BY <1>5 DEF QueueConfiguration, chatVars
  <2> HIDE DEF job
  <2>4. QueuedConfig(job)
    BY <1>5, <2>2 DEF QueueConfiguration, QueuedConfig
  <2>5. Queued(j, job)
    BY <2>2, <2>3, <2>4 DEF Queued, QueuedStream, SameStream, ConfigTypes
  <2>6. FreeInstancesOnly
    BY <1>2, <1>5, <2>1 DEF QueueConfiguration, FreeInstancesOnly, TransitionalStatuses
  <2> QED
    BY <2>2, <2>5, <2>6 DEF Queueable
<1>6. ASSUME NEW j \in JobIds, NEW i \in Instances, NEW type \in InspectionTypes,
             insertOperationAndJob(j, NewJob(type, i, NoOne, "NONE", NoRevision)),
             UNCHANGED <<inst, config, messages, events>>
      PROVE  FreeInstancesOnly /\ \E job \in JobRecords : Queued(j, job)
  <2> DEFINE job == NewJob(type, i, NoOne, "NONE", NoRevision)
  <2>1. Queueable(job) /\ job.type = type /\ job.inst = i
    <3>1. type \in JobTypes /\ type \notin ReturningTypes
      BY DEF JobTypes, InspectionTypes, RunningInspectionTypes, ReturningTypes, ConfigTypes
    <3> QED
      BY <1>1, <3>1, QueueableRow
  <2> HIDE DEF job
  <2>2. insertOperationAndJob(j, job)
    BY <1>6 DEF job
  <2>3. Queued(j, job)
    BY <1>6, <2>1, <2>2 DEF Queued, QueuedStream, SameStream, QueuedConfig, ConfigTypes,
       InspectionTypes, RunningInspectionTypes
  <2> QED
    BY <1>6, <2>1, <2>3 DEF Queueable, FreeInstancesOnly
<1>7. ASSUME NEW j \in JobIds, NEW i \in Instances, NEW type \in RunningInspectionTypes,
             QueueRunningInspection(j, i, type)
      PROVE  FreeInstancesOnly /\ \E job \in JobRecords : Queued(j, job)
  BY <1>6, <1>7 DEF QueueRunningInspection, InspectionTypes, chatVars
<1>8. ASSUME NEW j \in JobIds, NEW i \in Instances, QueueInspection(j, i)
      PROVE  FreeInstancesOnly /\ \E job \in JobRecords : Queued(j, job)
  BY <1>6, <1>8 DEF QueueInspection, InspectionTypes, chatVars
<1>9. ASSUME NEW j \in JobIds, NEW s \in Sessions, QueueChatMessage(j, s)
      PROVE  FreeInstancesOnly /\ \E job \in JobRecords : Queued(j, job)
  <2> DEFINE job == NewJob("chat.send", SessionOf[s], s, "NONE", NoRevision)
  <2>1. Queueable(job) /\ job.type = "chat.send"
    <3>1. "chat.send" \in JobTypes /\ "chat.send" \notin ReturningTypes
      BY DEF JobTypes, ReturningTypes, ConfigTypes
    <3>2. SessionOf[s] \in Instances
      BY SessionsAssumption
    <3> QED
      BY <1>1, <3>1, <3>2, QueueableRow
  <2> HIDE DEF job
  <2>2. insertOperationAndJob(j, job) /\ UNCHANGED <<inst, config>>
    BY <1>9 DEF QueueChatMessage, job
  <2>3. QueuedStream(j, job) /\ \A k \in JobIds \ {j} : SameStream(k)
    <3> DEFINE queued == { [seq |-> 0, type |-> "RUN_QUEUED"] }
    <3>1. /\ events' = [events EXCEPT ![j] = queued]
          /\ messages' = [messages EXCEPT ![j] = "PENDING"]
      BY <1>9 DEF QueueChatMessage
    <3> HIDE DEF queued
    <3>2. /\ messages'[j] = "PENDING" /\ events'[j] = queued
          /\ \A k \in JobIds \ {j} : SameStream(k)
      BY <3>1 DEF TypeOK, SameStream
    <3> QED
      BY <2>1, <3>2 DEF QueuedStream, queued
  <2>4. Queued(j, job)
    BY <2>1, <2>2, <2>3 DEF Queued, QueuedConfig, ConfigTypes
  <2> QED
    BY <2>1, <2>2, <2>4 DEF Queueable, FreeInstancesOnly
<1>10. ASSUME \/ \E i \in Instances : RequestCredentials(i) \/ RefuseInspection(i)
              \/ \E s \in Sessions : CreateChatSession(s)
       PROVE  FreeInstancesOnly /\ UNCHANGED <<jobs, ops, config, messages, events>>
  BY <1>10 DEF RequestCredentials, RefuseInspection, CreateChatSession, chatVars, FreeInstancesOnly
<1> QED
  BY <1>3, <1>4, <1>5, <1>7, <1>8, <1>9, <1>10 DEF QueueStep

(* An inserted row is one row step; every other row is left alone.           *)
LEMMA QueuedRowStep ==
    ASSUME TypeOK, NEW j \in JobIds, NEW job, Queued(j, job)
    PROVE  /\ jobs'[j] = job /\ QueuedRow(j) /\ HasRoom(HostOf[job.inst])
           /\ \A k \in JobIds \ {j} : Untouched(k)
<1>1. /\ jobs[j].status = "NONE" /\ jobs'[j] = job
      /\ \A k \in JobIds \ {j} : jobs'[k] = jobs[k]
  BY Inserted DEF Queued, Queueable
<1>2. ops'[j] = "PENDING" /\ \A k \in JobIds \ {j} : ops'[k] = ops[k]
  BY DEF Queued, insertOperationAndJob, TypeOK
<1> QED
  BY <1>1, <1>2 DEF Queued, QueuedRow, Untouched, insertOperationAndJob

------------------------------------------------------------------------------
(* The other steps.                                                        *)

(* failExpiredJobLease ends the rows it is given and leaves the streams of   *)
(* the others alone.                                                         *)
LEMMA ExpiryRows ==
    ASSUME TypeOK, NEW F \in SUBSET JobIds, \A j \in F : Expired(j),
           NEW jobRows, NEW opRows, failExpiredJobLeases(F, jobRows, opRows)
    PROVE  /\ \A j \in F : EndsRow(j)
           /\ \A k \in JobIds \ F :
                jobs'[k] = jobRows[k] /\ ops'[k] = opRows[k] /\ SameStream(k)
<1>1. ASSUME NEW j \in F
      PROVE  EndsRow(j)
  <2>1. j \in JobIds /\ Active(j) /\ jobs[j] \in JobRecords
    BY <1>1 DEF Expired, Leased, Active, ActiveStatuses, TypeOK
  <2>2. jobs'[j] = Fenced(jobs[j]) /\ ops'[j] = "FAILED"
    BY <1>1, <2>1 DEF failExpiredJobLeases
  <2>3. /\ jobs'[j].status = "FAILED" /\ Keeps(jobs'[j], jobs[j])
        /\ jobs'[j].attempts = jobs[j].attempts
    BY <2>1, <2>2, FencedRow DEF Keeps
  <2>4. IF Chat(j) THEN messages'[j] = "FAILED" /\ events'[j] = Closed(events[j], "RUN_FAILED")
                   ELSE SameStream(j)
    BY <1>1, <2>1 DEF failExpiredJobLeases, SameStream
  <2> QED
    BY <2>1, <2>2, <2>3, <2>4 DEF EndsRow, EndedStatus, TerminalStatuses, TerminalEvents
<1>2. \A k \in JobIds \ F : jobs'[k] = jobRows[k] /\ ops'[k] = opRows[k] /\ SameStream(k)
  BY DEF failExpiredJobLeases, SameStream
<1> QED
  BY <1>1, <1>2

(* A claim hands out at most one row and ends only expired ones.             *)
LEMMA ClaimRows ==
    ASSUME TypeOK, RowsOK, NEW h \in Hosts, ClaimJob(h)
    PROVE  \A k \in JobIds : Untouched(k) \/ EndsRow(k) \/ ClaimsRow(k)
<1> DEFINE exhausted == { j \in Candidates(h) : Exhausted(j) }
           claimable == Candidates(h) \ exhausted
<1>1. jobs \in [JobIds -> JobRecords] /\ ops \in [JobIds -> OperationStatuses]
  BY DEF TypeOK
<1>2. exhausted \in SUBSET JobIds /\ claimable \subseteq JobIds
      /\ \A j \in exhausted : Expired(j)
  BY DEF Candidates, Exhausted
<1>3. ASSUME NEW c \in claimable,
             failExpiredJobLeases({ j \in exhausted : Earlier(j, c) },
                                  [jobs EXCEPT ![c] = LeasedTo(@)], [ops EXCEPT ![c] = "RUNNING"])
      PROVE  \A k \in JobIds : Untouched(k) \/ EndsRow(k) \/ ClaimsRow(k)
  <2> DEFINE jobRows == [jobs EXCEPT ![c] = LeasedTo(@)]
             opRows == [ops EXCEPT ![c] = "RUNNING"]
             F == { j \in exhausted : Earlier(j, c) }
  <2>1. /\ c \in JobIds /\ ~Blocked(c) /\ c \notin F
        /\ jobs[c].status = "PENDING" \/ (Expired(c) /\ ~Exhausted(c))
    BY <1>2 DEF Candidates
  <2>2. /\ jobRows[c] = LeasedTo(jobs[c]) /\ opRows[c] = "RUNNING"
        /\ \A k \in JobIds \ {c} : jobRows[k] = jobs[k] /\ opRows[k] = ops[k]
    BY <1>1, <2>1
  <2>3. F \in SUBSET JobIds /\ (\A j \in F : Expired(j)) /\ failExpiredJobLeases(F, jobRows, opRows)
    BY <1>2, <1>3
  <2> HIDE DEF F, jobRows, opRows
  <2>4. /\ \A j \in F : EndsRow(j)
        /\ \A k \in JobIds \ F : jobs'[k] = jobRows[k] /\ ops'[k] = opRows[k] /\ SameStream(k)
    BY <2>3, ExpiryRows
  <2>5. \A k \in JobIds \ {c} : Untouched(k) \/ EndsRow(k)
    BY <2>2, <2>4 DEF Untouched
  <2>6. jobs[c] \in JobRecords /\ jobs[c].attempts \in 0..MaxClaims
    BY <1>1, <2>1 DEF JobRecords
  <2>7. jobs[c].attempts < MaxClaims
    BY <2>1, <2>6, BoundsAssumption DEF RowsOK, Exhausted
  <2>8. /\ jobs'[c].status = "LEASED" /\ Keeps(jobs'[c], jobs[c])
        /\ jobs'[c].attempts = jobs[c].attempts + 1
    BY <2>1, <2>2, <2>4, <2>6, <2>7, LeasedRow DEF Keeps
  <2>9. ClaimsRow(c)
    BY <2>1, <2>2, <2>4, <2>5, <2>8 DEF ClaimsRow, Exhausted
  <2> QED
    BY <2>5, <2>9
<1>4. ASSUME failExpiredJobLeases(exhausted, jobs, ops)
      PROVE  \A k \in JobIds : Untouched(k) \/ EndsRow(k)
  BY <1>2, <1>4, ExpiryRows DEF Untouched
<1> QED
  BY <1>3, <1>4 DEF ClaimJob

(* The maintenance loop ends the rows whose claims are used up, no others.  *)
LEMMA ReconcileRows ==
    ASSUME TypeOK, ReconcileExpiredJobs
    PROVE  \A k \in JobIds : Untouched(k) \/ EndsRow(k)
<1> DEFINE F == { j \in JobIds : Exhausted(j) }
<1>1. F \in SUBSET JobIds /\ (\A j \in F : Expired(j)) /\ failExpiredJobLeases(F, jobs, ops)
  BY DEF Exhausted, ReconcileExpiredJobs
<1> HIDE DEF F
<1> QED
  BY <1>1, ExpiryRows DEF Untouched

(* A lease only changes hands of time: acknowledged, renewed, run down.      *)
LEMMA LeaseRows ==
    ASSUME TypeOK,
           \/ \E j \in JobIds : \E t \in Issued(j) : AcknowledgeJob(j, t) \/ RenewJob(j, t)
           \/ Tick
    PROVE  \A k \in JobIds : Untouched(k) \/ LeasesRow(k)
<1>1. jobs \in [JobIds -> JobRecords] /\ \A k \in JobIds : jobs[k].left \in -1..LeaseTicks
  BY DEF TypeOK, JobRecords
<1>2. ASSUME NEW j \in JobIds, NEW t \in Issued(j), AcknowledgeJob(j, t) \/ RenewJob(j, t)
      PROVE  \A k \in JobIds : Untouched(k) \/ LeasesRow(k)
  <2>1. PICK status \in { "LEASED", "RUNNING" } :
          jobs' = [jobs EXCEPT ![j] = [jobs[j] EXCEPT !.status = status, !.left = LeaseTicks]]
    <3>1. CASE AcknowledgeJob(j, t)
      BY <3>1 DEF AcknowledgeJob
    <3>2. CASE RenewJob(j, t)
      <4>1. jobs[j] \in JobRecords /\ jobs[j].status = "RUNNING"
        BY <1>1, <3>2 DEF RenewJob
      <4>2. [jobs[j] EXCEPT !.left = LeaseTicks]
              = [jobs[j] EXCEPT !.status = "RUNNING", !.left = LeaseTicks]
        BY <4>1 DEF JobRecords
      <4> QED
        BY <3>2, <4>2 DEF RenewJob
    <3> QED
      BY <1>2, <3>1, <3>2
  <2>2. UNCHANGED <<ops, messages, events>> /\ Leased(j) /\ jobs[j].left > 0
    BY <1>2 DEF AcknowledgeJob, RenewJob, Holds, Leased, chatVars
  <2>3. jobs[j] \in JobRecords /\ \A k \in JobIds \ {j} : jobs'[k] = jobs[k]
    BY <1>1, <2>1
  <2>4. /\ jobs'[j].status = status /\ Keeps(jobs'[j], jobs[j])
        /\ jobs'[j].attempts = jobs[j].attempts
    BY <1>1, <2>1, <2>3 DEF Keeps, JobRecords
  <2>5. LeasesRow(j)
    BY <1>1, <2>2, <2>4 DEF LeasesRow, SameStream
  <2> QED
    BY <2>2, <2>3, <2>5 DEF Untouched, SameStream
<1>3. ASSUME Tick
      PROVE  \A k \in JobIds : Untouched(k) \/ LeasesRow(k)
  <2> TAKE k \in JobIds
  <2>1. UNCHANGED <<ops, messages, events>>
    BY <1>3 DEF Tick, chatVars
  <2>2. CASE Live(k)
    <3>1. jobs[k] \in JobRecords /\ jobs'[k] = [jobs[k] EXCEPT !.left = @ - 1]
      BY <1>1, <1>3, <2>2 DEF Tick
    <3>2. /\ jobs'[k].status = jobs[k].status /\ Keeps(jobs'[k], jobs[k])
          /\ jobs'[k].attempts = jobs[k].attempts
      BY <3>1 DEF Keeps, JobRecords
    <3> QED
      BY <2>1, <2>2, <3>2 DEF LeasesRow, SameStream, Live, Leased
  <2>3. CASE ~Live(k)
    BY <1>3, <2>1, <2>3 DEF Tick, Untouched, SameStream
  <2> QED
    BY <2>2, <2>3
<1> QED
  BY <1>2, <1>3

(* A delta of a chat turn adds one event to the stream of its own message.  *)
LEMMA AppendRows ==
    ASSUME TypeOK, NEW j \in JobIds, NEW t \in Issued(j), NEW n \in 1..MaxSequence,
           AppendChatEvent(j, t, n)
    PROVE  \A k \in JobIds : Untouched(k) \/ StreamsRow(k)
<1> DEFINE e == [seq |-> n, type |-> "ASSISTANT_DELTA"]
<1>1. /\ events' = [events EXCEPT ![j] = @ \cup { e }] /\ UNCHANGED <<jobs, ops, messages>>
      /\ Chat(j) /\ jobs[j].status = "RUNNING"
  BY DEF AppendChatEvent
<1> HIDE DEF e
<1>2. events'[j] = events[j] \cup { e } /\ \A k \in JobIds \ {j} : events'[k] = events[k]
  BY <1>1 DEF TypeOK
<1>3. StreamsRow(j)
  BY <1>1, <1>2 DEF StreamsRow, e
<1> QED
  BY <1>1, <1>2, <1>3 DEF Untouched, SameStream

(* CompleteJobWithHash ends its row.                                         *)
LEMMA CompleteRows ==
    ASSUME TypeOK, NEW j \in JobIds, NEW t \in Issued(j), NEW ok \in BOOLEAN,
           NEW st \in InstanceStatuses \cup { "" }, CompleteJob(j, t, ok, st)
    PROVE  EndsRow(j) /\ \A k \in JobIds \ {j} : Untouched(k)
<1>1. jobs \in [JobIds -> JobRecords] /\ jobs[j] \in JobRecords /\ Active(j)
  BY DEF TypeOK, CompleteJob, Completable, Active, ActiveStatuses
<1> DEFINE row == Ended(jobs[j], ok, st)
           end == IF ok THEN "RUN_COMPLETED" ELSE "RUN_FAILED"
<1>2. /\ jobs' = [jobs EXCEPT ![j] = row]
      /\ events' = IF Chat(j) THEN [events EXCEPT ![j] = Closed(@, end)] ELSE events
  BY DEF CompleteJob
<1>3. /\ row.status \in TerminalStatuses
      /\ (row.status = "SUCCEEDED" => ok) /\ (row.status = "FAILED" => ~ok)
      /\ Keeps(row, jobs[j]) /\ row.attempts = jobs[j].attempts
  BY <1>1, EndedRow DEF Keeps
<1>4. end \in TerminalEvents
  BY DEF TerminalEvents
<1> HIDE DEF row, end
<1>5. jobs'[j] = row /\ \A k \in JobIds \ {j} : jobs'[k] = jobs[k]
  BY <1>1, <1>2
<1>6. /\ ops'[j] = IF ~ok THEN "FAILED" ELSE IF jobs[j].type = "delete" THEN "RUNNING" ELSE "SUCCEEDED"
      /\ \A k \in JobIds \ {j} : ops'[k] = ops[k]
  BY DEF CompleteJob, TypeOK
<1>7. /\ Chat(j) => messages'[j] = IF ok THEN "SUCCEEDED" ELSE "FAILED"
      /\ ~Chat(j) => messages'[j] = messages[j]
      /\ \A k \in JobIds \ {j} : messages'[k] = messages[k]
  BY DEF CompleteJob, TypeOK
<1>8. /\ Chat(j) => events'[j] = Closed(events[j], end)
      /\ ~Chat(j) => events'[j] = events[j]
      /\ \A k \in JobIds \ {j} : events'[k] = events[k]
  BY <1>2 DEF TypeOK
<1>9. ops'[j] = EndedStatus(j) /\ (Chat(j) => messages'[j] = jobs'[j].status)
  BY <1>3, <1>5, <1>6, <1>7 DEF EndedStatus, TerminalStatuses
<1>10. EndsRow(j)
  BY <1>1, <1>3, <1>4, <1>5, <1>7, <1>8, <1>9 DEF EndsRow, SameStream
<1> QED
  BY <1>5, <1>6, <1>7, <1>8, <1>10 DEF Untouched, SameStream

(* A cancellation ends a row, deleting a session removes its rows.           *)
LEMMA OperatorRows ==
    ASSUME TypeOK, OperatorStep
    PROVE  \A k \in JobIds : Untouched(k) \/ EndsRow(k) \/ RemovesRow(k)
<1>1. jobs \in [JobIds -> JobRecords]
  BY DEF TypeOK
<1>2. ASSUME NEW j \in JobIds, Active(j), jobs' = [jobs EXCEPT ![j] = Fenced(@)],
             ops' = [ops EXCEPT ![j] = "FAILED"]
      PROVE  /\ jobs'[j].status = "FAILED" /\ Keeps(jobs'[j], jobs[j])
             /\ jobs'[j].attempts = jobs[j].attempts /\ ops'[j] = EndedStatus(j)
             /\ \A k \in JobIds \ {j} : jobs'[k] = jobs[k] /\ ops'[k] = ops[k]
  <2>1. /\ jobs'[j] = Fenced(jobs[j]) /\ ops'[j] = "FAILED"
        /\ \A k \in JobIds \ {j} : jobs'[k] = jobs[k] /\ ops'[k] = ops[k]
    BY <1>1, <1>2 DEF TypeOK
  <2> QED
    BY <1>1, <2>1, FencedRow DEF Keeps, EndedStatus
<1>3. ASSUME NEW j \in JobIds, CancelCodexAuth(j)
      PROVE  \A k \in JobIds : Untouched(k) \/ EndsRow(k)
  <2>1. UNCHANGED <<messages, events>> /\ Active(j) /\ ~Chat(j)
    BY <1>3 DEF CancelCodexAuth, chatVars, Chat
  <2>2. jobs' = [jobs EXCEPT ![j] = Fenced(@)] /\ ops' = [ops EXCEPT ![j] = "FAILED"]
    BY <1>3 DEF CancelCodexAuth
  <2> QED
    BY <1>2, <2>1, <2>2 DEF EndsRow, Untouched, SameStream, TerminalStatuses
<1>4. ASSUME NEW s \in Sessions, CancelActiveChat(s)
      PROVE  \A k \in JobIds : Untouched(k) \/ EndsRow(k)
  <2>1. PICK j \in JobIds :
           /\ Chat(j) /\ Active(j)
           /\ jobs' = [jobs EXCEPT ![j] = Fenced(@)] /\ ops' = [ops EXCEPT ![j] = "FAILED"]
           /\ messages' = [messages EXCEPT ![j] = "FAILED"]
           /\ events' = [events EXCEPT ![j] = Closed(@, "RUN_CANCELED")]
    BY <1>4 DEF CancelActiveChat
  <2>2. /\ messages'[j] = "FAILED" /\ events'[j] = Closed(events[j], "RUN_CANCELED")
        /\ \A k \in JobIds \ {j} : SameStream(k)
    BY <2>1 DEF TypeOK, SameStream
  <2> QED
    BY <1>2, <2>1, <2>2 DEF EndsRow, Untouched, TerminalStatuses, TerminalEvents
<1>5. ASSUME NEW s \in Sessions, DeleteChatSession(s)
      PROVE  \A k \in JobIds : Untouched(k) \/ RemovesRow(k)
  <2> DEFINE gone == [NoJob EXCEPT !.status = "GONE"]
             doomed == { j \in JobIds : Chat(j) /\ jobs[j].sess = s }
  <2>1. gone.status = "GONE" /\ gone.type = NoOne /\ gone.attempts = 0
    BY DEF NoJob
  <2>2. \A k \in JobIds :
           /\ jobs'[k] = IF k \in doomed THEN gone ELSE jobs[k]
           /\ ops'[k] = IF k \in doomed THEN "GONE" ELSE ops[k]
           /\ messages'[k] = IF k \in doomed THEN "GONE" ELSE messages[k]
           /\ events'[k] = IF k \in doomed THEN {} ELSE events[k]
    BY <1>5 DEF DeleteChatSession
  <2>3. \A k \in doomed : Chat(k)
    OBVIOUS
  <2> HIDE DEF gone, doomed
  <2> QED
    BY <2>1, <2>2, <2>3 DEF RemovesRow, Untouched, SameStream
<1> QED
  BY <1>3, <1>4, <1>5 DEF OperatorStep

(* A cleanup pass moves one operation, and with success its instance.       *)
LEMMA CleanupRows ==
    ASSUME TypeOK, RowsOK, NEW j \in JobIds, NEW op \in { "RUNNING", "FAILED", "SUCCEEDED" },
           UpdateInstanceDeletionCleanup(j, op)
    PROVE  CleansRow(j) /\ \A k \in JobIds \ {j} : Untouched(k)
<1>1. /\ PendingInstanceDeletion(j) /\ UNCHANGED <<jobs, messages, events>>
      /\ jobs[j].inst \in Instances /\ inst[jobs[j].inst] = "DELETING"
  BY TypeClasses DEF UpdateInstanceDeletionCleanup, PendingInstanceDeletion, chatVars, RowsOK, JobTypes
<1>2. ops'[j] = op /\ \A k \in JobIds \ {j} : ops'[k] = ops[k]
  BY DEF UpdateInstanceDeletionCleanup, TypeOK
<1>3. op = "SUCCEEDED" <=> inst'[jobs[j].inst] = "DELETED"
  BY <1>1 DEF UpdateInstanceDeletionCleanup, TypeOK
<1> QED
  BY <1>1, <1>2, <1>3 DEF CleansRow, Untouched, SameStream

(* Every row takes one of the forms in every step.                           *)
LEMMA RowSteps ==
    ASSUME TypeOK, RowsOK, Next
    PROVE  \A k \in JobIds : RowStep(k)
<1>1. CASE QueueStep
  <2>1. CASE UNCHANGED <<jobs, ops, config, messages, events>>
    BY <2>1 DEF RowStep, Untouched, SameStream
  <2>2. CASE \E j \in JobIds, job \in JobRecords : Queued(j, job)
    BY <2>2, QueuedRowStep DEF RowStep
  <2> QED
    BY <1>1, <2>1, <2>2, QueueForms
<1>2. CASE AgentStep
  BY <1>2, ClaimRows, LeaseRows, AppendRows, CompleteRows DEF AgentStep, RowStep
<1>3. CASE OperatorStep
  BY <1>3, OperatorRows DEF RowStep
<1>4. CASE ServerStep
  BY <1>4, ReconcileRows, CleanupRows DEF ServerStep, RowStep
<1>5. CASE Tick
  BY <1>5, LeaseRows DEF RowStep
<1> QED
  BY <1>1, <1>2, <1>3, <1>4, <1>5 DEF Next
------------------------------------------------------------------------------
(* Each form keeps what the invariant says of the row.                     *)

(* Closing an open stream adds its only end, after every other event.        *)
LEMMA ClosedOnce ==
    ASSUME NEW stream \in SUBSET [seq : 0..(MaxSequence + 1), type : EventTypes],
           \A e \in stream : e.seq <= MaxSequence,
           EndsOf(stream) = {}, NEW type \in TerminalEvents
    PROVE  \E e \in Closed(stream, type) :
              /\ EndsOf(Closed(stream, type)) = {e}
              /\ \A f \in Closed(stream, type) \ {e} : f.seq < e.seq
<1> DEFINE S == { e.seq : e \in stream } \cup { 0 }
           end == [seq |-> 1 + Max(S), type |-> type]
<1>1. MaxSequence \in Nat
  BY BoundsAssumption
<1>2. \A e \in stream : e.seq \in 0..MaxSequence
  BY <1>1
<1>3. S \in SUBSET (0..MaxSequence) /\ S # {}
  BY <1>1, <1>2
<1>4. Max(S) \in S /\ \A y \in S : y <= Max(S)
  BY <1>1, <1>3, MaxOfBounded
<1>5. \A e \in stream : e.seq \in S
  OBVIOUS
<1>6. Closed(stream, type) = stream \cup { end }
  BY DEF Closed
<1> HIDE DEF S
<1>7. end.seq = 1 + Max(S) /\ end.type = type
  OBVIOUS
<1>8. Max(S) \in Int
  <2>1. \A y \in S : y \in 0..MaxSequence
    BY <1>3
  <2> QED
    BY <1>1, <1>4, <2>1
<1> HIDE DEF end
<1>9. \A e \in stream : e.seq < end.seq
  BY <1>2, <1>4, <1>5, <1>7, <1>8
<1>10. EndsOf(stream \cup { end }) = { end }
  BY <1>7 DEF EndsOf
<1> QED
  BY <1>6, <1>9, <1>10

(* An operation agrees with its job in every form a step can take.          *)
LEMMA OperationRowStep ==
    ASSUME TypeOK, RowsOK, NEW j \in JobIds, OperationRow(j), RowStep(j)
    PROVE  OperationRow(j)'
<1> USE DEF OperationRow
<1>1. CASE Untouched(j)
  BY <1>1 DEF Untouched
<1>2. CASE QueuedRow(j)
  BY <1>2 DEF QueuedRow, Queueable
<1>3. CASE EndsRow(j)
  BY <1>3 DEF EndsRow, EndedStatus, Keeps, TerminalStatuses
<1>4. CASE ClaimsRow(j)
  BY <1>4 DEF ClaimsRow
<1>5. CASE LeasesRow(j)
  BY <1>5 DEF LeasesRow, Leased
<1>6. CASE StreamsRow(j)
  BY <1>6 DEF StreamsRow
<1>7. CASE RemovesRow(j)
  BY <1>7 DEF RemovesRow
<1>8. CASE CleansRow(j)
  BY <1>8 DEF CleansRow, PendingInstanceDeletion
<1> QED
  BY <1>1, <1>2, <1>3, <1>4, <1>5, <1>6, <1>7, <1>8 DEF RowStep

(* A chat job is claimed once, and its message is pending while it runs.    *)
LEMMA ChatRowStep ==
    ASSUME TypeOK, RowsOK, NEW j \in JobIds, OperationRow(j), ChatRow(j), RowStep(j)
    PROVE  ChatRow(j)'
<1> USE DEF ChatRow, Chat, Active, SameStream
<1>1. CASE Untouched(j)
  BY <1>1 DEF Untouched
<1>2. CASE QueuedRow(j)
  <2>1. messages[j] \notin { "PENDING", "SUCCEEDED", "FAILED" }
    BY <1>2 DEF QueuedRow, OperationRow, NoOne
  <2> QED
    BY <1>2, <2>1 DEF QueuedRow, Queueable, QueuedStream
<1>3. CASE EndsRow(j)
  BY <1>3 DEF EndsRow, Keeps, TerminalStatuses, ActiveStatuses
<1>4. CASE ClaimsRow(j)
  <2>1. Chat(j) => jobs[j].status = "PENDING" /\ jobs[j].attempts = 0
    BY <1>4 DEF ClaimsRow, RowsOK
  <2>2. Active(j)
    BY <1>4 DEF ClaimsRow, Expired, Leased, ActiveStatuses
  <2> QED
    BY <1>4, <2>1, <2>2 DEF ClaimsRow, Keeps
<1>5. CASE LeasesRow(j)
  BY <1>5 DEF LeasesRow, Leased, Keeps, ActiveStatuses
<1>6. CASE StreamsRow(j)
  BY <1>6 DEF StreamsRow
<1>7. CASE RemovesRow(j)
  BY <1>7 DEF RemovesRow, NoOne
<1>8. CASE CleansRow(j)
  BY <1>8 DEF CleansRow
<1> QED
  BY <1>1, <1>2, <1>3, <1>4, <1>5, <1>6, <1>7, <1>8 DEF RowStep

(* A stream is open while its message is pending, and closed by one event.  *)
LEMMA StreamRowStep ==
    ASSUME TypeOK, RowsOK, NEW j \in JobIds, OperationRow(j), ChatRow(j), StreamRow(j), RowStep(j)
    PROVE  StreamRow(j)'
<1> USE DEF StreamRow, Active, SameStream
<1>1. CASE Untouched(j)
  BY <1>1 DEF Untouched, EndsOf
<1>2. CASE QueuedRow(j)
  <2>1. messages[j] \notin { "PENDING", "SUCCEEDED", "FAILED" }
    BY <1>2 DEF QueuedRow, OperationRow, NoOne, ChatRow, Chat
  <2>2. EndsOf({ [seq |-> 0, type |-> "RUN_QUEUED"] }) = {}
    BY DEF EndsOf, TerminalEvents
  <2>3. /\ messages'[j] \notin { "SUCCEEDED", "FAILED" } /\ jobs'[j].status = "PENDING"
        /\ messages'[j] = "PENDING" => events'[j] = { [seq |-> 0, type |-> "RUN_QUEUED"] }
    BY <1>2, <2>1 DEF QueuedRow, Queueable, QueuedStream
  <2> HIDE DEF SameStream
  <2> QED
    BY <2>2, <2>3 DEF ActiveStatuses, EndsOf
<1>3. CASE EndsRow(j)
  <2>1. CASE ~Chat(j)
    <3>1. messages'[j] \notin { "PENDING", "SUCCEEDED", "FAILED" }
      BY <1>3, <2>1 DEF EndsRow, ChatRow
    <3> QED
      BY <3>1
  <2>2. CASE Chat(j)
    <3>1. /\ messages[j] = "PENDING" /\ messages'[j] = jobs'[j].status
          /\ jobs'[j].status \in TerminalStatuses
      BY <1>3, <2>2 DEF EndsRow, ChatRow
    <3>2. PICK type \in TerminalEvents : events'[j] = Closed(events[j], type)
      BY <1>3, <2>2 DEF EndsRow
    <3>3. /\ events[j] \in SUBSET [seq : 0..(MaxSequence + 1), type : EventTypes]
          /\ \A e \in events[j] : e.seq <= MaxSequence
      BY <1>3 DEF TypeOK, RowsOK, EndsRow, ActiveStatuses, TerminalStatuses
    <3>4. \E e \in events'[j] : /\ EndsOf(events'[j]) = {e}
                                 /\ \A f \in events'[j] \ {e} : f.seq < e.seq
      BY <3>1, <3>2, <3>3, ClosedOnce
    <3> QED
      BY <3>1, <3>4 DEF TerminalStatuses, EndsOf
  <2> QED
    BY <2>1, <2>2
<1>4. CASE ClaimsRow(j)
  <2>1. Active(j)
    BY <1>4 DEF ClaimsRow, Expired, Leased, ActiveStatuses
  <2> QED
    BY <1>4, <2>1 DEF ClaimsRow, EndsOf, ActiveStatuses
<1>5. CASE LeasesRow(j)
  BY <1>5 DEF LeasesRow, Leased, EndsOf, ActiveStatuses
<1>6. CASE StreamsRow(j)
  <2>1. PICK n \in 1..MaxSequence :
          events'[j] = events[j] \cup { [seq |-> n, type |-> "ASSISTANT_DELTA"] }
    BY <1>6 DEF StreamsRow
  <2> DEFINE e == [seq |-> n, type |-> "ASSISTANT_DELTA"]
  <2>2. e.type \notin TerminalEvents
    BY DEF TerminalEvents
  <2>3. events'[j] = events[j] \cup { e }
    BY <2>1
  <2> HIDE DEF e
  <2>4. EndsOf(events'[j]) = EndsOf(events[j])
    BY <2>2, <2>3 DEF EndsOf
  <2>5. messages'[j] = messages[j] /\ jobs'[j] = jobs[j] /\ messages[j] \notin { "SUCCEEDED", "FAILED" }
    BY <1>6 DEF StreamsRow
  <2> QED
    BY <2>4, <2>5 DEF EndsOf
<1>7. CASE RemovesRow(j)
  BY <1>7 DEF RemovesRow
<1>8. CASE CleansRow(j)
  BY <1>8 DEF CleansRow, EndsOf
<1> QED
  BY <1>1, <1>2, <1>3, <1>4, <1>5, <1>6, <1>7, <1>8 DEF RowStep

(* The three relations above hold for every row after every step.           *)
LEMMA TableRowsKept ==
    ASSUME TypeOK, RowsOK, TableRows, Next
    PROVE  TableRows'
<1>1. ASSUME NEW j \in JobIds
      PROVE  OperationRow(j)' /\ ChatRow(j)' /\ StreamRow(j)'
  BY RowSteps, OperationRowStep, ChatRowStep, StreamRowStep DEF TableRows
<1> QED
  BY <1>1 DEF TableRows

------------------------------------------------------------------------------
(* Sessions.                                                               *)

(* Where a row that a worker may hold, or whose claim count grew, came from. *)
LEMMA SessionKept ==
    ASSUME TypeOK, RowsOK, TableRows, SessionInOrder, Next
    PROVE  SessionInOrder'
<1> SUFFICES ASSUME NEW j \in JobIds, NEW k \in JobIds,
                    Chat(j)', Chat(k)', jobs'[j].sess = jobs'[k].sess, j < k
             PROVE  /\ ~(Live(j)' /\ Live(k)')
                    /\ jobs'[j].status = "PENDING" => jobs'[k].attempts = 0
  BY DEF SessionInOrder
<1>1. RowStep(j) /\ RowStep(k) /\ j \in Nat /\ k \in Nat
  BY RowSteps, BoundsAssumption DEF JobIds
<1>2. ASSUME NEW i \in JobIds, Chat(i)', RowStep(i)
      PROVE  \/ QueuedRow(i)
             \/ /\ Chat(i) /\ jobs'[i].sess = jobs[i].sess
                /\ ClaimsRow(i) \/ jobs'[i].attempts = jobs[i].attempts
                /\ jobs'[i].status = "PENDING" => jobs[i].status = "PENDING"
                /\ ClaimsRow(i) \/ (Live(i)' => Live(i))
  <2> USE DEF Chat, Live, Leased
  <2>1. CASE Untouched(i)
    BY <1>2, <2>1 DEF Untouched
  <2>2. CASE EndsRow(i)
    BY <1>2, <2>2 DEF EndsRow, Keeps, TerminalStatuses
  <2>3. CASE ClaimsRow(i)
    BY <1>2, <2>3 DEF ClaimsRow, Keeps
  <2>4. CASE LeasesRow(i)
    BY <1>2, <2>4 DEF LeasesRow, Keeps
  <2>5. CASE StreamsRow(i)
    BY <1>2, <2>5 DEF StreamsRow
  <2>6. CASE RemovesRow(i)
    BY <1>2, <2>6 DEF RemovesRow, NoOne
  <2>7. CASE CleansRow(i)
    BY <1>2, <2>7 DEF CleansRow
  <2> QED
    BY <1>2, <2>1, <2>2, <2>3, <2>4, <2>5, <2>6, <2>7 DEF RowStep
<1>3. CASE QueuedRow(j)
  <2>1. jobs[k].status = "NONE" /\ jobs'[k] = jobs[k]
    BY <1>1, <1>3 DEF QueuedRow, NextRow, Untouched
  <2>2. jobs[k].type = NoOne
    BY <2>1 DEF TableRows, OperationRow
  <2> QED
    BY <2>1, <2>2 DEF Chat, NoOne
<1>4. CASE QueuedRow(k)
  BY <1>4 DEF QueuedRow, Queueable, Live, Leased
<1>5. CASE ~QueuedRow(j) /\ ~QueuedRow(k)
  <2>1. /\ Chat(j) /\ Chat(k) /\ jobs[j].sess = jobs[k].sess
        /\ ClaimsRow(k) \/ jobs'[k].attempts = jobs[k].attempts
        /\ jobs'[j].status = "PENDING" => jobs[j].status = "PENDING"
        /\ ClaimsRow(j) \/ (Live(j)' => Live(j))
        /\ ClaimsRow(k) \/ (Live(k)' => Live(k))
    BY <1>1, <1>2, <1>5
  <2>2. /\ ~(Live(j) /\ Live(k))
        /\ jobs[j].status = "PENDING" => jobs[k].attempts = 0
    BY <2>1 DEF SessionInOrder
  <2>3. CASE ClaimsRow(k)
    <3>1. ~Live(j) /\ jobs[j].status # "PENDING"
      BY <1>1, <2>1, <2>3 DEF ClaimsRow, Blocked
    <3>2. jobs'[j] = jobs[j] \/ jobs'[j].status \in TerminalStatuses
      BY <1>1, <2>3 DEF ClaimsRow, Untouched, EndsRow
    <3> QED
      BY <2>1, <3>1, <3>2 DEF Live, Leased, TerminalStatuses
  <2>4. CASE ClaimsRow(j) /\ ~ClaimsRow(k)
    <3>1. ~Live(k)
      BY <1>1, <2>1, <2>4 DEF ClaimsRow, Blocked
    <3> QED
      BY <2>1, <2>4, <3>1 DEF ClaimsRow
  <2>5. CASE ~ClaimsRow(j) /\ ~ClaimsRow(k)
    BY <2>1, <2>2, <2>5
  <2> QED
    BY <2>3, <2>4, <2>5
<1> QED
  BY <1>3, <1>4, <1>5
------------------------------------------------------------------------------
(* Queues, deletions and configurations.                                   *)

(* An unfinished row was inserted by this step or was unfinished before it.  *)
LEMMA ActiveBefore ==
    ASSUME NEW k \in JobIds, RowStep(k), Active(k)', ~QueuedRow(k)
    PROVE  Active(k) /\ Keeps(jobs'[k], jobs[k])
BY DEF RowStep, Untouched, EndsRow, ClaimsRow, LeasesRow, StreamsRow, RemovesRow, CleansRow,
   Active, ActiveStatuses, TerminalStatuses, Expired, Leased, Keeps

(* One more element is at most one more.                                     *)
LEMMA OneMore ==
    ASSUME NEW S, IsFiniteSet(S), NEW x
    PROVE  /\ IsFiniteSet(S \cup { x }) /\ Cardinality(S \cup { x }) \in Nat
           /\ Cardinality(S \cup { x }) <= Cardinality(S) + 1
<1>1. IsFiniteSet(S \cup { x })
  BY FS_AddElement
<1>2. Cardinality(S) \in Nat /\ Cardinality(S \cup { x }) \in Nat
  BY <1>1, FS_CardinalityType
<1>3. CASE x \in S
  <2>1. Cardinality(S \cup { x }) = Cardinality(S)
    BY <1>3, FS_AddElement
  <2> QED
    BY <1>1, <1>2, <2>1
<1>4. CASE x \notin S
  <2>1. Cardinality(S \cup { x }) = Cardinality(S) + 1
    BY <1>4, FS_AddElement
  <2> QED
    BY <1>1, <1>2, <2>1
<1> QED
  BY <1>3, <1>4

(* insertOperationAndJob counts before it inserts, in the same transaction.  *)
LEMMA QueuesKept ==
    ASSUME TypeOK, RowsOK, QueuesBounded, Next
    PROVE  QueuesBounded'
<1> SUFFICES ASSUME NEW h \in Hosts
             PROVE  Cardinality(HostQueue(h)') <= QueueMax
  BY DEF QueuesBounded
<1>1. /\ IsFiniteSet(HostQueue(h)) /\ Cardinality(HostQueue(h)) \in Nat
      /\ IsFiniteSet(HostQueue(h)') /\ Cardinality(HostQueue(h)') \in Nat
  <2>1. IsFiniteSet(JobIds)
    BY FS_Interval, BoundsAssumption DEF JobIds
  <2>2. HostQueue(h) \subseteq JobIds /\ HostQueue(h)' \subseteq JobIds
    BY DEF HostQueue
  <2> QED
    BY <2>1, <2>2, FS_Subset, FS_CardinalityType
<1>2. Cardinality(HostQueue(h)) <= QueueMax /\ QueueMax \in Nat
  BY BoundsAssumption DEF QueuesBounded
<1>3. ASSUME HostQueue(h)' \subseteq HostQueue(h)
      PROVE  Cardinality(HostQueue(h)') <= QueueMax
  <2>1. Cardinality(HostQueue(h)') <= Cardinality(HostQueue(h))
    BY <1>1, <1>3, FS_Subset
  <2> QED
    BY <1>1, <1>2, <2>1
<1>4. ASSUME NEW j \in JobIds, NEW job \in JobRecords, Queued(j, job)
      PROVE  Cardinality(HostQueue(h)') <= QueueMax
  <2>1. jobs'[j] = job /\ HasRoom(HostOf[job.inst]) /\ \A k \in JobIds \ {j} : jobs'[k] = jobs[k]
    BY <1>4, QueuedRowStep DEF Untouched
  <2>2. CASE HostOf[job.inst] # h
    <3>1. HostQueue(h)' \subseteq HostQueue(h)
      BY <2>1, <2>2 DEF HostQueue, Active
    <3> QED
      BY <1>3, <3>1
  <2>3. CASE HostOf[job.inst] = h
    <3>1. HostQueue(h)' \subseteq HostQueue(h) \cup { j }
      BY <2>1 DEF HostQueue, Active
    <3>2. /\ IsFiniteSet(HostQueue(h) \cup { j })
          /\ Cardinality(HostQueue(h) \cup { j }) <= Cardinality(HostQueue(h)) + 1
          /\ Cardinality(HostQueue(h) \cup { j }) \in Nat
      BY <1>1, OneMore
    <3>3. Cardinality(HostQueue(h)') <= Cardinality(HostQueue(h) \cup { j })
      BY <3>1, <3>2, FS_Subset
    <3>4. Cardinality(HostQueue(h)) < QueueMax
      BY <2>1, <2>3 DEF HasRoom
    <3> QED
      BY <1>1, <1>2, <3>2, <3>3, <3>4
  <2> QED
    BY <2>2, <2>3
<1>5. CASE QueueStep
  <2>1. CASE UNCHANGED <<jobs, ops, config, messages, events>>
    BY <1>3, <2>1 DEF HostQueue, Active
  <2> QED
    BY <1>4, <1>5, <2>1, QueueForms
<1>6. CASE AgentStep \/ OperatorStep \/ ReconcileExpiredJobs \/ Tick
  <2>1. Releases
    BY <1>6, OtherSteps
  <2>2. HostQueue(h)' \subseteq HostQueue(h)
    BY <2>1 DEF Releases, HostQueue
  <2> QED
    BY <1>3, <2>2
<1>7. CASE \E j \in JobIds : \E op \in { "RUNNING", "FAILED", "SUCCEEDED" } :
              UpdateInstanceDeletionCleanup(j, op)
  BY <1>3, <1>7 DEF UpdateInstanceDeletionCleanup, HostQueue, Active
<1> QED
  BY <1>5, <1>6, <1>7 DEF Next, ServerStep

(* The delete jobs that have removed their runtime.                          *)
Removed(j) == jobs[j].type = "delete" /\ jobs[j].status = "SUCCEEDED"

(* A runtime is removed by its own delete job, and only once.               *)
LEMMA RemovedBefore ==
    ASSUME NEW j \in JobIds, RowStep(j), Removed(j)'
    PROVE  \/ Removed(j) /\ jobs'[j] = jobs[j] /\ (ops'[j] = ops[j] \/ CleansRow(j))
           \/ /\ Active(j) /\ jobs[j].type = "delete" /\ jobs'[j].inst = jobs[j].inst
              /\ ops'[j] = "RUNNING"
BY DEF RowStep, Untouched, QueuedRow, Queueable, EndsRow, EndedStatus, ClaimsRow, LeasesRow,
   StreamsRow, RemovesRow, CleansRow, Removed, Keeps, Chat, NoOne

(* Nothing but its own cleanup moves an instance whose runtime is removed.   *)
LEMMA RemovedStays ==
    ASSUME IInv, DeletionsAgree, Next, NEW j \in JobIds, Removed(j)
    PROVE  inst'[jobs[j].inst] = inst[jobs[j].inst] \/ CleansRow(j)
<1>1. /\ jobs[j].inst \in Instances /\ inst[jobs[j].inst] \in { "DELETING", "DELETED" }
      /\ \A k \in JobIds : Active(k) /\ Lifecycle(k) => jobs[k].inst # jobs[j].inst
  BY TypeClasses DEF IInv, RowsOK, DeletedForGood, Removed, JobTypes
<1>2. CASE QueueStep
  BY <1>1, <1>2, QueueForms DEF IInv, FreeInstancesOnly
<1>3. CASE AgentStep \/ OperatorStep \/ ReconcileExpiredJobs \/ Tick
  <2>1. Releases
    BY <1>3, OtherSteps DEF IInv
  <2>2. ASSUME NEW k \in JobIds, Active(k), jobs[k].type \in OwnerTypes
        PROVE  jobs[k].inst # jobs[j].inst
    <3>1. CASE jobs[k].type \in LifecycleTypes
      BY <1>1, <2>2, <3>1 DEF Lifecycle
    <3>2. CASE jobs[k].type = "hermes.inspect"
      BY <1>1, <2>2, <3>2 DEF IInv, InspectedRuns, RunningInspectionTypes
    <3> QED
      BY <2>2, <3>1, <3>2 DEF OwnerTypes
  <2> QED
    BY <1>1, <2>1, <2>2 DEF Releases
<1>4. ASSUME NEW k \in JobIds, NEW op \in { "RUNNING", "FAILED", "SUCCEEDED" },
             UpdateInstanceDeletionCleanup(k, op)
      PROVE  inst'[jobs[j].inst] = inst[jobs[j].inst] \/ CleansRow(j)
  <2>1. CASE k = j
    BY <1>4, <2>1, CleanupRows DEF IInv
  <2>2. CASE k # j
    <3>1. jobs[k].inst # jobs[j].inst
      BY <1>4, <2>2 DEF UpdateInstanceDeletionCleanup, PendingInstanceDeletion, DeletionsAgree, Removed
    <3> QED
      BY <1>1, <1>4, <3>1 DEF UpdateInstanceDeletionCleanup, IInv, TypeOK
  <2> QED
    BY <2>1, <2>2
<1> QED
  BY <1>2, <1>3, <1>4 DEF Next, ServerStep

(* A runtime is removed once, and its row tells when the cleanup is over.    *)
LEMMA DeletionsKept ==
    ASSUME IInv, DeletionsAgree, Next
    PROVE  DeletionsAgree'
<1>1. \A j \in JobIds : RowStep(j)
  BY RowSteps DEF IInv
<1>2. ASSUME NEW j \in JobIds, NEW k \in JobIds, Removed(j)', Removed(k)', jobs'[j].inst = jobs'[k].inst
      PROVE  j = k
  <2>1. ASSUME NEW x \in JobIds, NEW y \in JobIds, Removed(x), Active(y), jobs[y].type = "delete"
        PROVE  jobs[x].inst # jobs[y].inst
    BY <2>1, TypeClasses DEF IInv, DeletedForGood, Removed, Lifecycle
  <2>2. ASSUME Active(j), Active(k), jobs[j].type = "delete", jobs[k].type = "delete",
               jobs[j].inst = jobs[k].inst
        PROVE  j = k
    BY <2>2 DEF IInv, OneExclusiveJob, Chat
  <2>3. ASSUME Removed(j), Removed(k), jobs[j].inst = jobs[k].inst
        PROVE  j = k
    BY <2>3 DEF DeletionsAgree, Removed
  <2> QED
    BY <1>1, <1>2, <2>1, <2>2, <2>3, RemovedBefore
<1>3. ASSUME NEW j \in JobIds, Removed(j)'
      PROVE  ops'[j] = "SUCCEEDED" <=> inst'[jobs'[j].inst] = "DELETED"
  <2>1. CASE Removed(j) /\ jobs'[j] = jobs[j] /\ ops'[j] = ops[j] /\ ~CleansRow(j)
    BY <2>1, RemovedStays DEF DeletionsAgree, Removed
  <2>2. CASE CleansRow(j)
    BY <2>2 DEF CleansRow
  <2>3. CASE Active(j) /\ jobs[j].type = "delete" /\ jobs'[j].inst = jobs[j].inst /\ ops'[j] = "RUNNING"
    <3>1. jobs'[j] # jobs[j] /\ jobs'[j].type = "delete" /\ jobs'[j].status = "SUCCEEDED"
      BY <1>3, <2>3 DEF Removed, Active, ActiveStatuses
    <3>2. Releases
      <4>1. CASE QueueStep
        <5>1. \A k \in JobIds : Untouched(k) \/ QueuedRow(k)
          BY <4>1, QueueForms, QueuedRowStep DEF IInv, Untouched, SameStream
        <5> QED
          BY <3>1, <5>1 DEF QueuedRow, Queueable, Untouched
      <4>2. CASE \E k \in JobIds : \E op \in { "RUNNING", "FAILED", "SUCCEEDED" } :
                    UpdateInstanceDeletionCleanup(k, op)
        BY <3>1, <4>2 DEF UpdateInstanceDeletionCleanup
      <4>3. CASE AgentStep \/ OperatorStep \/ ReconcileExpiredJobs \/ Tick
        BY <4>3, OtherSteps DEF IInv
      <4> QED
        BY <4>1, <4>2, <4>3 DEF Next, ServerStep
    <3>3. inst'[jobs[j].inst] = "DELETING"
      BY <3>1, <3>2 DEF Releases
    <3> QED
      BY <2>3, <3>3
  <2> QED
    BY <1>1, <1>3, <2>1, <2>2, <2>3, RemovedBefore
<1> QED
  BY <1>2, <1>3 DEF DeletionsAgree, Removed
------------------------------------------------------------------------------
(* The configuration rows.                                                 *)

ConfigJob(j, c, i) == Active(j) /\ jobs[j].type = c /\ jobs[j].inst = i

(* A row moves exactly with the end of the job it waits for.                 *)
ConfigMoves(c, i) ==
    \/ /\ config'[c][i] = config[c][i]
       /\ \A j \in JobIds : ConfigJob(j, c, i) => Active(j)'
    \/ \E j \in JobIds :
          /\ ConfigJob(j, c, i) /\ ~Active(j)'
          /\ config'[c][i].desired = config[c][i].desired
          /\ \/ config'[c][i].status = "FAILED"
             \/ config'[c][i].status = "APPLIED" /\ config'[c][i].applied = jobs[j].rev

(* failExpiredJobLease: ConfigsOwned makes its guard on PENDING hold.        *)
LEMMA ExpiryConfig ==
    ASSUME TypeOK, RowsOK, ConfigsOwned, NEW F \in SUBSET JobIds, \A j \in F : Expired(j),
           NEW jobRows, NEW opRows, failExpiredJobLeases(F, jobRows, opRows),
           \A k \in JobIds \ F : jobRows[k] = jobs[k] \/ jobRows[k].status = "LEASED",
           NEW c \in ConfigTypes, NEW i \in Instances
    PROVE  ConfigMoves(c, i)
<1>1. \A j \in F : j \in JobIds /\ Active(j) /\ ~Active(j)'
  BY ExpiryRows DEF EndsRow, Active, ActiveStatuses, TerminalStatuses
<1>2. \A k \in JobIds \ F : Active(k) => Active(k)'
  BY ExpiryRows DEF Active, ActiveStatuses
<1>3. config[c][i] \in ConfigRecords
  BY DEF TypeOK
<1> DEFINE old == config[c][i]
<1>4. config'[c][i] = IF old.status = "PENDING" /\ \E j \in F : jobs[j].type = c /\ jobs[j].inst = i
                      THEN [old EXCEPT !.status = "FAILED"] ELSE old
  BY DEF failExpiredJobLeases, ConfigAfterExpiry
<1>5. CASE \E j \in F : jobs[j].type = c /\ jobs[j].inst = i
  <2>1. PICK j \in F : jobs[j].type = c /\ jobs[j].inst = i
    BY <1>5
  <2>2. ConfigJob(j, c, i) /\ old.status = "PENDING"
    BY <1>1, <2>1 DEF ConfigJob, ConfigsOwned
  <2>3. config'[c][i].status = "FAILED" /\ config'[c][i].desired = old.desired
    BY <1>3, <1>4, <2>1, <2>2 DEF ConfigRecords
  <2> QED
    BY <1>1, <2>2, <2>3 DEF ConfigMoves
<1>6. CASE ~\E j \in F : jobs[j].type = c /\ jobs[j].inst = i
  BY <1>2, <1>4, <1>6 DEF ConfigMoves, ConfigJob
<1> QED
  BY <1>5, <1>6

(* What a result makes of a configuration row.                               *)
LEMMA EndedConfigMoves ==
    ASSUME NEW row \in ConfigRecords, NEW ok \in BOOLEAN, NEW rev
    PROVE  /\ EndedConfig(row, ok, rev).desired = row.desired
           /\ \/ EndedConfig(row, ok, rev).status = "FAILED"
              \/ /\ EndedConfig(row, ok, rev).status = "APPLIED"
                 /\ EndedConfig(row, ok, rev).applied = rev
<1>1. CASE ok
  BY <1>1 DEF EndedConfig, ConfigRecords
<1>2. CASE ~ok
  BY <1>2 DEF EndedConfig, ConfigRecords
<1> QED
  BY <1>1, <1>2

(* A result writes the row of its own job and no other.                      *)
LEMMA ResultConfig ==
    ASSUME TypeOK, RowsOK, NEW j \in JobIds, NEW ok \in BOOLEAN, config' = ConfigAfter(j, ok),
           EndsRow(j), \A k \in JobIds \ {j} : Untouched(k),
           NEW c \in ConfigTypes, NEW i \in Instances
    PROVE  ConfigMoves(c, i)
<1>1. /\ Active(j) /\ ~Active(j)' /\ jobs[j].inst \in Instances
      /\ \A k \in JobIds \ {j} : Active(k) => Active(k)'
  BY DEF RowsOK, EndsRow, Untouched, Active, ActiveStatuses, TerminalStatuses
<1>2. config' = ConfigAfter(j, ok)
  OBVIOUS
<1>3. config \in [ConfigTypes -> [Instances -> ConfigRecords]]
  BY DEF TypeOK
<1>4. CASE jobs[j].type = c /\ jobs[j].inst = i
  <2> DEFINE new == EndedConfig(config[c][i], ok, jobs[j].rev)
  <2>1. /\ new.desired = config[c][i].desired
        /\ \/ new.status = "FAILED"
           \/ new.status = "APPLIED" /\ new.applied = jobs[j].rev
    <3>1. config[c][i] \in ConfigRecords
      BY <1>3
    <3> QED
      BY <3>1, EndedConfigMoves
  <2>2. config' = [config EXCEPT ![c][i] = new]
    BY <1>2, <1>4 DEF ConfigAfter
  <2> HIDE DEF new
  <2>3. config'[c][i] = new
    BY <1>3, <2>2
  <2> QED
    BY <1>1, <1>4, <2>1, <2>3 DEF ConfigMoves, ConfigJob
<1>5. CASE ~(jobs[j].type = c /\ jobs[j].inst = i)
  <2>1. config'[c][i] = config[c][i]
    <3> DEFINE new == EndedConfig(config[jobs[j].type][jobs[j].inst], ok, jobs[j].rev)
    <3>1. config' = config \/ config' = [config EXCEPT ![jobs[j].type][jobs[j].inst] = new]
      BY <1>2 DEF ConfigAfter
    <3> HIDE DEF new
    <3> QED
      BY <1>3, <1>5, <3>1
  <2> QED
    BY <1>1, <1>5, <2>1 DEF ConfigMoves, ConfigJob
<1> QED
  BY <1>4, <1>5

(* Every step that inserts no row.                                           *)
LEMMA OtherConfig ==
    ASSUME TypeOK, RowsOK, ConfigsOwned, AgentStep \/ OperatorStep \/ ServerStep \/ Tick,
           NEW c \in ConfigTypes, NEW i \in Instances
    PROVE  ConfigMoves(c, i)
<1>1. ASSUME NEW h \in Hosts, ClaimJob(h)
      PROVE  ConfigMoves(c, i)
  <2> DEFINE exhausted == { j \in Candidates(h) : Exhausted(j) }
  <2>1. exhausted \in SUBSET JobIds /\ Candidates(h) \subseteq JobIds
        /\ \A j \in exhausted : Expired(j)
    BY DEF Candidates, Exhausted
  <2>2. ASSUME NEW d \in Candidates(h),
               failExpiredJobLeases({ j \in exhausted : Earlier(j, d) },
                                    [jobs EXCEPT ![d] = LeasedTo(@)], [ops EXCEPT ![d] = "RUNNING"])
        PROVE  ConfigMoves(c, i)
    <3> DEFINE F == { j \in exhausted : Earlier(j, d) }
               jobRows == [jobs EXCEPT ![d] = LeasedTo(@)]
               opRows == [ops EXCEPT ![d] = "RUNNING"]
    <3>1. F \in SUBSET JobIds /\ (\A j \in F : Expired(j)) /\ failExpiredJobLeases(F, jobRows, opRows)
      BY <2>1, <2>2
    <3>2. LeasedTo(jobs[d]).status = "LEASED"
      BY <2>1 DEF LeasedTo, TypeOK, JobRecords
    <3>3. \A k \in JobIds \ F : jobRows[k] = jobs[k] \/ jobRows[k].status = "LEASED"
      BY <2>1, <3>2 DEF TypeOK
    <3> HIDE DEF F, jobRows, opRows
    <3> QED
      BY <3>1, <3>3, ExpiryConfig
  <2>3. ASSUME failExpiredJobLeases(exhausted, jobs, ops)
        PROVE  ConfigMoves(c, i)
    BY <2>1, <2>3, ExpiryConfig
  <2> QED
    BY <1>1, <2>2, <2>3 DEF ClaimJob
<1>2. CASE ReconcileExpiredJobs
  <2> DEFINE F == { j \in JobIds : Exhausted(j) }
  <2>1. F \in SUBSET JobIds /\ (\A j \in F : Expired(j)) /\ failExpiredJobLeases(F, jobs, ops)
    BY <1>2 DEF Exhausted, ReconcileExpiredJobs
  <2> HIDE DEF F
  <2> QED
    BY <2>1, ExpiryConfig
<1>3. ASSUME NEW j \in JobIds, NEW t \in Issued(j),
             \/ AcknowledgeJob(j, t) \/ RenewJob(j, t)
             \/ \E n \in 1..MaxSequence : AppendChatEvent(j, t, n)
      PROVE  ConfigMoves(c, i)
  <2>1. config' = config
    BY <1>3 DEF AcknowledgeJob, RenewJob, AppendChatEvent
  <2>2. \A k \in JobIds : Untouched(k) \/ LeasesRow(k) \/ StreamsRow(k)
    BY <1>3, LeaseRows, AppendRows
  <2>3. \A k \in JobIds : Active(k) => Active(k)'
    BY <2>2 DEF Untouched, LeasesRow, StreamsRow, Active, ActiveStatuses
  <2> QED
    BY <2>1, <2>3 DEF ConfigMoves, ConfigJob
<1>4. CASE Tick
  <2>1. config' = config /\ \A k \in JobIds : Untouched(k) \/ LeasesRow(k)
    BY <1>4, LeaseRows DEF Tick
  <2>2. \A k \in JobIds : Active(k) => Active(k)'
    BY <2>1 DEF Untouched, LeasesRow, Active, ActiveStatuses
  <2> QED
    BY <2>1, <2>2 DEF ConfigMoves, ConfigJob
<1>5. CASE AgentStep
  <2>1. ASSUME NEW j \in JobIds, NEW t \in Issued(j), NEW ok \in BOOLEAN,
               NEW st \in InstanceStatuses \cup { "" }, CompleteJob(j, t, ok, st)
        PROVE  ConfigMoves(c, i)
    <3>1. config' = ConfigAfter(j, ok)
      BY <2>1 DEF CompleteJob
    <3> QED
      BY <2>1, <3>1, CompleteRows, ResultConfig
  <2> QED
    BY <1>1, <1>3, <1>5, <2>1 DEF AgentStep
<1>6. CASE OperatorStep
  <2>1. config' = config
    BY <1>6 DEF OperatorStep, CancelCodexAuth, CancelActiveChat, DeleteChatSession
  <2>2. \A k \in JobIds : jobs[k].type \in ConfigTypes => jobs'[k] = jobs[k]
    <3>1. \A k \in JobIds : jobs[k].type \in ConfigTypes =>
             jobs[k].type # "auth.codex" /\ ~Chat(k)
      BY DEF ConfigTypes, Chat
    <3> QED
      BY <1>6, <3>1 DEF OperatorStep, CancelCodexAuth, CancelActiveChat, DeleteChatSession, TypeOK
  <2> QED
    BY <2>1, <2>2 DEF ConfigMoves, ConfigJob, Active
<1>7. ASSUME NEW j \in JobIds, NEW op, UpdateInstanceDeletionCleanup(j, op)
      PROVE  ConfigMoves(c, i)
  BY <1>7 DEF UpdateInstanceDeletionCleanup, ConfigMoves, ConfigJob, Active
<1> QED
  BY <1>2, <1>4, <1>5, <1>6, <1>7 DEF ServerStep

(* A pending configuration has its job, and the job its revision.           *)
LEMMA ConfigKept ==
    ASSUME TypeOK, RowsOK, OneExclusiveJob, ConfigsOwned, ConfigurationAgrees, Next
    PROVE  ConfigsOwned' /\ ConfigurationAgrees'
<1>1. \A k \in JobIds : RowStep(k)
  BY RowSteps
<1>2. config \in [ConfigTypes -> [Instances -> ConfigRecords]]
  BY DEF TypeOK
<1>3. CASE AgentStep \/ OperatorStep \/ ServerStep \/ Tick
  <2>1. \A k \in JobIds : Active(k)' => Active(k) /\ Keeps(jobs'[k], jobs[k])
    <3>1. \A k \in JobIds : Active(k)' => Active(k)
      <4>1. CASE AgentStep \/ OperatorStep \/ ReconcileExpiredJobs \/ Tick
        BY <4>1, OtherSteps DEF Releases
      <4>2. CASE \E j \in JobIds : \E op \in { "RUNNING", "FAILED", "SUCCEEDED" } :
                    UpdateInstanceDeletionCleanup(j, op)
        BY <4>2 DEF UpdateInstanceDeletionCleanup, Active
      <4> QED
        BY <1>3, <4>1, <4>2 DEF ServerStep
    <3>2. \A k \in JobIds : Active(k) => ~QueuedRow(k)
      BY DEF Active, ActiveStatuses, QueuedRow
    <3> QED
      BY <1>1, <3>1, <3>2, ActiveBefore
  <2>2. ASSUME NEW c \in ConfigTypes, NEW i \in Instances, NEW j \in JobIds, NEW k \in JobIds,
               ConfigJob(j, c, i), ConfigJob(k, c, i)
        PROVE  j = k
    BY <2>2 DEF ConfigJob, OneExclusiveJob, Chat, ConfigTypes
  <2>3. ASSUME NEW c \in ConfigTypes, NEW i \in Instances
        PROVE  /\ config'[c][i].status = "PENDING" <=>
                     \E j \in JobIds : ConfigJob(j, c, i)' /\ jobs'[j].rev = config'[c][i].desired
               /\ \A j \in JobIds : ConfigJob(j, c, i)' =>
                     config'[c][i].status = "PENDING" /\ config'[c][i].desired = jobs'[j].rev
               /\ config'[c][i].status = "APPLIED" => config'[c][i].applied = config'[c][i].desired
    <3>1. /\ \A j \in JobIds : ConfigJob(j, c, i) =>
                config[c][i].status = "PENDING" /\ config[c][i].desired = jobs[j].rev
          /\ config[c][i].status = "PENDING" => \E j \in JobIds : ConfigJob(j, c, i)
          /\ config[c][i].status = "APPLIED" => config[c][i].applied = config[c][i].desired
      BY DEF ConfigJob, ConfigsOwned, ConfigurationAgrees
    <3>2. \A j \in JobIds : ConfigJob(j, c, i)' => ConfigJob(j, c, i) /\ jobs'[j].rev = jobs[j].rev
      BY <2>1 DEF ConfigJob, Keeps
    <3>3. CASE /\ config'[c][i] = config[c][i]
               /\ \A j \in JobIds : ConfigJob(j, c, i) => Active(j)'
      <4>1. \A j \in JobIds : ConfigJob(j, c, i) => ConfigJob(j, c, i)'
        BY <2>1, <3>3 DEF ConfigJob, Keeps
      <4> QED
        BY <3>1, <3>2, <3>3, <4>1
    <3>4. ASSUME NEW j \in JobIds, ConfigJob(j, c, i), ~Active(j)',
                 config'[c][i].desired = config[c][i].desired,
                 \/ config'[c][i].status = "FAILED"
                 \/ config'[c][i].status = "APPLIED" /\ config'[c][i].applied = jobs[j].rev
          PROVE  /\ \A k \in JobIds : ~ConfigJob(k, c, i)'
                 /\ config'[c][i].status # "PENDING"
                 /\ config'[c][i].status = "APPLIED" => config'[c][i].applied = config'[c][i].desired
      <4>1. \A k \in JobIds : ~ConfigJob(k, c, i)'
        BY <2>2, <3>2, <3>4 DEF ConfigJob
      <4> QED
        BY <3>1, <3>4, <4>1
    <3>5. ConfigMoves(c, i)
      BY <1>3, OtherConfig
    <3> QED
      BY <3>3, <3>4, <3>5 DEF ConfigMoves
  <2>4. ConfigurationAgrees'
    BY <2>3 DEF ConfigurationAgrees, ConfigJob
  <2>5. ASSUME NEW j \in JobIds, Active(j)', jobs'[j].type \in ConfigTypes
        PROVE  /\ config'[jobs'[j].type][jobs'[j].inst].status = "PENDING"
               /\ config'[jobs'[j].type][jobs'[j].inst].desired = jobs'[j].rev
    <3>1. jobs'[j].inst \in Instances
      BY <2>1, <2>5 DEF RowsOK, Keeps
    <3> QED
      BY <2>3, <2>5, <3>1 DEF ConfigJob
  <2> QED
    BY <2>4, <2>5 DEF ConfigsOwned
<1>4. ASSUME NEW j \in JobIds, NEW job \in JobRecords, Queued(j, job)
      PROVE  ConfigsOwned' /\ ConfigurationAgrees'
  <2>1. /\ jobs'[j] = job /\ jobs[j].status = "NONE"
        /\ \A k \in JobIds \ {j} : jobs'[k] = jobs[k]
    BY <1>4, QueuedRowStep DEF QueuedRow, Untouched
  <2>2. job.status = "PENDING" /\ job.inst \in Instances
    BY <1>4 DEF Queued, Queueable
  <2>3. ~Active(j)
    BY <2>1 DEF Active, ActiveStatuses
  <2>4. CASE job.type \notin ConfigTypes
    <3>1. config' = config
      BY <1>4, <2>4 DEF Queued, QueuedConfig
    <3>2. \A k \in JobIds, c \in ConfigTypes :
             (Active(k)' /\ jobs'[k].type = c) => k # j
      BY <2>1, <2>4
    <3> QED
      BY <2>1, <2>3, <3>1, <3>2 DEF ConfigsOwned, ConfigurationAgrees, Active
  <2>5. CASE job.type \in ConfigTypes
    <3> DEFINE new == [config[job.type][job.inst] EXCEPT !.status = "PENDING", !.desired = job.rev]
    <3>1. new.status = "PENDING" /\ new.desired = job.rev
      <4>1. config[job.type][job.inst] \in ConfigRecords
        BY <1>2, <2>2, <2>5
      <4> QED
        BY <4>1 DEF ConfigRecords
    <3>2. /\ config' = [config EXCEPT ![job.type][job.inst] = new]
          /\ activeInstanceJobs(job.inst) = {}
      BY <1>4, <2>5 DEF Queued, QueuedConfig
    <3> HIDE DEF new
    <3>3. /\ config'[job.type][job.inst] = new
          /\ \A c \in ConfigTypes, i \in Instances :
                ~(c = job.type /\ i = job.inst) => config'[c][i] = config[c][i]
      BY <1>2, <2>2, <2>5, <3>2
    <3>4. \A k \in JobIds : Active(k) => jobs[k].inst # job.inst
      BY <3>2 DEF activeInstanceJobs
    <3>5. \A k \in JobIds : Active(k) => jobs[k].inst \in Instances
      BY DEF RowsOK
    <3>6. Active(j)' /\ \A k \in JobIds \ {j} : Active(k)' <=> Active(k)
      BY <2>1, <2>2 DEF Active, ActiveStatuses
    <3>7. ConfigsOwned'
      BY <2>1, <3>1, <3>3, <3>4, <3>5, <3>6 DEF ConfigsOwned
    <3>8. ASSUME NEW c \in ConfigTypes, NEW i \in Instances, ~(c = job.type /\ i = job.inst)
          PROVE  /\ config'[c][i].status = "PENDING" <=>
                        \E k \in JobIds : /\ Active(k)' /\ jobs'[k].type = c /\ jobs'[k].inst = i
                                          /\ jobs'[k].rev = config'[c][i].desired
                 /\ config'[c][i].status = "APPLIED" => config'[c][i].applied = config'[c][i].desired
      BY <2>1, <2>3, <3>3, <3>6, <3>8 DEF ConfigurationAgrees
    <3>9. /\ config'[job.type][job.inst].status = "PENDING"
          /\ \E k \in JobIds : /\ Active(k)' /\ jobs'[k].type = job.type /\ jobs'[k].inst = job.inst
                               /\ jobs'[k].rev = config'[job.type][job.inst].desired
      BY <2>1, <3>1, <3>3, <3>6
    <3> QED
      BY <3>7, <3>8, <3>9 DEF ConfigurationAgrees
  <2> QED
    BY <2>4, <2>5
<1>5. CASE UNCHANGED <<jobs, ops, config, messages, events>>
  BY <1>5 DEF ConfigsOwned, ConfigurationAgrees, Active
<1> QED
  BY <1>3, <1>4, <1>5, QueueForms DEF Next
------------------------------------------------------------------------------
(* The tables agree in every reachable state.                              *)

(* The tables agree when they are empty.                                    *)
LEMMA InitTables == Init => TableInv
<1> SUFFICES ASSUME Init PROVE TableInv
  OBVIOUS
<1>1. \A j \in JobIds : /\ jobs[j].status = "NONE" /\ jobs[j].type = NoOne /\ ops[j] = "NONE"
                        /\ messages[j] = "NONE" /\ ~Active(j) /\ ~Chat(j)
  BY DEF Init, NoJob, Active, ActiveStatuses, Chat, NoOne
<1>2. TableRows
  BY <1>1 DEF TableRows, OperationRow, ChatRow, StreamRow
<1>3. SessionInOrder /\ DeletionsAgree /\ ConfigsOwned
  BY <1>1 DEF SessionInOrder, DeletionsAgree, ConfigsOwned
<1>4. ConfigurationAgrees
  <2>1. \A c \in ConfigTypes, i \in Instances : config[c][i].status = "NONE"
    BY DEF Init, NoConfig
  <2> QED
    BY <1>1, <2>1 DEF ConfigurationAgrees
<1>5. QueuesBounded
  <2>1. \A h \in Hosts : HostQueue(h) = {}
    BY <1>1 DEF HostQueue
  <2> QED
    BY <2>1, FS_EmptySet, BoundsAssumption DEF QueuesBounded
<1> QED
  BY <1>2, <1>3, <1>4, <1>5 DEF TableInv

(* They agree after every step.                                             *)
LEMMA NextTables == IInv /\ TableInv /\ [Next]_vars => TableInv'
<1> SUFFICES ASSUME IInv, TableInv, [Next]_vars
             PROVE  TableInv'
  OBVIOUS
<1>1. CASE Next
  BY <1>1, TableRowsKept, SessionKept, DeletionsKept, ConfigKept, QueuesKept DEF IInv, TableInv
<1>2. CASE UNCHANGED vars
  BY <1>2 DEF vars, chatVars, TableInv, TableRows, OperationRow, ChatRow, StreamRow, EndsOf,
     SessionInOrder, DeletionsAgree, ConfigsOwned, ConfigurationAgrees, QueuesBounded, HostQueue,
     Active, Chat, Live, Leased
<1> QED
  BY <1>1, <1>2

(* Operations, messages, streams, configurations and queues agree with the   *)
(* jobs after every step of every client, worker and maintenance loop.       *)
THEOREM Tables == Spec => []TableInv
BY Invariance, InitTables, NextTables, PTL DEF Spec

(* A message leaves its session's queue in order, to one worker at a time.   *)
THEOREM SessionsInOrder == Spec => []SessionInOrder
<1>1. TableInv => SessionInOrder
  BY DEF TableInv
<1> QED
  BY <1>1, Tables, PTL

(* The operation the operator sees never disagrees with its job, and a       *)
(* deletion is reported done exactly when the instance row is DELETED.       *)
THEOREM OperationsAgree == Spec => []OperationAgrees
<1>1. TypeOK /\ TableInv => OperationAgrees
  <2> SUFFICES ASSUME TypeOK, TableInv, NEW j \in JobIds
               PROVE  /\ jobs[j].status = "PENDING" <=> ops[j] = "PENDING"
                      /\ Leased(j) => ops[j] = "RUNNING"
                      /\ jobs[j].status = "FAILED" => ops[j] = "FAILED"
                      /\ jobs[j].status = "SUCCEEDED" =>
                            IF jobs[j].type = "delete"
                            THEN ops[j] = "SUCCEEDED" <=> inst[jobs[j].inst] = "DELETED"
                            ELSE ops[j] = "SUCCEEDED"
    BY DEF OperationAgrees
  <2>1. jobs[j].status \in JobStatuses /\ OperationRow(j)
    BY DEF TypeOK, JobRecords, TableInv, TableRows
  <2>2. jobs[j].type = "delete" /\ jobs[j].status = "SUCCEEDED" =>
          (ops[j] = "SUCCEEDED" <=> inst[jobs[j].inst] = "DELETED")
    BY DEF TableInv, DeletionsAgree
  <2> QED
    BY <2>1, <2>2 DEF OperationRow, JobStatuses, Leased
<1> QED
  BY <1>1, TypeCorrectness, Tables, PTL

(* A chat stream ends once, last, and together with its message, however the *)
(* run ended and whatever its worker still sends.                            *)
THEOREM StreamsEndOnce == Spec => []StreamEndsOnce
<1>1. TableInv => StreamEndsOnce
  BY DEF TableInv, TableRows, StreamRow, EndsOf, StreamEndsOnce
<1> QED
  BY <1>1, Tables, PTL

(* No configuration row is stranded PENDING or reported APPLIED with another *)
(* revision than the one desired.                                            *)
THEOREM ConfigurationsAgree == Spec => []ConfigurationAgrees
<1>1. TableInv => ConfigurationAgrees
  BY DEF TableInv
<1> QED
  BY <1>1, Tables, PTL

(* The queue of a host never passes JobQueueMaxPerHost, a chat message is    *)
(* handed out at most once, any other job at most jobLeaseMaxClaims times.   *)
THEOREM LimitsKept == Spec => []LimitsHold
<1>1. TypeOK /\ TableInv => LimitsHold
  <2> SUFFICES ASSUME TypeOK, TableInv
               PROVE  LimitsHold
    OBVIOUS
  <2>1. \A j \in JobIds : jobs[j].attempts \in 0..MaxClaims
    BY DEF TypeOK, JobRecords
  <2>2. \A j \in JobIds : jobs[j].attempts <= MaxClaims
    BY <2>1, BoundsAssumption
  <2> QED
    BY <2>2 DEF LimitsHold, TableInv, TableRows, ChatRow, QueuesBounded
<1> QED
  BY <1>1, TypeCorrectness, Tables, PTL

------------------------------------------------------------------------------
(* Who may move an instance out of an owned status.                        *)

(* Only the end of the job that owns the status, or its cleanup, moves it.  *)
LEMMA OwnerReleases ==
    ASSUME IInv, Next, NEW i \in Instances,
           inst[i] \in TransitionalStatuses \cup { "DELETING" }, inst'[i] # inst[i]
    PROVE  \E j \in JobIds :
               /\ Lifecycle(j) /\ jobs[j].inst = i /\ QueuedStatus(jobs[j].type) = inst[i]
               /\ \/ Active(j) /\ jobs'[j].status \in TerminalStatuses
                  \/ jobs[j].type = "delete" /\ ops[j] # "SUCCEEDED" /\ ops'[j] = "SUCCEEDED"
<1>1. CASE QueueStep
  BY <1>1, QueueForms DEF IInv, FreeInstancesOnly
<1>2. CASE AgentStep \/ OperatorStep \/ ReconcileExpiredJobs \/ Tick
  <2>1. PICK k \in JobIds : /\ Active(k) /\ ~Active(k)'
                            /\ jobs[k].type \in OwnerTypes /\ jobs[k].inst = i
    BY <1>2, OtherSteps DEF IInv, Releases
  <2>2. jobs[k].type # "hermes.inspect"
    BY <2>1 DEF IInv, InspectedRuns, RunningInspectionTypes, TransitionalStatuses
  <2>3. Lifecycle(k)
    BY <2>1, <2>2 DEF OwnerTypes, Lifecycle
  <2>4. QueuedStatus(jobs[k].type) = inst[i]
    BY <2>1, <2>3 DEF IInv, LifecycleFence
  <2>5. jobs'[k].status \in TerminalStatuses
    <3>1. RowStep(k) /\ ~Chat(k)
      BY <2>3, RowSteps DEF IInv, Lifecycle, Chat, LifecycleTypes, ActionTypes, ConfigTypes
    <3> QED
      BY <2>1, <3>1 DEF RowStep, Untouched, QueuedRow, Queueable, EndsRow, ClaimsRow, LeasesRow,
         StreamsRow, RemovesRow, CleansRow, Active, ActiveStatuses
  <2> QED
    BY <2>1, <2>3, <2>4, <2>5
<1>3. ASSUME NEW j \in JobIds, NEW op \in { "RUNNING", "FAILED", "SUCCEEDED" },
             UpdateInstanceDeletionCleanup(j, op)
      PROVE  /\ Lifecycle(j) /\ jobs[j].inst = i /\ QueuedStatus(jobs[j].type) = inst[i]
             /\ jobs[j].type = "delete" /\ ops[j] # "SUCCEEDED" /\ ops'[j] = "SUCCEEDED"
  <2>1. /\ jobs[j].type = "delete" /\ ops[j] \in { "PENDING", "RUNNING", "FAILED" }
        /\ inst[jobs[j].inst] = "DELETING"
    BY <1>3 DEF UpdateInstanceDeletionCleanup, PendingInstanceDeletion
  <2>2. op = "SUCCEEDED" /\ inst' = [inst EXCEPT ![jobs[j].inst] = "DELETED"]
    BY <1>3 DEF UpdateInstanceDeletionCleanup
  <2>3. jobs[j].inst = i
    BY <2>2 DEF IInv, TypeOK
  <2>4. ops'[j] = "SUCCEEDED"
    BY <1>3, <2>2 DEF UpdateInstanceDeletionCleanup, IInv, TypeOK
  <2>5. QueuedStatus("delete") = "DELETING" /\ "delete" \in LifecycleTypes
    BY DEF QueuedStatus, LifecycleTypes, ActionTypes, ConfigTypes
  <2> QED
    BY <2>1, <2>3, <2>4, <2>5 DEF Lifecycle
<1> QED
  BY <1>1, <1>2, <1>3 DEF Next, ServerStep

(* An owned status is given up only by the end of its owner: no claim,       *)
(* inspection, configuration or second cleanup takes an instance away from   *)
(* the job that holds it.                                                    *)
THEOREM OwnedStatusReleased == Spec => OwnedStatusReleasedByOwner
<1>1. IInv /\ [Next]_vars =>
        [\A i \in Instances :
           inst[i] \in TransitionalStatuses \cup { "DELETING" } /\ inst'[i] # inst[i] =>
              \E j \in JobIds :
                 /\ Lifecycle(j) /\ jobs[j].inst = i /\ QueuedStatus(jobs[j].type) = inst[i]
                 /\ \/ Active(j) /\ jobs'[j].status \in TerminalStatuses
                    \/ jobs[j].type = "delete" /\ ops[j] # "SUCCEEDED" /\ ops'[j] = "SUCCEEDED"]_vars
  BY OwnerReleases
<1> QED
  BY <1>1, Invariance, PTL DEF Spec, OwnedStatusReleasedByOwner

-----------------------------------------------------------------------------
(* Part 3: the Host Agent.                                                 *)

(* The statuses a result may carry, none included.                          *)
Answers == InstanceStatuses \cup { "" }

WorkerRecords ==
    [ pc : { "idle", "claiming", "acking", "fetching", "working", "completing", "detached",
             "undoing" },
      job : Nat, token : Nat, req : { "none", "sent", "granted", "refused" }, age : Nat,
      renew : { "none", "sent", "granted", "refused" }, renewAge : Nat, timer : Nat,
      deadline : Nat, ok : BOOLEAN, st : Answers, verified : BOOLEAN ]

FleetTypeOK ==
    /\ worker \in [Workers -> WorkerRecords]
    /\ agent \in { "up", "draining" } /\ crashes \in Nat

(* From the decoded answer of its claim on, a worker has a job.             *)
HasJob(w) == worker[w].pc # "idle" /\ (worker[w].pc = "claiming" => worker[w].req = "granted")

(* The lease of that job has not passed to anybody else.                    *)
Current(w) == jobs[worker[w].job].token = worker[w].token

(* The token was issued for that job; and only some jobs have a rollback    *)
(* that goes on without it.                                                 *)
ClaimOK(w) ==
    HasJob(w) =>
        /\ worker[w].job \in JobIds /\ worker[w].token # NoToken
        /\ jobs[worker[w].job].status \notin { "NONE", "PENDING" }
        /\ Undoing(w) => jobs[worker[w].job].type \in DetachedRollbackTypes
        /\ jobs[worker[w].job].status # "GONE" => worker[w].token <= jobs[worker[w].job].attempts

(* No two workers have the same lease.                                      *)
TokensApart ==
    \A v, w \in Workers : HasJob(v) /\ HasJob(w) /\ worker[v].job = worker[w].job
                          /\ worker[v].token = worker[w].token => v = w

(* No answer is waited for longer than allowed, and a renewal is under way  *)
(* only beside a job.                                                       *)
ClocksOK(w) ==
    /\ Waiting(w) => worker[w].age <= HttpTimeout
    /\ worker[w].renew # "none" => Renewing(w) /\ worker[w].renewAge <= HttpTimeout

(* Acknowledged, or being executed.                                         *)
Guards(w) == Executing(w) \/ (worker[w].pc = "acking" /\ worker[w].req = "granted")

(* The worker's own deadline trails the lease by no more than one request;  *)
(* a renewal is due before the safety window, so one sent in time has its   *)
(* answer, or its timeout, before the lease can run out.                    *)
LeaseHeld(w) ==
    LET rec == worker[w]
        left == jobs[rec.job].left
    IN Guards(w) /\ Lifecycle(rec.job) =>
          /\ Current(w) /\ jobs[rec.job].status = "RUNNING"
          /\ rec.pc = "acking" => left >= LeaseTicks - rec.age
          /\ Executing(w) =>
                /\ left >= rec.deadline - HttpTimeout /\ rec.deadline <= LeaseTicks
                /\ rec.renew = "none" => rec.deadline >= safetyWindow + rec.timer
                /\ rec.renew # "none" => rec.deadline + rec.renewAge >= safetyWindow
                /\ rec.renew = "granted" => left >= LeaseTicks - rec.renewAge

(* What the server stores of a worker's result.                             *)
Stored(rec) == [outcome |-> IF rec.ok THEN "SUCCESS" ELSE "FAILURE", status |-> rec.st]

(* A job that ended under a worker's token ended with that worker's result. *)
ResultIsOwn(w) ==
    HasJob(w) /\ Current(w) /\ jobs[worker[w].job].status \in TerminalStatuses =>
        /\ worker[w].pc \in { "completing", "detached" } /\ worker[w].req # "refused"
        /\ jobs[worker[w].job].result = Stored(worker[w])

WorkerOK(w) == ClaimOK(w) /\ ClocksOK(w) /\ LeaseHeld(w) /\ ResultIsOwn(w)

FleetInv == IInv /\ FleetTypeOK /\ TokensApart /\ \A w \in Workers : WorkerOK(w)

------------------------------------------------------------------------------
(* Records of workers.                                                     *)

(* A worker that waits for nothing.                                         *)
LEMMA IdleRecord ==
    /\ IdleWorker \in WorkerRecords
    /\ IdleWorker.pc = "idle" /\ IdleWorker.req = "none" /\ IdleWorker.renew = "none"
<1>1. ASSUME NEW st \in Answers
      PROVE  LET rec == [pc |-> "idle", job |-> 0, token |-> NoToken, req |-> "none", age |-> 0,
                         renew |-> "none", renewAge |-> 0, timer |-> 0, deadline |-> 0,
                         ok |-> FALSE, st |-> st, verified |-> FALSE]
             IN /\ rec \in WorkerRecords
                /\ rec.pc = "idle" /\ rec.req = "none" /\ rec.renew = "none"
  <2>1. NoToken \in Nat
    BY DEF NoToken
  <2> QED
    BY <2>1 DEF WorkerRecords
<1>2. "" \in Answers
  BY Zenon DEF Answers
<1> QED
  BY <1>1, <1>2, Zenon DEF IdleWorker

(* The window in which no renewal is tried any more.                        *)
LEMMA Durations ==
    /\ HttpTimeout \in Nat /\ LeaseTicks \in Nat /\ RenewInterval \in Nat /\ RetryDelay \in Nat
    /\ safetyWindow \in Nat /\ 2 * HttpTimeout <= safetyWindow
    /\ safetyWindow + RenewInterval <= LeaseTicks /\ HttpTimeout <= LeaseTicks
<1>1. /\ HttpTimeout \in Nat /\ LeaseTicks \in Nat /\ RenewInterval \in Nat /\ RetryDelay \in Nat
      /\ LeaseTicks \div 5 \in Nat
  BY AgentAssumption, BoundsAssumption
<1> DEFINE fifth == LeaseTicks \div 5
<1>2. /\ fifth \in Nat /\ 2 * HttpTimeout <= RenewInterval /\ 2 * HttpTimeout <= fifth
      /\ RenewInterval + fifth <= LeaseTicks
  BY <1>1, TimingAssumption
<1>3. safetyWindow = IF RenewInterval > fifth THEN fifth ELSE RenewInterval
  BY DEF safetyWindow
<1> HIDE DEF fifth
<1> QED
  BY <1>1, <1>2, <1>3

------------------------------------------------------------------------------
(* What becomes of the row of a job.                                       *)

Entered(k) ==
    /\ jobs[k].status = "NONE"
    /\ jobs'[k].status = "PENDING" /\ jobs'[k].attempts = 0 /\ jobs'[k].inst \in Instances

FencedOff(k) ==
    /\ Active(k) /\ (Expired(k) \/ ~Lifecycle(k))
    /\ jobs'[k].status = "FAILED" /\ jobs'[k].token = NoToken
    /\ Keeps(jobs'[k], jobs[k]) /\ jobs'[k].attempts = jobs[k].attempts

Vanished(k) ==
    /\ Chat(k)
    /\ jobs'[k].status = "GONE" /\ jobs'[k].token = NoToken /\ jobs'[k].type = NoOne

Taken(k) ==
    /\ jobs[k].status = "PENDING" \/ Expired(k)
    /\ jobs'[k].status = "LEASED" /\ Keeps(jobs'[k], jobs[k])
    /\ jobs'[k].attempts = jobs[k].attempts + 1 /\ jobs'[k].token = jobs'[k].attempts

(* A call of the worker that holds the lease.                               *)
Called(k, t) ==
    /\ Holds(k, t) /\ Leased(k)
    /\ jobs'[k].status \in { "RUNNING", "SUCCEEDED", "FAILED" } /\ jobs'[k].token = t
    /\ Keeps(jobs'[k], jobs[k]) /\ jobs'[k].attempts = jobs[k].attempts

Others(j) == \A k \in JobIds \ {j} : jobs'[k] = jobs[k]

(* Chats and inspections are no lifecycle jobs.                             *)
LEMMA NotLifecycle ==
    "chat.send" \notin LifecycleTypes /\ "auth.codex" \notin LifecycleTypes
    /\ NoOne \notin LifecycleTypes /\ "chat.send" \notin DetachedRollbackTypes
BY DEF LifecycleTypes, ActionTypes, ConfigTypes, NoOne, DetachedRollbackTypes

(* A lease that ran out is taken from its worker.                           *)
LEMMA ExpiredRows ==
    ASSUME TypeOK, NEW F \in SUBSET JobIds, \A j \in F : Expired(j),
           NEW jobRows, NEW opRows, failExpiredJobLeases(F, jobRows, opRows)
    PROVE  /\ \A k \in F : FencedOff(k)
           /\ \A k \in JobIds \ F : jobs'[k] = jobRows[k]
<1>1. ASSUME NEW k \in F
      PROVE  FencedOff(k)
  <2>1. Active(k) /\ Expired(k) /\ jobs[k] \in JobRecords /\ jobs'[k] = Fenced(jobs[k])
    BY <1>1 DEF Expired, Leased, Active, ActiveStatuses, TypeOK, failExpiredJobLeases
  <2>2. Fenced(jobs[k]).token = NoToken
    BY <2>1 DEF Fenced, JobRecords
  <2> QED
    BY <2>1, <2>2, FencedRow DEF FencedOff, Keeps
<1> QED
  BY <1>1 DEF failExpiredJobLeases

(* A claim takes one row at most, and rows whose leases ran out.            *)
LEMMA TakenRows ==
    ASSUME TypeOK, RowsOK, NEW h \in Hosts, ClaimJob(h)
    PROVE  \A k \in JobIds : jobs'[k] = jobs[k] \/ FencedOff(k) \/ Taken(k)
<1> DEFINE exhausted == { j \in Candidates(h) : Exhausted(j) }
           claimable == Candidates(h) \ exhausted
<1>1. jobs \in [JobIds -> JobRecords]
  BY DEF TypeOK
<1>2. /\ exhausted \in SUBSET JobIds /\ claimable \subseteq JobIds
      /\ \A j \in exhausted : Expired(j)
  BY DEF Candidates, Exhausted
<1>3. ASSUME NEW c \in claimable,
             failExpiredJobLeases({ j \in exhausted : Earlier(j, c) },
                                  [jobs EXCEPT ![c] = LeasedTo(@)], [ops EXCEPT ![c] = "RUNNING"])
      PROVE  \A k \in JobIds : jobs'[k] = jobs[k] \/ FencedOff(k) \/ Taken(k)
  <2> DEFINE jobRows == [jobs EXCEPT ![c] = LeasedTo(@)]
             opRows == [ops EXCEPT ![c] = "RUNNING"]
             F == { j \in exhausted : Earlier(j, c) }
  <2>1. /\ c \in JobIds /\ c \notin F
        /\ jobs[c].status = "PENDING" \/ (Expired(c) /\ ~Exhausted(c))
    BY <1>2 DEF Candidates
  <2>2. jobRows[c] = LeasedTo(jobs[c]) /\ \A k \in JobIds \ {c} : jobRows[k] = jobs[k]
    BY <1>1, <2>1
  <2>3. F \in SUBSET JobIds /\ (\A j \in F : Expired(j)) /\ failExpiredJobLeases(F, jobRows, opRows)
    BY <1>2, <1>3
  <2> HIDE DEF F, jobRows, opRows
  <2>4. /\ \A k \in F : FencedOff(k)
        /\ \A k \in JobIds \ F : jobs'[k] = jobRows[k]
    BY <2>3, ExpiredRows
  <2>5. jobs[c] \in JobRecords /\ jobs[c].attempts \in 0..MaxClaims
    BY <1>1, <2>1 DEF JobRecords
  <2>6. jobs[c].attempts < MaxClaims
    BY <2>1, <2>5, BoundsAssumption DEF RowsOK, Exhausted
  <2>7. LeasedTo(jobs[c]).token = jobs[c].attempts + 1
    BY <2>5 DEF LeasedTo, JobRecords
  <2>8. Taken(c)
    BY <2>1, <2>2, <2>4, <2>5, <2>6, <2>7, LeasedRow DEF Taken, Keeps
  <2> QED
    BY <2>2, <2>4, <2>8
<1>4. ASSUME failExpiredJobLeases(exhausted, jobs, ops)
      PROVE  \A k \in JobIds : jobs'[k] = jobs[k] \/ FencedOff(k)
  BY <1>2, <1>4, ExpiredRows
<1> QED
  BY <1>3, <1>4 DEF ClaimJob

(* Operator and maintenance take a row from its worker only when the lease   *)
(* has run out or the job is no lifecycle job.                              *)
LEMMA TakenAwayRows ==
    ASSUME TypeOK, OperatorStep \/ ServerStep
    PROVE  \A k \in JobIds : jobs'[k] = jobs[k] \/ FencedOff(k) \/ Vanished(k)
<1>1. jobs \in [JobIds -> JobRecords]
  BY DEF TypeOK
<1>2. ASSUME NEW j \in JobIds, Active(j), ~Lifecycle(j), jobs' = [jobs EXCEPT ![j] = Fenced(@)]
      PROVE  \A k \in JobIds : jobs'[k] = jobs[k] \/ FencedOff(k)
  <2>1. jobs'[j] = Fenced(jobs[j]) /\ \A k \in JobIds \ {j} : jobs'[k] = jobs[k]
    BY <1>1, <1>2
  <2>2. Fenced(jobs[j]).token = NoToken
    BY <1>1 DEF Fenced, JobRecords
  <2>3. FencedOff(j)
    BY <1>1, <1>2, <2>1, <2>2, FencedRow DEF FencedOff, Keeps
  <2> QED
    BY <2>1, <2>3
<1>3. CASE OperatorStep
  <2>1. ASSUME NEW j \in JobIds, CancelCodexAuth(j)
        PROVE  \A k \in JobIds : jobs'[k] = jobs[k] \/ FencedOff(k)
    BY <1>2, <2>1, NotLifecycle DEF CancelCodexAuth, Lifecycle
  <2>2. ASSUME NEW s \in Sessions, CancelActiveChat(s)
        PROVE  \A k \in JobIds : jobs'[k] = jobs[k] \/ FencedOff(k)
    <3>1. PICK j \in JobIds : Chat(j) /\ Active(j) /\ jobs' = [jobs EXCEPT ![j] = Fenced(@)]
      BY <2>2 DEF CancelActiveChat
    <3> QED
      BY <1>2, <3>1, NotLifecycle DEF Chat, Lifecycle
  <2>3. ASSUME NEW s \in Sessions, DeleteChatSession(s)
        PROVE  \A k \in JobIds : jobs'[k] = jobs[k] \/ Vanished(k)
    <3> DEFINE gone == [NoJob EXCEPT !.status = "GONE"]
    <3>1. gone.status = "GONE" /\ gone.token = NoToken /\ gone.type = NoOne
      BY DEF NoJob
    <3>2. \A k \in JobIds : jobs'[k] = IF Chat(k) /\ jobs[k].sess = s THEN gone ELSE jobs[k]
      BY <2>3 DEF DeleteChatSession
    <3> HIDE DEF gone
    <3> QED
      BY <3>1, <3>2 DEF Vanished
  <2> QED
    BY <1>3, <2>1, <2>2, <2>3 DEF OperatorStep
<1>4. CASE ServerStep
  <2>1. CASE ReconcileExpiredJobs
    <3> DEFINE F == { j \in JobIds : Exhausted(j) }
    <3>1. F \in SUBSET JobIds /\ (\A j \in F : Expired(j)) /\ failExpiredJobLeases(F, jobs, ops)
      BY <2>1 DEF Exhausted, ReconcileExpiredJobs
    <3> HIDE DEF F
    <3> QED
      BY <3>1, ExpiredRows
  <2>2. CASE \E j \in JobIds : \E op \in { "RUNNING", "FAILED", "SUCCEEDED" } :
                UpdateInstanceDeletionCleanup(j, op)
    BY <2>2 DEF UpdateInstanceDeletionCleanup
  <2> QED
    BY <1>4, <2>1, <2>2 DEF ServerStep
<1> QED
  BY <1>3, <1>4

(* Queueing enters one row, and touches no other.                           *)
LEMMA EnteredRows ==
    ASSUME TypeOK, RowsOK, QueueStep
    PROVE  UNCHANGED jobs \/ \E j \in JobIds : Entered(j) /\ Others(j)
<1>1. CASE UNCHANGED <<jobs, ops, config, messages, events>>
  BY <1>1
<1>2. ASSUME NEW j \in JobIds, NEW job \in JobRecords, Queued(j, job)
      PROVE  Entered(j) /\ Others(j)
  BY <1>2, Inserted DEF Queued, Queueable, Entered, Others
<1> QED
  BY <1>1, <1>2, QueueForms

(* The control plane does nothing else to the rows.                         *)
LEMMA ControlPlaneRows ==
    ASSUME TypeOK, RowsOK, QueueStep \/ OperatorStep \/ ServerStep
    PROVE  \A k \in JobIds : jobs'[k] = jobs[k] \/ Entered(k) \/ FencedOff(k) \/ Vanished(k)
BY EnteredRows, TakenAwayRows DEF Others

(* An acknowledgement starts the job with a full lease.                     *)
LEMMA AcknowledgedRow ==
    ASSUME TypeOK, NEW j \in JobIds, NEW t, AcknowledgeJob(j, t)
    PROVE  /\ Called(j, t) /\ Others(j)
           /\ jobs'[j].status = "RUNNING" /\ jobs'[j].left = LeaseTicks
<1>1. jobs[j] \in JobRecords /\ Holds(j, t) /\ jobs[j].status = "LEASED"
  BY DEF TypeOK, AcknowledgeJob
<1>2. /\ jobs'[j] = [jobs[j] EXCEPT !.status = "RUNNING", !.left = LeaseTicks]
      /\ Others(j)
  BY DEF TypeOK, AcknowledgeJob, Others
<1>3. /\ jobs'[j].status = "RUNNING" /\ jobs'[j].left = LeaseTicks
      /\ jobs'[j].token = jobs[j].token /\ jobs'[j].attempts = jobs[j].attempts
      /\ Keeps(jobs'[j], jobs[j])
  BY <1>1, <1>2 DEF JobRecords, Keeps
<1> QED
  BY <1>1, <1>2, <1>3 DEF Called, Leased, Holds

(* A renewal fills it up again.                                             *)
LEMMA RenewedRow ==
    ASSUME TypeOK, NEW j \in JobIds, NEW t, RenewJob(j, t)
    PROVE  /\ Called(j, t) /\ Others(j)
           /\ jobs'[j].status = "RUNNING" /\ jobs'[j].left = LeaseTicks
<1>1. jobs[j] \in JobRecords /\ Holds(j, t) /\ jobs[j].status = "RUNNING"
  BY DEF TypeOK, RenewJob
<1>2. jobs'[j] = [jobs[j] EXCEPT !.left = LeaseTicks] /\ Others(j)
  BY DEF TypeOK, RenewJob, Others
<1>3. /\ jobs'[j].status = "RUNNING" /\ jobs'[j].left = LeaseTicks
      /\ jobs'[j].token = jobs[j].token /\ jobs'[j].attempts = jobs[j].attempts
      /\ Keeps(jobs'[j], jobs[j])
  BY <1>1, <1>2 DEF JobRecords, Keeps
<1> QED
  BY <1>1, <1>2, <1>3 DEF Called, Leased, Holds

(* A completion stores the result of the worker that calls.                 *)
LEMMA CompletedRow ==
    ASSUME TypeOK, NEW j \in JobIds, NEW t, NEW ok \in BOOLEAN, NEW st \in Answers,
           CompleteJob(j, t, ok, st)
    PROVE  /\ Called(j, t) /\ Others(j) /\ jobs'[j].status \in TerminalStatuses
           /\ jobs'[j].result = [outcome |-> IF ok THEN "SUCCESS" ELSE "FAILURE", status |-> st]
<1>1. jobs[j] \in JobRecords /\ Holds(j, t) /\ jobs[j].status = "RUNNING"
  BY DEF TypeOK, CompleteJob, Completable
<1>2. jobs' = [jobs EXCEPT ![j] = Ended(@, ok, st)]
  BY DEF CompleteJob
<1>3. jobs'[j] = Ended(jobs[j], ok, st) /\ Others(j)
  BY <1>2 DEF TypeOK, Others
<1> DEFINE result == [outcome |-> IF ok THEN "SUCCESS" ELSE "FAILURE", status |-> st]
           status == IF ok THEN "SUCCEEDED" ELSE "FAILED"
<1>4. Ended(jobs[j], ok, st) = [jobs[j] EXCEPT !.status = status, !.result = result]
  BY DEF Ended
<1>5. status \in { "SUCCEEDED", "FAILED" }
  OBVIOUS
<1> HIDE DEF result, status
<1>6. /\ jobs'[j].status = status /\ jobs'[j].result = result
      /\ jobs'[j].token = jobs[j].token /\ jobs'[j].attempts = jobs[j].attempts
      /\ Keeps(jobs'[j], jobs[j])
  BY <1>1, <1>3, <1>4 DEF JobRecords, Keeps
<1> QED
  BY <1>1, <1>3, <1>5, <1>6 DEF Called, Leased, Holds, TerminalStatuses, result

(* Time takes one tick from every lease that has not run out.               *)
LEMMA TickedRow ==
    ASSUME TypeOK, NEW k \in JobIds, Tick \/ UNCHANGED vars
    PROVE  /\ Keeps(jobs'[k], jobs[k]) /\ jobs'[k].status = jobs[k].status
           /\ jobs'[k].token = jobs[k].token /\ jobs'[k].attempts = jobs[k].attempts
           /\ jobs'[k].result = jobs[k].result
           /\ Live(k) => jobs'[k].left >= jobs[k].left - 1
<1>1. jobs[k] \in JobRecords /\ jobs[k].left \in Int
  BY DEF TypeOK, JobRecords
<1>2. CASE Tick /\ Live(k)
  <2>1. jobs'[k] = [jobs[k] EXCEPT !.left = @ - 1]
    BY <1>2 DEF Tick
  <2>2. jobs'[k].left = jobs[k].left - 1
    BY <1>1, <2>1 DEF JobRecords
  <2> QED
    BY <1>1, <2>1, <2>2 DEF JobRecords, Keeps
<1>3. CASE jobs'[k] = jobs[k]
  BY <1>1, <1>3 DEF Keeps
<1> QED
  BY <1>2, <1>3 DEF Tick, vars

------------------------------------------------------------------------------
(* What the invariant says of one worker.                                  *)

(* A worker with a job knows it and its token.                              *)
LEMMA WorkerTyped ==
    ASSUME FleetTypeOK, NEW w \in Workers
    PROVE  /\ worker[w] \in WorkerRecords
           /\ worker[w].age \in Nat /\ worker[w].renewAge \in Nat /\ worker[w].timer \in Nat
           /\ worker[w].deadline \in Nat /\ worker[w].token \in Nat /\ worker[w].job \in Nat
BY DEF FleetTypeOK, WorkerRecords

(* An acknowledged or executed lifecycle job has a lease that has not run    *)
(* out: the deadline with its safety window leaves time for one answer to    *)
(* the acknowledgement or last renewal, and one to the next.                 *)
LEMMA GuardedIsLive ==
    ASSUME TypeOK, FleetTypeOK, NEW w \in Workers, WorkerOK(w),
           Guards(w), Lifecycle(worker[w].job)
    PROVE  /\ Live(worker[w].job) /\ Current(w) /\ jobs[worker[w].job].left \in Nat
           /\ worker[w].job \in JobIds /\ HasJob(w)
<1> DEFINE rec == worker[w]
           left == jobs[rec.job].left
<1>1. HasJob(w) /\ rec.job \in JobIds
  BY DEF WorkerOK, ClaimOK, Guards, Executing, HasJob
<1>2. left \in Int
  BY <1>1 DEF TypeOK, JobRecords
<1>3. /\ rec.age \in Nat /\ rec.renewAge \in Nat /\ rec.timer \in Nat /\ rec.deadline \in Nat
  BY WorkerTyped
<1>4. /\ Current(w) /\ jobs[rec.job].status = "RUNNING"
      /\ rec.pc = "acking" => left >= LeaseTicks - rec.age
      /\ Executing(w) =>
            /\ left >= rec.deadline - HttpTimeout
            /\ rec.renew = "none" => rec.deadline >= safetyWindow + rec.timer
            /\ rec.renew # "none" => rec.deadline + rec.renewAge >= safetyWindow
  BY DEF WorkerOK, LeaseHeld
<1>5. (Waiting(w) => rec.age <= HttpTimeout) /\ (rec.renew # "none" => rec.renewAge <= HttpTimeout)
  BY DEF WorkerOK, ClocksOK
<1>6. CASE Executing(w)
  <2>1. rec.deadline + HttpTimeout >= safetyWindow
    BY <1>3, <1>4, <1>5, <1>6, Durations
  <2> HIDE DEF rec, left
  <2>2. left >= 0
    BY <1>2, <1>3, <1>4, <1>6, <2>1, Durations
  <2> QED
    BY <1>1, <1>2, <1>4, <2>2 DEF Live, Leased, rec, left
<1>7. CASE rec.pc = "acking" /\ rec.req = "granted"
  <2>1. rec.age <= HttpTimeout
    BY <1>5, <1>7 DEF Waiting
  <2> HIDE DEF left
  <2>2. left >= 0
    BY <1>2, <1>3, <1>4, <1>7, <2>1, Durations
  <2> QED
    BY <1>1, <1>2, <1>4, <2>2 DEF Live, Leased, left
<1> QED
  BY <1>6, <1>7 DEF Guards

(* What others may do to the row of a worker's job.                         *)
TouchedByOthers(w) ==
    HasJob(w) =>
        LET j == worker[w].job
        IN \/ jobs'[j] = jobs[j] \/ Entered(j) \/ FencedOff(j) \/ Vanished(j) \/ Taken(j)
           \/ \E t \in Nat : t # worker[w].token /\ Called(j, t)

(* Nothing that others do takes a lease away that a worker relies on.        *)
LEMMA WorkerUnharmed ==
    ASSUME TypeOK, FleetTypeOK, NEW w \in Workers, WorkerOK(w),
           worker'[w] = worker[w], TouchedByOthers(w)
    PROVE  WorkerOK(w)'
<1> DEFINE j == worker[w].job
<1>1. ClocksOK(w)'
  BY DEF WorkerOK, ClocksOK, Waiting, Renewing
<1>2. (HasJob(w)' <=> HasJob(w)) /\ (Guards(w)' <=> Guards(w)) /\ (Executing(w)' <=> Executing(w))
  BY DEF HasJob, Guards, Executing
<1>3. CASE ~HasJob(w)
  BY <1>1, <1>2, <1>3 DEF WorkerOK, ClaimOK, LeaseHeld, ResultIsOwn, HasJob, Guards, Executing
<1>4. CASE HasJob(w)
  <2>1. /\ j \in JobIds /\ worker[w].token # NoToken /\ jobs[j] \in JobRecords
        /\ jobs[j].status \notin { "NONE", "PENDING" }
        /\ jobs[j].status # "GONE" => worker[w].token <= jobs[j].attempts
        /\ jobs[j].attempts \in Nat /\ worker[w].token \in Nat
    BY <1>4, WorkerTyped DEF WorkerOK, ClaimOK, TypeOK, JobRecords
  <2>2. ClaimOK(w)'
    <3>1. Undoing(w)' => jobs[j].type \in DetachedRollbackTypes
      BY <1>4 DEF WorkerOK, ClaimOK, Undoing
    <3>2. Undoing(w)' => jobs'[j].type \in DetachedRollbackTypes
      BY <1>4, <2>1, <3>1, NotLifecycle DEF TouchedByOthers, Entered, FencedOff, Vanished, Taken,
         Called, Keeps, Chat
    <3> QED
      BY <1>4, <2>1, <3>2 DEF TouchedByOthers, ClaimOK, Entered, FencedOff, Vanished, Taken, Called,
         Expired, Leased, Active, ActiveStatuses, Holds
  <2>3. Guards(w) /\ Lifecycle(j) => jobs'[j] = jobs[j]
    <3> SUFFICES ASSUME Guards(w), Lifecycle(j) PROVE jobs'[j] = jobs[j]
      OBVIOUS
    <3>1. Live(j) /\ Current(w) /\ jobs[j].left \in Nat
      BY GuardedIsLive
    <3> QED
      BY <1>4, <2>1, <3>1, NotLifecycle DEF TouchedByOthers, Entered, FencedOff, Vanished, Taken,
         Called, Expired, Live, Leased, Current, Holds, Lifecycle, Chat
  <2>4. LeaseHeld(w)'
    <3> SUFFICES ASSUME Guards(w), Lifecycle(j)' PROVE LeaseHeld(w)'
      BY <1>2 DEF LeaseHeld
    <3>1. Lifecycle(j)
      BY <1>4, <2>1, NotLifecycle DEF TouchedByOthers, Lifecycle, Entered, FencedOff, Vanished,
         Taken, Called, Keeps
    <3> QED
      BY <1>2, <2>3, <3>1 DEF WorkerOK, LeaseHeld, Current, Lifecycle
  <2>5. ResultIsOwn(w)'
    <3> SUFFICES ASSUME Current(w)', jobs'[j].status \in TerminalStatuses
                 PROVE  ResultIsOwn(w)'
      BY DEF ResultIsOwn
    <3>1. jobs'[j] = jobs[j]
      BY <1>4, <2>1 DEF TouchedByOthers, Current, Entered, FencedOff, Vanished, Taken, Called,
         TerminalStatuses
    <3> QED
      BY <1>4, <3>1 DEF WorkerOK, ResultIsOwn, Current, Stored
  <2> QED
    BY <1>1, <2>2, <2>4, <2>5 DEF WorkerOK
<1> QED
  BY <1>3, <1>4

------------------------------------------------------------------------------
(* Steps of a worker that leave the queue alone.                           *)

KeepsJob(w) ==
    HasJob(w)' => /\ HasJob(w)
                  /\ worker'[w].job = worker[w].job /\ worker'[w].token = worker[w].token

(* One worker moves to a record that the invariant allows.                  *)
Moved(w) == (\E rec \in WorkerRecords : Become(w, rec)) /\ WorkerOK(w)' /\ KeepsJob(w)

(* A worker that went back to polling has nothing to lose.                  *)
LEMMA IdleIsOK ==
    ASSUME NEW w \in Workers, worker'[w] = IdleWorker
    PROVE  WorkerOK(w)' /\ KeepsJob(w)
BY IdleRecord DEF WorkerOK, ClaimOK, ClocksOK, LeaseHeld, ResultIsOwn, KeepsJob, HasJob, Guards,
   Executing, Waiting, Renewing

(* So it may stop where it is.                                              *)
LEMMA Idles ==
    ASSUME FleetTypeOK, NEW w \in Workers, Become(w, IdleWorker)
    PROVE  Moved(w)
<1>1. worker'[w] = IdleWorker
  BY DEF Become, FleetTypeOK
<1> QED
  BY <1>1, IdleRecord, IdleIsOK DEF Moved

(* A worker that keeps its job and its lease in hand.                       *)
LEMMA KeepsLease ==
    ASSUME FleetInv, NEW w \in Workers, NEW rec \in WorkerRecords, Become(w, rec), UNCHANGED jobs,
           HasJob(w), rec.pc \notin { "idle", "claiming", "undoing" },
           rec.job = worker[w].job, rec.token = worker[w].token,
           ClocksOK(w)', LeaseHeld(w)', ResultIsOwn(w)'
    PROVE  Moved(w)
<1>1. worker'[w] = rec
  BY DEF Become, FleetInv, FleetTypeOK
<1>2. WorkerOK(w)
  BY DEF FleetInv
<1>3. ClaimOK(w)'
  BY <1>1, <1>2 DEF WorkerOK, ClaimOK, HasJob, Undoing
<1> QED
  BY <1>1, <1>3 DEF Moved, WorkerOK, KeepsJob, HasJob

(* From the poll to the execution.                                          *)
LEMMA ClaimMoves ==
    ASSUME FleetInv, NEW w \in Workers,
           Poll(w) \/ ReceiveClaim(w) \/ ReceiveAck(w) \/ ClaimFails(w)
    PROVE  Moved(w) /\ UNCHANGED <<vars, agent, crashes>>
<1>1. /\ FleetTypeOK /\ TypeOK /\ WorkerOK(w)
      /\ worker[w] \in WorkerRecords /\ worker[w].age \in Nat
  BY WorkerTyped DEF FleetInv, IInv
<1>2. CASE Poll(w)
  <2> DEFINE rec == Sent([IdleWorker EXCEPT !.pc = "claiming"])
  <2>1. /\ rec \in WorkerRecords /\ rec.pc = "claiming" /\ rec.req = "sent" /\ rec.age = 0
        /\ rec.renew = "none"
    BY IdleRecord DEF Sent, WorkerRecords
  <2>2. Become(w, rec)
    BY <1>2 DEF Poll
  <2> HIDE DEF rec
  <2>3. worker'[w] = rec
    BY <1>1, <2>2 DEF Become, FleetTypeOK
  <2>4. WorkerOK(w)' /\ KeepsJob(w)
    BY <2>1, <2>3, Durations DEF WorkerOK, ClaimOK, ClocksOK, LeaseHeld, ResultIsOwn, KeepsJob,
       HasJob, Guards, Executing, Waiting, Renewing
  <2> QED
    BY <1>2, <2>1, <2>2, <2>4 DEF Moved, Poll
<1>3. CASE ReceiveClaim(w)
  <2>1. CASE Become(w, IdleWorker)
    BY <1>1, <1>3, <2>1, Idles DEF ReceiveClaim
  <2>2. CASE worker[w].req = "granted" /\ Become(w, Sent([worker[w] EXCEPT !.pc = "acking"]))
    <3> DEFINE rec == Sent([worker[w] EXCEPT !.pc = "acking"])
    <3>1. /\ rec \in WorkerRecords /\ rec.pc = "acking" /\ rec.req = "sent" /\ rec.age = 0
          /\ rec.renew = worker[w].renew /\ rec.job = worker[w].job /\ rec.token = worker[w].token
      BY <1>1 DEF Sent, WorkerRecords
    <3> HIDE DEF rec
    <3>2. Become(w, rec) /\ worker'[w] = rec /\ HasJob(w) /\ worker[w].pc = "claiming"
          /\ UNCHANGED jobs
      BY <1>1, <1>3, <2>2 DEF rec, Become, FleetTypeOK, ReceiveClaim, HasJob, vars
    <3>3. worker[w].renew = "none"
      BY <1>1, <3>2 DEF WorkerOK, ClocksOK, Renewing
    <3>4. ClocksOK(w)'
      BY <3>1, <3>2, <3>3, Durations DEF ClocksOK, Waiting
    <3>5. LeaseHeld(w)'
      BY <3>1, <3>2 DEF LeaseHeld, Guards, Executing
    <3>6. ResultIsOwn(w)'
      BY <1>1, <3>1, <3>2 DEF WorkerOK, ResultIsOwn, Current
    <3>7. Moved(w)
      BY <3>1, <3>2, <3>4, <3>5, <3>6, KeepsLease
    <3> QED
      BY <1>3, <3>7 DEF ReceiveClaim
  <2> QED
    BY <1>3, <2>1, <2>2 DEF ReceiveClaim
<1>4. CASE ReceiveAck(w)
  <2>1. CASE Become(w, IdleWorker)
    BY <1>1, <1>4, <2>1, Idles DEF ReceiveAck
  <2>2. ASSUME NEW pc \in { "fetching", "working" }, worker[w].req = "granted",
               Become(w, [worker[w] EXCEPT !.pc = pc, !.req = "none", !.age = 0,
                                           !.timer = RenewInterval, !.deadline = LeaseTicks])
        PROVE  Moved(w)
    <3> DEFINE rec == [worker[w] EXCEPT !.pc = pc, !.req = "none", !.age = 0,
                                        !.timer = RenewInterval, !.deadline = LeaseTicks]
    <3>1. /\ rec \in WorkerRecords /\ rec.pc = pc /\ rec.req = "none"
          /\ rec.timer = RenewInterval /\ rec.deadline = LeaseTicks
          /\ rec.renew = worker[w].renew /\ rec.job = worker[w].job /\ rec.token = worker[w].token
      BY <1>1, Durations DEF WorkerRecords
    <3> HIDE DEF rec
    <3>2. Become(w, rec) /\ worker'[w] = rec /\ HasJob(w) /\ worker[w].pc = "acking"
          /\ UNCHANGED jobs
      BY <1>1, <1>4, <2>2 DEF rec, Become, FleetTypeOK, ReceiveAck, HasJob, vars
    <3>3. worker[w].renew = "none" /\ worker[w].age <= HttpTimeout /\ Guards(w)
      BY <1>1, <2>2, <3>2 DEF WorkerOK, ClocksOK, Renewing, Waiting, Guards
    <3>4. ClocksOK(w)'
      BY <3>1, <3>2, <3>3 DEF ClocksOK, Waiting
    <3>5. LeaseHeld(w)'
      <4> SUFFICES ASSUME Lifecycle(worker[w].job) PROVE LeaseHeld(w)'
        BY <3>1, <3>2 DEF LeaseHeld, Lifecycle
      <4>1. /\ Current(w) /\ jobs[worker[w].job].status = "RUNNING"
            /\ jobs[worker[w].job].left >= LeaseTicks - worker[w].age
            /\ jobs[worker[w].job].left \in Nat
        BY <1>1, <3>2, <3>3, GuardedIsLive DEF WorkerOK, LeaseHeld
      <4>2. jobs[worker[w].job].left >= LeaseTicks - HttpTimeout
        BY <1>1, <3>3, <4>1, Durations
      <4> QED
        BY <3>1, <3>2, <3>3, <4>1, <4>2, Durations DEF LeaseHeld, Current
    <3>6. ResultIsOwn(w)'
      BY <1>1, <3>1, <3>2 DEF WorkerOK, ResultIsOwn, Current
    <3> QED
      BY <3>1, <3>2, <3>4, <3>5, <3>6, KeepsLease
  <2> QED
    BY <1>4, <2>1, <2>2 DEF ReceiveAck
<1>5. CASE ClaimFails(w)
  BY <1>1, <1>5, Idles DEF ClaimFails
<1> QED
  BY <1>2, <1>3, <1>4, <1>5

(* The results a worker reports are statuses, or none.                      *)
LEMMA AnswerTypes ==
    /\ "" \in Answers /\ "STOPPED" \in Answers /\ InstanceStatuses \subseteq Answers
    /\ \A job \in JobRecords : job.asked \in Answers /\ InputFailureStatus(job) \in Answers
<1>1. "" \in Answers /\ InstanceStatuses \subseteq Answers
  BY Zenon DEF Answers
<1>2. "STOPPED" \in Answers
  BY <1>1 DEF InstanceStatuses
<1>3. \A job \in JobRecords : job.asked \in Answers
  BY <1>1 DEF JobRecords
<1>4. ASSUME NEW job \in JobRecords
      PROVE  InputFailureStatus(job) \in { "STOPPED", job.asked, "" }
  BY Zenon DEF InputFailureStatus
<1> QED
  BY <1>1, <1>2, <1>3, <1>4, Zenon

(* A result of an execution that has ended.                                 *)
LEMMA ResultReady ==
    ASSUME FleetInv, NEW w \in Workers, Executing(w), NEW ok \in BOOLEAN, NEW st \in Answers,
           Become(w, [worker[w] EXCEPT !.pc = "completing", !.ok = ok, !.st = st]), UNCHANGED jobs
    PROVE  Moved(w)
<1> DEFINE rec == [worker[w] EXCEPT !.pc = "completing", !.ok = ok, !.st = st]
<1>1. FleetTypeOK /\ WorkerOK(w) /\ worker[w] \in WorkerRecords
  BY WorkerTyped DEF FleetInv
<1>2. /\ rec \in WorkerRecords /\ rec.pc = "completing"
      /\ rec.job = worker[w].job /\ rec.token = worker[w].token
      /\ rec.req = worker[w].req /\ rec.age = worker[w].age
      /\ rec.renew = worker[w].renew /\ rec.renewAge = worker[w].renewAge
  BY <1>1 DEF WorkerRecords
<1> HIDE DEF rec
<1>3. Become(w, rec) /\ worker'[w] = rec /\ HasJob(w)
  BY <1>1 DEF rec, Become, FleetTypeOK, HasJob, Executing
<1>4. ClocksOK(w)'
  BY <1>1, <1>2, <1>3 DEF WorkerOK, ClocksOK, Waiting, Renewing
<1>5. LeaseHeld(w)'
  BY <1>2, <1>3 DEF LeaseHeld, Guards, Executing
<1>6. ResultIsOwn(w)'
  BY <1>1, <1>2, <1>3 DEF WorkerOK, ResultIsOwn, Current, Executing
<1> QED
  BY <1>2, <1>3, <1>4, <1>5, <1>6, KeepsLease

(* The execution.                                                           *)
LEMMA ExecutionMoves ==
    ASSUME FleetInv, NEW w \in Workers,
           \/ FetchInput(w) \/ InstallVerified(w)
           \/ \E ok \in BOOLEAN : \E st \in Answers : ExecutionEnds(w, ok, st)
    PROVE  Moved(w) /\ UNCHANGED <<vars, agent, crashes>>
<1>1. /\ FleetTypeOK /\ TypeOK /\ WorkerOK(w) /\ worker[w] \in WorkerRecords
  BY WorkerTyped DEF FleetInv, IInv
<1>2. ASSUME NEW rec \in WorkerRecords, Become(w, rec), UNCHANGED jobs, Executing(w),
             rec.pc = "working", rec.job = worker[w].job, rec.token = worker[w].token,
             rec.req = worker[w].req, rec.age = worker[w].age, rec.renew = worker[w].renew,
             rec.renewAge = worker[w].renewAge, rec.timer = worker[w].timer,
             rec.deadline = worker[w].deadline
      PROVE  Moved(w)
  <2>1. worker'[w] = rec /\ HasJob(w) /\ Guards(w)
    BY <1>1, <1>2 DEF Become, FleetTypeOK, HasJob, Executing, Guards
  <2>2. ClocksOK(w)'
    BY <1>1, <1>2, <2>1 DEF WorkerOK, ClocksOK, Waiting, Renewing
  <2>3. LeaseHeld(w)'
    BY <1>1, <1>2, <2>1 DEF WorkerOK, LeaseHeld, Guards, Executing, Current, Lifecycle
  <2>4. ResultIsOwn(w)'
    BY <1>1, <1>2, <2>1 DEF WorkerOK, ResultIsOwn, Current, Executing
  <2> QED
    BY <1>2, <2>1, <2>2, <2>3, <2>4, KeepsLease
<1>3. CASE FetchInput(w)
  <2>1. /\ UNCHANGED <<vars, agent, crashes>> /\ UNCHANGED jobs
        /\ worker[w].pc = "fetching" /\ Executing(w)
    BY <1>3 DEF FetchInput, vars, Executing
  <2>2. CASE Become(w, [worker[w] EXCEPT !.pc = "working"])
    <3> DEFINE rec == [worker[w] EXCEPT !.pc = "working"]
    <3>1. /\ rec \in WorkerRecords /\ rec.pc = "working"
          /\ rec.job = worker[w].job /\ rec.token = worker[w].token
          /\ rec.req = worker[w].req /\ rec.age = worker[w].age
          /\ rec.renew = worker[w].renew /\ rec.renewAge = worker[w].renewAge
          /\ rec.timer = worker[w].timer /\ rec.deadline = worker[w].deadline
      BY <1>1 DEF WorkerRecords
    <3> HIDE DEF rec
    <3>2. Become(w, rec)
      BY <2>2 DEF rec
    <3> QED
      BY <1>2, <2>1, <3>1, <3>2
  <2>3. CASE Become(w, [worker[w] EXCEPT !.pc = "completing", !.ok = FALSE,
                                         !.st = InputFailureStatus(jobs[worker[w].job])])
    <3>1. worker[w].job \in JobIds
      BY <1>1, <2>1 DEF WorkerOK, ClaimOK, HasJob
    <3> DEFINE st == InputFailureStatus(jobs[worker[w].job])
    <3>2. st \in Answers
      BY <1>1, <3>1, AnswerTypes DEF TypeOK
    <3>3. Become(w, [worker[w] EXCEPT !.pc = "completing", !.ok = FALSE, !.st = st])
      BY <2>3
    <3> HIDE DEF st
    <3>4. FALSE \in BOOLEAN
      OBVIOUS
    <3> QED
      BY <2>1, <3>2, <3>3, <3>4, ResultReady
  <2> QED
    BY <1>3, <2>2, <2>3 DEF FetchInput
<1>4. CASE InstallVerified(w)
  <2> DEFINE rec == [worker[w] EXCEPT !.verified = TRUE]
  <2>1. Become(w, rec) /\ UNCHANGED jobs /\ worker[w].pc = "working" /\ Executing(w)
    BY <1>4 DEF InstallVerified, vars, Executing
  <2>2. /\ rec \in WorkerRecords /\ rec.pc = "working"
        /\ rec.job = worker[w].job /\ rec.token = worker[w].token
        /\ rec.req = worker[w].req /\ rec.age = worker[w].age
        /\ rec.renew = worker[w].renew /\ rec.renewAge = worker[w].renewAge
        /\ rec.timer = worker[w].timer /\ rec.deadline = worker[w].deadline
    BY <1>1, <2>1 DEF WorkerRecords
  <2> QED
    BY <1>2, <1>4, <2>1, <2>2 DEF InstallVerified
<1>5. ASSUME NEW ok \in BOOLEAN, NEW st \in Answers, ExecutionEnds(w, ok, st)
      PROVE  Moved(w) /\ UNCHANGED <<vars, agent, crashes>>
  <2>1. /\ worker[w].pc = "working" /\ UNCHANGED <<vars, agent, crashes>>
        /\ Become(w, [worker[w] EXCEPT !.pc = "completing", !.ok = ok, !.st = st])
    BY <1>5, Zenon DEF ExecutionEnds
  <2> QED
    BY <2>1, ResultReady DEF Executing, vars
<1> QED
  BY <1>3, <1>4, <1>5 DEF FetchInput, InstallVerified

(* The completion, repeated until it is answered.                           *)
LEMMA CompletionMoves ==
    ASSUME FleetInv, NEW w \in Workers,
           SendCompletion(w) \/ ReceiveCompletion(w) \/ CompletionFails(w) \/ DetachedGivesUp(w)
    PROVE  Moved(w) /\ UNCHANGED <<vars, agent, crashes>>
<1>1. FleetTypeOK /\ WorkerOK(w) /\ worker[w] \in WorkerRecords
  BY WorkerTyped DEF FleetInv
<1>2. ASSUME NEW rec \in WorkerRecords, Become(w, rec), UNCHANGED jobs,
             worker[w].pc \in { "completing", "detached" }, rec.pc = worker[w].pc,
             rec.job = worker[w].job, rec.token = worker[w].token,
             rec.req \in { "none", "sent" }, rec.age = 0, rec.renew = worker[w].renew,
             rec.renewAge = worker[w].renewAge, rec.ok = worker[w].ok, rec.st = worker[w].st
      PROVE  Moved(w)
  <2>1. worker'[w] = rec /\ HasJob(w)
    BY <1>1, <1>2 DEF Become, FleetTypeOK, HasJob
  <2>2. ClocksOK(w)'
    BY <1>1, <1>2, <2>1, Durations DEF WorkerOK, ClocksOK, Waiting, Renewing
  <2>3. LeaseHeld(w)'
    BY <1>2, <2>1 DEF LeaseHeld, Guards, Executing
  <2>4. ResultIsOwn(w)'
    BY <1>1, <1>2, <2>1 DEF WorkerOK, ResultIsOwn, Current, Stored
  <2> QED
    BY <1>2, <2>1, <2>2, <2>3, <2>4, KeepsLease
<1>3. CASE SendCompletion(w)
  <2> DEFINE rec == Sent(worker[w])
  <2>1. /\ rec \in WorkerRecords /\ rec.pc = worker[w].pc
        /\ rec.job = worker[w].job /\ rec.token = worker[w].token
        /\ rec.req = "sent" /\ rec.age = 0 /\ rec.renew = worker[w].renew
        /\ rec.renewAge = worker[w].renewAge /\ rec.ok = worker[w].ok /\ rec.st = worker[w].st
    BY <1>1 DEF WorkerRecords, Sent
  <2> HIDE DEF rec
  <2>2. Become(w, rec) /\ UNCHANGED jobs /\ worker[w].pc \in { "completing", "detached" }
    BY <1>3 DEF SendCompletion, vars, rec
  <2> QED
    BY <1>2, <1>3, <2>1, <2>2 DEF SendCompletion
<1>4. CASE CompletionFails(w)
  <2> DEFINE rec == [worker[w] EXCEPT !.req = "none", !.age = 0]
  <2>1. /\ rec \in WorkerRecords /\ rec.pc = worker[w].pc
        /\ rec.job = worker[w].job /\ rec.token = worker[w].token
        /\ rec.req = "none" /\ rec.age = 0 /\ rec.renew = worker[w].renew
        /\ rec.renewAge = worker[w].renewAge /\ rec.ok = worker[w].ok /\ rec.st = worker[w].st
    BY <1>1 DEF WorkerRecords
  <2> HIDE DEF rec
  <2>2. Become(w, rec) /\ UNCHANGED jobs /\ worker[w].pc \in { "completing", "detached" }
    BY <1>4 DEF CompletionFails, vars, rec
  <2> QED
    BY <1>2, <1>4, <2>1, <2>2 DEF CompletionFails
<1> QED
  BY <1>1, <1>3, <1>4, Idles DEF ReceiveCompletion, DetachedGivesUp

(* A canceled execution is over, but for a report or a rollback.            *)
LEMMA CanceledRecord ==
    ASSUME TypeOK, FleetTypeOK, NEW w \in Workers, WorkerOK(w), NEW done \in BOOLEAN
    PROVE  LET rec == Canceled(worker[w], done)
           IN /\ rec \in WorkerRecords
              /\ \/ rec = IdleWorker
                 \/ /\ worker[w].pc = "working" /\ rec.pc = "detached"
                    /\ rec.job = worker[w].job /\ rec.token = worker[w].token
                    /\ rec.req = "none" /\ rec.renew = "none"
                 \/ /\ worker[w].pc = "working" /\ rec.pc = "undoing"
                    /\ rec.job = worker[w].job /\ rec.token = worker[w].token
                    /\ rec.req = worker[w].req /\ rec.age = worker[w].age /\ rec.renew = "none"
                    /\ jobs[rec.job].type \in DetachedRollbackTypes
<1>1. worker[w] \in WorkerRecords
  BY WorkerTyped
<1>2. CASE worker[w].pc = "working" /\ worker[w].verified
  <2> DEFINE st == IF done THEN jobs[worker[w].job].asked ELSE "STOPPED"
  <2>1. jobs[worker[w].job] \in JobRecords
    BY <1>2 DEF WorkerOK, ClaimOK, HasJob, TypeOK
  <2>2. st \in Answers
    BY <2>1, AnswerTypes
  <2> DEFINE rec == [worker[w] EXCEPT !.pc = "detached", !.ok = done, !.st = st, !.req = "none",
                        !.age = 0, !.renew = "none", !.renewAge = 0, !.timer = 0,
                        !.deadline = DetachedLimit]
  <2>3. Canceled(worker[w], done) = rec
    BY <1>2 DEF Canceled
  <2> HIDE DEF st
  <2>4. /\ rec \in WorkerRecords /\ rec.pc = "detached"
        /\ rec.job = worker[w].job /\ rec.token = worker[w].token
        /\ rec.req = "none" /\ rec.renew = "none"
    BY <1>1, <2>2, AgentAssumption DEF WorkerRecords
  <2> HIDE DEF rec
  <2> QED
    BY <1>2, <2>3, <2>4
<1> DEFINE lasts == /\ worker[w].pc = "working" /\ ~worker[w].verified
                    /\ jobs[worker[w].job].type \in DetachedRollbackTypes /\ ~done
<1>3. CASE lasts
  <2> DEFINE rec == [worker[w] EXCEPT !.pc = "undoing", !.renew = "none", !.renewAge = 0,
                                      !.timer = 0, !.deadline = RollbackLimit]
  <2>1. Canceled(worker[w], done) = rec
    BY <1>3 DEF Canceled
  <2>2. /\ rec \in WorkerRecords /\ rec.pc = "undoing"
        /\ rec.job = worker[w].job /\ rec.token = worker[w].token
        /\ rec.req = worker[w].req /\ rec.age = worker[w].age /\ rec.renew = "none"
    BY <1>1, AgentAssumption DEF WorkerRecords
  <2> HIDE DEF rec
  <2> QED
    BY <1>3, <2>1, <2>2
<1>4. CASE ~(worker[w].pc = "working" /\ worker[w].verified) /\ ~lasts
  BY <1>4, IdleRecord DEF Canceled
<1> QED
  BY <1>2, <1>3, <1>4

(* A canceled execution gives up its job, or keeps it for a last report or  *)
(* a rollback.                                                              *)
LEMMA CanceledIsOK ==
    ASSUME FleetInv, NEW w \in Workers, NEW done \in BOOLEAN, UNCHANGED jobs,
           worker'[w] = Canceled(worker[w], done)
    PROVE  WorkerOK(w)' /\ KeepsJob(w) /\ ~Executing(w)'
<1> DEFINE rec == Canceled(worker[w], done)
<1>1. FleetTypeOK /\ TypeOK /\ WorkerOK(w)
  BY DEF FleetInv, IInv
<1>2. CASE rec = IdleWorker
  BY <1>2, IdleIsOK, IdleRecord DEF Executing
<1>3. CASE /\ worker[w].pc = "working" /\ rec.pc = "detached"
           /\ rec.job = worker[w].job /\ rec.token = worker[w].token
           /\ rec.req = "none" /\ rec.renew = "none"
  <2> HIDE DEF rec
  <2>1. worker'[w] = rec /\ HasJob(w)
    BY <1>3 DEF rec, HasJob
  <2>2. ClaimOK(w)' /\ ClocksOK(w)'
    BY <1>1, <1>3, <2>1 DEF WorkerOK, ClaimOK, ClocksOK, HasJob, Waiting, Undoing
  <2>3. LeaseHeld(w)' /\ ~Executing(w)'
    BY <1>3, <2>1 DEF LeaseHeld, Guards, Executing
  <2>4. ResultIsOwn(w)'
    BY <1>1, <1>3, <2>1 DEF WorkerOK, ResultIsOwn, Current
  <2> QED
    BY <1>3, <2>1, <2>2, <2>3, <2>4 DEF WorkerOK, KeepsJob
<1>4. CASE /\ worker[w].pc = "working" /\ rec.pc = "undoing"
           /\ rec.job = worker[w].job /\ rec.token = worker[w].token
           /\ rec.req = worker[w].req /\ rec.age = worker[w].age /\ rec.renew = "none"
           /\ jobs[rec.job].type \in DetachedRollbackTypes
  <2> HIDE DEF rec
  <2>1. worker'[w] = rec /\ HasJob(w)
    BY <1>4 DEF rec, HasJob
  <2>2. ClaimOK(w)' /\ ClocksOK(w)'
    BY <1>1, <1>4, <2>1 DEF WorkerOK, ClaimOK, ClocksOK, HasJob, Waiting
  <2>3. LeaseHeld(w)' /\ ~Executing(w)'
    BY <1>4, <2>1 DEF LeaseHeld, Guards, Executing
  <2>4. ResultIsOwn(w)'
    BY <1>1, <1>4, <2>1 DEF WorkerOK, ResultIsOwn, Current
  <2> QED
    BY <1>4, <2>1, <2>2, <2>3, <2>4 DEF WorkerOK, KeepsJob
<1> QED
  BY <1>1, <1>2, <1>3, <1>4, CanceledRecord

(* The renewal loop.                                                        *)
LEMMA RenewalMoves ==
    ASSUME FleetInv, NEW w \in Workers,
           SendRenewal(w) \/ ReceiveRenewal(w) \/ RenewalFails(w)
    PROVE  Moved(w) /\ UNCHANGED <<vars, agent, crashes>>
<1>1. /\ FleetTypeOK /\ TypeOK /\ WorkerOK(w) /\ worker[w] \in WorkerRecords
      /\ worker[w].timer \in Nat /\ worker[w].deadline \in Nat /\ worker[w].renewAge \in Nat
  BY WorkerTyped DEF FleetInv, IInv
<1>2. UNCHANGED <<vars, agent, crashes>> /\ UNCHANGED jobs
  BY DEF SendRenewal, ReceiveRenewal, RenewalFails, vars
<1>3. Renewing(w) /\ HasJob(w)
  <2>1. Renewing(w)
    BY <1>1 DEF WorkerOK, ClocksOK, SendRenewal, ReceiveRenewal, RenewalFails
  <2> QED
    BY <2>1 DEF Renewing, HasJob
<1>4. ASSUME NEW done \in BOOLEAN, Become(w, Canceled(worker[w], done))
      PROVE  Moved(w)
  <2>1. Canceled(worker[w], done) \in WorkerRecords
    BY <1>1, CanceledRecord
  <2>2. worker'[w] = Canceled(worker[w], done)
    BY <1>1, <1>4 DEF Become, FleetTypeOK
  <2> QED
    BY <1>2, <1>4, <2>1, <2>2, CanceledIsOK DEF Moved
<1>5. ASSUME NEW renew \in { "none", "sent" }, NEW timer \in Nat, NEW deadline \in Nat,
             Become(w, [worker[w] EXCEPT !.renew = renew, !.renewAge = 0, !.timer = timer,
                                         !.deadline = deadline]),
             Executing(w) /\ Lifecycle(worker[w].job) =>
                /\ jobs[worker[w].job].left >= deadline - HttpTimeout /\ deadline <= LeaseTicks
                /\ renew = "none" => deadline >= safetyWindow + timer
                /\ renew = "sent" => deadline >= safetyWindow
      PROVE  Moved(w)
  <2> DEFINE rec == [worker[w] EXCEPT !.renew = renew, !.renewAge = 0, !.timer = timer,
                                      !.deadline = deadline]
  <2>1. /\ rec \in WorkerRecords /\ rec.pc = worker[w].pc
        /\ rec.job = worker[w].job /\ rec.token = worker[w].token
        /\ rec.req = worker[w].req /\ rec.age = worker[w].age
        /\ rec.renew = renew /\ rec.renewAge = 0 /\ rec.timer = timer /\ rec.deadline = deadline
        /\ rec.ok = worker[w].ok /\ rec.st = worker[w].st
    BY <1>1 DEF WorkerRecords
  <2> HIDE DEF rec
  <2>2. Become(w, rec) /\ worker'[w] = rec
    BY <1>1, <1>5 DEF rec, Become, FleetTypeOK
  <2>3. ClocksOK(w)'
    BY <1>1, <1>3, <2>1, <2>2, Durations DEF WorkerOK, ClocksOK, Waiting, Renewing
  <2>4. LeaseHeld(w)'
    <3>1. worker[w].pc # "acking" /\ (Executing(w)' <=> Executing(w)) /\ (Guards(w)' <=> Guards(w))
      BY <1>3, <2>1, <2>2 DEF Renewing, Executing, Guards
    <3>2. CASE Guards(w) /\ Lifecycle(worker[w].job)
      <4>1. Executing(w)
        BY <3>1, <3>2 DEF Guards
      <4>2. Current(w)' /\ jobs'[worker[w].job].status = "RUNNING"
        BY <1>1, <1>2, <2>1, <2>2, <3>2 DEF WorkerOK, LeaseHeld, Current
      <4>3. renew = "sent" => deadline + 0 >= safetyWindow
        BY <1>5, <3>2, <4>1, Durations
      <4> QED
        BY <1>2, <1>5, <2>1, <2>2, <3>1, <3>2, <4>1, <4>2, <4>3 DEF LeaseHeld
    <3> QED
      BY <1>2, <2>1, <2>2, <3>1, <3>2 DEF LeaseHeld, Lifecycle
  <2>5. ResultIsOwn(w)'
    BY <1>1, <1>2, <1>3, <2>1, <2>2 DEF WorkerOK, ResultIsOwn, Current, Stored
  <2>6. rec.pc \notin { "idle", "claiming", "undoing" }
    BY <1>3, <2>1 DEF Renewing
  <2> QED
    BY <1>2, <1>3, <2>1, <2>2, <2>3, <2>4, <2>5, <2>6, KeepsLease
<1>6. Executing(w) /\ Lifecycle(worker[w].job) =>
        /\ Guards(w) /\ jobs[worker[w].job].left \in Nat
        /\ jobs[worker[w].job].left >= worker[w].deadline - HttpTimeout
        /\ worker[w].deadline <= LeaseTicks
        /\ worker[w].renew = "none" => worker[w].deadline >= safetyWindow + worker[w].timer
        /\ worker[w].renew = "granted" =>
              jobs[worker[w].job].left >= LeaseTicks - worker[w].renewAge
  BY <1>1, GuardedIsLive DEF WorkerOK, LeaseHeld, Guards
<1>7. CASE SendRenewal(w)
  <2>1. /\ worker[w].renew = "none" /\ worker[w].timer = 0
        /\ Become(w, [worker[w] EXCEPT !.renew = "sent", !.renewAge = 0])
    BY <1>7 DEF SendRenewal
  <2>2. [worker[w] EXCEPT !.renew = "sent", !.renewAge = 0]
          = [worker[w] EXCEPT !.renew = "sent", !.renewAge = 0, !.timer = worker[w].timer,
                              !.deadline = worker[w].deadline]
    BY <1>1 DEF WorkerRecords
  <2>3. Executing(w) /\ Lifecycle(worker[w].job) => worker[w].deadline >= safetyWindow
    BY <1>1, <1>6, <2>1, Durations
  <2> QED
    BY <1>1, <1>2, <1>5, <1>6, <2>1, <2>2, <2>3
<1>8. CASE ReceiveRenewal(w)
  <2>1. CASE worker[w].renew = "granted"
    <3>1. Become(w, [worker[w] EXCEPT !.renew = "none", !.renewAge = 0,
                                      !.timer = RenewInterval, !.deadline = LeaseTicks])
      BY <1>8, <2>1 DEF ReceiveRenewal
    <3>2. worker[w].renewAge <= HttpTimeout
      BY <1>1, <2>1 DEF WorkerOK, ClocksOK
    <3>3. Executing(w) /\ Lifecycle(worker[w].job) =>
             jobs[worker[w].job].left >= LeaseTicks - HttpTimeout
      BY <1>1, <1>6, <2>1, <3>2, Durations
    <3>4. LeaseTicks >= safetyWindow + RenewInterval /\ LeaseTicks <= LeaseTicks
      BY Durations
    <3> QED
      BY <1>2, <1>5, <3>1, <3>3, <3>4, Durations
  <2> QED
    BY <1>2, <1>4, <1>8, <2>1 DEF ReceiveRenewal
<1>9. CASE RenewalFails(w)
  <2>1. CASE ~(RetryDelay > worker[w].deadline - safetyWindow)
    <3>1. Become(w, [worker[w] EXCEPT !.renew = "none", !.renewAge = 0, !.timer = RetryDelay])
      BY <1>9, <2>1 DEF RenewalFails
    <3>2. [worker[w] EXCEPT !.renew = "none", !.renewAge = 0, !.timer = RetryDelay]
            = [worker[w] EXCEPT !.renew = "none", !.renewAge = 0, !.timer = RetryDelay,
                                !.deadline = worker[w].deadline]
      BY <1>1 DEF WorkerRecords
    <3>3. worker[w].deadline >= safetyWindow + RetryDelay
      BY <1>1, <2>1, Durations
    <3> QED
      BY <1>1, <1>2, <1>5, <1>6, <3>1, <3>2, <3>3, Durations
  <2> QED
    BY <1>2, <1>4, <1>9, <2>1 DEF RenewalFails
<1> QED
  BY <1>2, <1>7, <1>8, <1>9

------------------------------------------------------------------------------
(* Requests of a worker that the control plane serves.                      *)

(* A served request moves its worker, and no lease of another one.           *)
Served(w) ==
    /\ \E rec \in WorkerRecords : Become(w, rec)
    /\ WorkerOK(w)' /\ UNCHANGED <<agent, crashes>> /\ [Next]_vars
    /\ \A v \in Workers \ {w} :
          /\ TouchedByOthers(v)
          /\ HasJob(w)' /\ HasJob(v) /\ worker'[w].job = worker[v].job =>
                worker'[w].token # worker[v].token

(* The holder of a lease meets no other holder.                             *)
LEMMA OthersUntouched ==
    ASSUME FleetInv, NEW w \in Workers, HasJob(w),
           \/ UNCHANGED jobs
           \/ Called(worker[w].job, worker[w].token) /\ Others(worker[w].job),
           worker'[w].job = worker[w].job, worker'[w].token = worker[w].token
    PROVE  \A v \in Workers \ {w} :
              /\ TouchedByOthers(v)
              /\ HasJob(w)' /\ HasJob(v) /\ worker'[w].job = worker[v].job =>
                    worker'[w].token # worker[v].token
<1> TAKE v \in Workers \ {w}
<1>1. HasJob(v) /\ worker[v].job = worker[w].job => worker[v].token # worker[w].token
  BY DEF FleetInv, TokensApart
<1>2. worker[w].token \in Nat
  BY WorkerTyped DEF FleetInv
<1>3. HasJob(v) => worker[v].job \in JobIds
  BY DEF FleetInv, WorkerOK, ClaimOK
<1> QED
  BY <1>1, <1>2, <1>3 DEF TouchedByOthers, Others

(* Its token is among those issued.                                         *)
LEMMA HolderIssued ==
    ASSUME FleetInv, NEW w \in Workers, HasJob(w), Leased(worker[w].job)
    PROVE  worker[w].job \in JobIds /\ worker[w].token \in Issued(worker[w].job)
<1>1. /\ worker[w].job \in JobIds /\ worker[w].token # NoToken /\ worker[w].token \in Nat
      /\ worker[w].token <= jobs[worker[w].job].attempts
  BY WorkerTyped DEF FleetInv, WorkerOK, ClaimOK, Leased
<1>2. jobs[worker[w].job].attempts \in Nat
  BY <1>1 DEF FleetInv, IInv, TypeOK, JobRecords
<1> QED
  BY <1>1, <1>2 DEF Issued, NoToken

(* ClaimJob for a worker.                                                   *)
LEMMA ClaimServed ==
    ASSUME FleetInv, NEW w \in Workers, NEW h \in Hosts, ServeClaim(w, h)
    PROVE  Served(w)
<1>1. /\ FleetTypeOK /\ TypeOK /\ RowsOK /\ WorkerOK(w) /\ worker[w] \in WorkerRecords
  BY WorkerTyped DEF FleetInv, IInv
<1>2. /\ worker[w].pc = "claiming" /\ worker[w].req = "sent" /\ UNCHANGED <<agent, crashes>>
      /\ worker[w].renew = "none" /\ worker[w].age <= HttpTimeout
  BY <1>1 DEF ServeClaim, WorkerOK, ClocksOK, Renewing, Waiting
<1>3. ASSUME Become(w, [worker[w] EXCEPT !.req = "refused"])
      PROVE  (\E rec \in WorkerRecords : Become(w, rec)) /\ WorkerOK(w)' /\ ~HasJob(w)'
  <2> DEFINE rec == [worker[w] EXCEPT !.req = "refused"]
  <2>1. /\ rec \in WorkerRecords /\ rec.pc = "claiming" /\ rec.req = "refused"
        /\ rec.renew = "none" /\ rec.age = worker[w].age
    BY <1>1, <1>2 DEF WorkerRecords
  <2> HIDE DEF rec
  <2>2. Become(w, rec) /\ worker'[w] = rec
    BY <1>1, <1>3 DEF rec, Become, FleetTypeOK
  <2>3. ~HasJob(w)' /\ ClocksOK(w)' /\ ~Guards(w)'
    BY <1>2, <2>1, <2>2 DEF HasJob, ClocksOK, Guards, Executing
  <2> QED
    BY <2>1, <2>2, <2>3 DEF WorkerOK, ClaimOK, LeaseHeld, ResultIsOwn
<1>4. CASE ClaimJob(h)
  <2>1. \A k \in JobIds : jobs'[k] = jobs[k] \/ FencedOff(k) \/ Taken(k)
    BY <1>1, <1>4, TakenRows
  <2>2. [Next]_vars
    BY <1>4 DEF Next, AgentStep
  <2>3. \A v \in Workers : TouchedByOthers(v)
    BY <2>1 DEF FleetInv, WorkerOK, ClaimOK, TouchedByOthers
  <2>4. ASSUME NEW j \in JobIds, jobs'[j].attempts > jobs[j].attempts,
               Become(w, [worker[w] EXCEPT !.req = "granted", !.job = j,
                                           !.token = jobs'[j].token])
        PROVE  Served(w)
    <3>1. jobs[j].attempts \in Nat /\ JobIds \subseteq Nat
      BY <1>1 DEF TypeOK, JobRecords, JobIds
    <3>2. Taken(j)
      BY <2>1, <2>4, <3>1 DEF FencedOff
    <3> DEFINE token == jobs'[j].token
               rec == [worker[w] EXCEPT !.req = "granted", !.job = j, !.token = token]
    <3>3. token \in Nat /\ token = jobs[j].attempts + 1
      BY <3>1, <3>2 DEF Taken
    <3>4. Become(w, rec)
      BY <2>4
    <3> HIDE DEF token
    <3>5. /\ rec \in WorkerRecords /\ rec.pc = "claiming" /\ rec.req = "granted"
          /\ rec.job = j /\ rec.token = token
          /\ rec.renew = "none" /\ rec.age = worker[w].age
      BY <1>1, <1>2, <3>1, <3>3 DEF WorkerRecords
    <3> HIDE DEF rec
    <3>6. worker'[w] = rec
      BY <1>1, <3>4 DEF Become, FleetTypeOK
    <3>7. ClaimOK(w)' /\ ClocksOK(w)' /\ ~Guards(w)' /\ ResultIsOwn(w)'
      <4>1. ClaimOK(w)'
        BY <3>1, <3>2, <3>3, <3>5, <3>6 DEF ClaimOK, Taken, NoToken, token, JobIds, Undoing
      <4>2. ClocksOK(w)' /\ ~Guards(w)'
        BY <1>2, <3>5, <3>6 DEF ClocksOK, Guards, Executing
      <4>3. ResultIsOwn(w)'
        BY <3>2, <3>5, <3>6 DEF ResultIsOwn, Taken, TerminalStatuses
      <4> QED
        BY <4>1, <4>2, <4>3
    <3>8. ASSUME NEW v \in Workers \ {w}, HasJob(v), worker'[w].job = worker[v].job
          PROVE  worker'[w].token # worker[v].token
      <4>1. worker[v].job = j /\ jobs[j].status # "GONE"
        BY <3>2, <3>5, <3>6, <3>8 DEF Taken, Expired, Leased
      <4>2. worker[v].token \in Nat /\ worker[v].token <= jobs[j].attempts
        BY <3>8, <4>1, WorkerTyped DEF FleetInv, WorkerOK, ClaimOK
      <4> QED
        BY <3>1, <3>3, <3>5, <3>6, <4>2
    <3>9. WorkerOK(w)'
      BY <3>7 DEF WorkerOK, LeaseHeld
    <3> QED
      BY <1>2, <2>2, <2>3, <3>4, <3>5, <3>8, <3>9 DEF Served
  <2>5. CASE Become(w, [worker[w] EXCEPT !.req = "refused"])
    BY <1>2, <1>3, <2>2, <2>3, <2>5 DEF Served
  <2> QED
    BY <1>4, <2>4, <2>5 DEF ServeClaim
<1>5. CASE UNCHANGED vars /\ Become(w, [worker[w] EXCEPT !.req = "refused"])
  BY <1>2, <1>3, <1>5 DEF Served, TouchedByOthers, vars
<1> QED
  BY <1>4, <1>5 DEF ServeClaim

(* AcknowledgeJob for a worker.                                             *)
LEMMA AckServed ==
    ASSUME FleetInv, NEW w \in Workers, ServeAck(w)
    PROVE  Served(w)
<1> DEFINE j == worker[w].job
           t == worker[w].token
<1>1. /\ FleetTypeOK /\ TypeOK /\ WorkerOK(w) /\ worker[w] \in WorkerRecords
      /\ worker[w].age \in Nat
  BY WorkerTyped DEF FleetInv, IInv
<1>2. /\ worker[w].pc = "acking" /\ worker[w].req = "sent" /\ UNCHANGED <<agent, crashes>>
      /\ worker[w].renew = "none" /\ worker[w].age <= HttpTimeout
      /\ HasJob(w) /\ j \in JobIds
  BY <1>1 DEF ServeAck, WorkerOK, ClocksOK, Renewing, Waiting, ClaimOK, HasJob
<1>3. ASSUME NEW req \in { "granted", "refused" }, Become(w, [worker[w] EXCEPT !.req = req])
      PROVE  \E rec \in WorkerRecords :
                /\ Become(w, rec) /\ worker'[w] = rec /\ rec.pc = "acking" /\ rec.req = req
                /\ rec.job = j /\ rec.token = t /\ rec.renew = "none" /\ rec.age = worker[w].age
  <2> DEFINE rec == [worker[w] EXCEPT !.req = req]
  <2>1. /\ rec \in WorkerRecords /\ rec.pc = "acking" /\ rec.req = req
        /\ rec.job = j /\ rec.token = t /\ rec.renew = "none" /\ rec.age = worker[w].age
    BY <1>1, <1>2 DEF WorkerRecords
  <2> HIDE DEF rec
  <2>2. Become(w, rec) /\ worker'[w] = rec
    BY <1>1, <1>3 DEF rec, Become, FleetTypeOK
  <2> QED
    BY <2>1, <2>2
<1>4. CASE AcknowledgeJob(j, t) /\ Become(w, [worker[w] EXCEPT !.req = "granted"])
  <2>1. PICK rec \in WorkerRecords :
           /\ Become(w, rec) /\ worker'[w] = rec /\ rec.pc = "acking" /\ rec.req = "granted"
           /\ rec.job = j /\ rec.token = t /\ rec.renew = "none" /\ rec.age = worker[w].age
    BY <1>3, <1>4
  <2>2. /\ Called(j, t) /\ Others(j)
        /\ jobs'[j].status = "RUNNING" /\ jobs'[j].left = LeaseTicks
    BY <1>1, <1>2, <1>4, AcknowledgedRow
  <2>3. t \in Issued(j)
    BY <1>2, <2>2, HolderIssued DEF Called
  <2>4. [Next]_vars
    BY <1>2, <1>4, <2>3 DEF Next, AgentStep
  <2>5. ClaimOK(w)'
    BY <1>1, <1>2, <2>1, <2>2 DEF WorkerOK, ClaimOK, Called, Leased, Undoing
  <2>6. ClocksOK(w)'
    BY <1>2, <2>1 DEF ClocksOK
  <2>7. LeaseHeld(w)'
    <3>1. LeaseTicks >= LeaseTicks - worker[w].age
      BY <1>1, Durations
    <3> QED
      BY <2>1, <2>2, <3>1 DEF LeaseHeld, Current, Called, Executing
  <2>8. ResultIsOwn(w)'
    BY <2>1, <2>2 DEF ResultIsOwn, TerminalStatuses
  <2> QED
    BY <1>2, <2>1, <2>2, <2>4, <2>5, <2>6, <2>7, <2>8, OthersUntouched DEF Served, WorkerOK
<1>5. CASE UNCHANGED vars /\ Become(w, [worker[w] EXCEPT !.req = "refused"])
  <2>1. PICK rec \in WorkerRecords :
           /\ Become(w, rec) /\ worker'[w] = rec /\ rec.pc = "acking" /\ rec.req = "refused"
           /\ rec.job = j /\ rec.token = t /\ rec.renew = "none" /\ rec.age = worker[w].age
    BY <1>3, <1>5
  <2>2. UNCHANGED jobs
    BY <1>5 DEF vars
  <2>3. ClaimOK(w)' /\ ClocksOK(w)'
    BY <1>1, <1>2, <2>1, <2>2 DEF WorkerOK, ClaimOK, ClocksOK, Undoing
  <2>4. LeaseHeld(w)'
    BY <2>1 DEF LeaseHeld, Guards, Executing
  <2>5. ResultIsOwn(w)'
    BY <1>1, <1>2, <2>1, <2>2 DEF WorkerOK, ResultIsOwn, Current
  <2> QED
    BY <1>2, <1>5, <2>1, <2>2, <2>3, <2>4, <2>5, OthersUntouched DEF Served, WorkerOK
<1> QED
  BY <1>4, <1>5 DEF ServeAck

(* CompleteJob for a worker: a result that is stored, or was stored before,  *)
(* is granted.                                                              *)
LEMMA CompletionServed ==
    ASSUME FleetInv, NEW w \in Workers, ServeCompletion(w)
    PROVE  Served(w)
<1> DEFINE j == worker[w].job
           t == worker[w].token
<1>1. /\ FleetTypeOK /\ TypeOK /\ WorkerOK(w) /\ worker[w] \in WorkerRecords
      /\ worker[w].ok \in BOOLEAN /\ worker[w].st \in Answers
  BY WorkerTyped DEF FleetInv, IInv, WorkerRecords
<1>2. /\ worker[w].pc \in { "completing", "detached" } /\ worker[w].req = "sent"
      /\ UNCHANGED <<agent, crashes>> /\ HasJob(w) /\ j \in JobIds
  BY <1>1 DEF ServeCompletion, WorkerOK, ClaimOK, HasJob
<1>3. ASSUME NEW req \in { "granted", "refused" }, Become(w, [worker[w] EXCEPT !.req = req])
      PROVE  \E rec \in WorkerRecords :
                /\ Become(w, rec) /\ worker'[w] = rec /\ rec.pc = worker[w].pc /\ rec.req = req
                /\ rec.job = j /\ rec.token = t /\ rec.age = worker[w].age
                /\ rec.renew = worker[w].renew /\ rec.renewAge = worker[w].renewAge
                /\ rec.ok = worker[w].ok /\ rec.st = worker[w].st
  <2> DEFINE rec == [worker[w] EXCEPT !.req = req]
  <2>1. /\ rec \in WorkerRecords /\ rec.pc = worker[w].pc /\ rec.req = req
        /\ rec.job = j /\ rec.token = t /\ rec.age = worker[w].age
        /\ rec.renew = worker[w].renew /\ rec.renewAge = worker[w].renewAge
        /\ rec.ok = worker[w].ok /\ rec.st = worker[w].st
    BY <1>1, <1>2 DEF WorkerRecords
  <2> HIDE DEF rec
  <2>2. Become(w, rec) /\ worker'[w] = rec
    BY <1>1, <1>3 DEF rec, Become, FleetTypeOK
  <2> QED
    BY <2>1, <2>2
<1>4. ASSUME NEW rec \in WorkerRecords, worker'[w] = rec, rec.pc = worker[w].pc,
             rec.req \in { "granted", "refused" }, rec.age = worker[w].age,
             rec.renew = worker[w].renew, rec.renewAge = worker[w].renewAge
      PROVE  ClocksOK(w)' /\ LeaseHeld(w)'
  <2>1. ClocksOK(w)'
    BY <1>1, <1>2, <1>4 DEF WorkerOK, ClocksOK, Waiting, Renewing
  <2>2. LeaseHeld(w)'
    BY <1>2, <1>4 DEF LeaseHeld, Guards, Executing
  <2> QED
    BY <2>1, <2>2
<1>5. CASE CompleteJob(j, t, worker[w].ok, worker[w].st)
           /\ Become(w, [worker[w] EXCEPT !.req = "granted"])
  <2>1. PICK rec \in WorkerRecords :
           /\ Become(w, rec) /\ worker'[w] = rec /\ rec.pc = worker[w].pc /\ rec.req = "granted"
           /\ rec.job = j /\ rec.token = t /\ rec.age = worker[w].age
           /\ rec.renew = worker[w].renew /\ rec.renewAge = worker[w].renewAge
           /\ rec.ok = worker[w].ok /\ rec.st = worker[w].st
    BY <1>3, <1>5
  <2>2. /\ Called(j, t) /\ Others(j) /\ jobs'[j].status \in TerminalStatuses
        /\ jobs'[j].result = Stored(worker[w])
    BY <1>1, <1>2, <1>5, CompletedRow DEF Stored
  <2>3. t \in Issued(j)
    BY <1>2, <2>2, HolderIssued DEF Called
  <2>4. [Next]_vars
    <3>1. worker[w].st \in InstanceStatuses \cup { "" }
      BY <1>1, Zenon DEF Answers
    <3>2. AgentStep
      BY <1>1, <1>2, <1>5, <2>3, <3>1, Zenon DEF AgentStep
    <3> QED
      BY <3>2 DEF Next
  <2>5. ClaimOK(w)'
    BY <1>1, <1>2, <2>1, <2>2 DEF WorkerOK, ClaimOK, Called, Leased, TerminalStatuses, Undoing
  <2>6. ResultIsOwn(w)'
    BY <1>2, <2>1, <2>2 DEF ResultIsOwn, Stored
  <2>7. \A v \in Workers \ {w} :
           /\ TouchedByOthers(v)
           /\ HasJob(w)' /\ HasJob(v) /\ worker'[w].job = worker[v].job =>
                 worker'[w].token # worker[v].token
    BY <1>2, <2>1, <2>2, OthersUntouched
  <2> QED
    BY <1>2, <1>4, <2>1, <2>4, <2>5, <2>6, <2>7 DEF Served, WorkerOK
<1>6. CASE UNCHANGED vars
           /\ Become(w, [worker[w] EXCEPT !.req = IF Answered(worker[w]) THEN "granted" ELSE "refused"])
  <2> DEFINE req == IF Answered(worker[w]) THEN "granted" ELSE "refused"
  <2>1. req \in { "granted", "refused" } /\ (Answered(worker[w]) => req = "granted")
        /\ Become(w, [worker[w] EXCEPT !.req = req])
    BY <1>6
  <2> HIDE DEF req
  <2>2. PICK rec \in WorkerRecords :
           /\ Become(w, rec) /\ worker'[w] = rec /\ rec.pc = worker[w].pc /\ rec.req = req
           /\ rec.job = j /\ rec.token = t /\ rec.age = worker[w].age
           /\ rec.renew = worker[w].renew /\ rec.renewAge = worker[w].renewAge
           /\ rec.ok = worker[w].ok /\ rec.st = worker[w].st
    BY <1>3, <2>1
  <2>3. UNCHANGED jobs
    BY <1>6 DEF vars
  <2>4. ClaimOK(w)'
    BY <1>1, <1>2, <2>2, <2>3 DEF WorkerOK, ClaimOK, Undoing
  <2>5. ResultIsOwn(w)'
    <3> SUFFICES ASSUME Current(w)', jobs'[j].status \in TerminalStatuses
                 PROVE  ResultIsOwn(w)'
      BY <2>2 DEF ResultIsOwn
    <3>1. jobs[j].result = Stored(worker[w]) /\ Current(w)
      BY <1>1, <1>2, <2>2, <2>3 DEF WorkerOK, ResultIsOwn, Current
    <3>2. Answered(worker[w])
      BY <2>3, <3>1 DEF Answered, Stored, Current
    <3> QED
      BY <1>2, <2>1, <2>2, <2>3, <3>1, <3>2 DEF ResultIsOwn, Stored
  <2>6. \A v \in Workers \ {w} :
           /\ TouchedByOthers(v)
           /\ HasJob(w)' /\ HasJob(v) /\ worker'[w].job = worker[v].job =>
                 worker'[w].token # worker[v].token
    BY <1>2, <2>2, <2>3, OthersUntouched
  <2>7. ClocksOK(w)' /\ LeaseHeld(w)'
    BY <1>4, <2>1, <2>2
  <2> QED
    BY <1>2, <1>6, <2>2, <2>4, <2>5, <2>6, <2>7 DEF Served, WorkerOK
<1> QED
  BY <1>5, <1>6 DEF ServeCompletion

(* RenewJob for a worker.                                                   *)
LEMMA RenewalServed ==
    ASSUME FleetInv, NEW w \in Workers, ServeRenewal(w)
    PROVE  Served(w)
<1> DEFINE j == worker[w].job
           t == worker[w].token
           ended == jobs[j].status \in TerminalStatuses /\ jobs[j].token = t
<1>1. /\ FleetTypeOK /\ TypeOK /\ WorkerOK(w) /\ worker[w] \in WorkerRecords
      /\ worker[w].renewAge \in Nat /\ worker[w].deadline \in Nat
  BY WorkerTyped DEF FleetInv, IInv
<1>2. /\ worker[w].renew = "sent" /\ UNCHANGED <<agent, crashes>>
      /\ Renewing(w) /\ HasJob(w) /\ j \in JobIds
  BY <1>1 DEF ServeRenewal, WorkerOK, ClocksOK, ClaimOK, HasJob, Renewing
<1>3. ASSUME NEW renew \in { "granted", "refused" }, Become(w, [worker[w] EXCEPT !.renew = renew])
      PROVE  \E rec \in WorkerRecords :
                /\ Become(w, rec) /\ worker'[w] = rec /\ rec.pc = worker[w].pc
                /\ rec.job = j /\ rec.token = t /\ rec.req = worker[w].req
                /\ rec.age = worker[w].age /\ rec.renew = renew
                /\ rec.renewAge = worker[w].renewAge /\ rec.timer = worker[w].timer
                /\ rec.deadline = worker[w].deadline
                /\ rec.ok = worker[w].ok /\ rec.st = worker[w].st
  <2> DEFINE rec == [worker[w] EXCEPT !.renew = renew]
  <2>1. /\ rec \in WorkerRecords /\ rec.pc = worker[w].pc
        /\ rec.job = j /\ rec.token = t /\ rec.req = worker[w].req
        /\ rec.age = worker[w].age /\ rec.renew = renew
        /\ rec.renewAge = worker[w].renewAge /\ rec.timer = worker[w].timer
        /\ rec.deadline = worker[w].deadline
        /\ rec.ok = worker[w].ok /\ rec.st = worker[w].st
    BY <1>1 DEF WorkerRecords
  <2> HIDE DEF rec
  <2>2. Become(w, rec) /\ worker'[w] = rec
    BY <1>1, <1>3 DEF rec, Become, FleetTypeOK
  <2> QED
    BY <2>1, <2>2
<1>4. worker[w].pc # "acking"
  BY <1>2 DEF Renewing
<1>5. CASE RenewJob(j, t) /\ Become(w, [worker[w] EXCEPT !.renew = "granted"])
  <2>1. PICK rec \in WorkerRecords :
           /\ Become(w, rec) /\ worker'[w] = rec /\ rec.pc = worker[w].pc
           /\ rec.job = j /\ rec.token = t /\ rec.req = worker[w].req
           /\ rec.age = worker[w].age /\ rec.renew = "granted"
           /\ rec.renewAge = worker[w].renewAge /\ rec.timer = worker[w].timer
           /\ rec.deadline = worker[w].deadline
           /\ rec.ok = worker[w].ok /\ rec.st = worker[w].st
    BY <1>3, <1>5
  <2>2. /\ Called(j, t) /\ Others(j)
        /\ jobs'[j].status = "RUNNING" /\ jobs'[j].left = LeaseTicks
    BY <1>1, <1>2, <1>5, RenewedRow
  <2>3. t \in Issued(j)
    BY <1>2, <2>2, HolderIssued DEF Called
  <2>4. [Next]_vars
    BY <1>2, <1>5, <2>3 DEF Next, AgentStep
  <2>5. ClaimOK(w)' /\ ClocksOK(w)'
    BY <1>1, <1>2, <2>1, <2>2 DEF WorkerOK, ClaimOK, ClocksOK, Called, Leased, Waiting, Renewing,
       Undoing
  <2>6. LeaseHeld(w)'
    <3> SUFFICES ASSUME Executing(w)', Lifecycle(j)' PROVE LeaseHeld(w)'
      BY <1>4, <2>1 DEF LeaseHeld, Guards
    <3>1. Executing(w) /\ Guards(w) /\ Lifecycle(j)
      BY <2>1, <2>2 DEF Executing, Guards, Called, Keeps, Lifecycle
    <3>2. worker[w].deadline <= LeaseTicks /\ worker[w].deadline + worker[w].renewAge >= safetyWindow
      BY <1>1, <1>2, <3>1 DEF WorkerOK, LeaseHeld
    <3>3. /\ LeaseTicks >= LeaseTicks - worker[w].renewAge
          /\ LeaseTicks >= worker[w].deadline - HttpTimeout
      BY <1>1, <3>2, Durations
    <3> QED
      BY <1>4, <2>1, <2>2, <3>2, <3>3 DEF LeaseHeld, Current, Called
  <2>7. ResultIsOwn(w)'
    BY <2>1, <2>2 DEF ResultIsOwn, TerminalStatuses
  <2>8. \A v \in Workers \ {w} :
           /\ TouchedByOthers(v)
           /\ HasJob(w)' /\ HasJob(v) /\ worker'[w].job = worker[v].job =>
                 worker'[w].token # worker[v].token
    BY <1>2, <2>1, <2>2, OthersUntouched
  <2> QED
    BY <1>2, <2>1, <2>4, <2>5, <2>6, <2>7, <2>8 DEF Served, WorkerOK
<1>6. CASE UNCHANGED vars
           /\ Become(w, [worker[w] EXCEPT !.renew = IF ended THEN "granted" ELSE "refused"])
  <2> DEFINE renew == IF ended THEN "granted" ELSE "refused"
  <2>1. /\ renew \in { "granted", "refused" } /\ (renew = "granted" => ended)
        /\ Become(w, [worker[w] EXCEPT !.renew = renew])
    BY <1>6
  <2> HIDE DEF renew
  <2>2. PICK rec \in WorkerRecords :
           /\ Become(w, rec) /\ worker'[w] = rec /\ rec.pc = worker[w].pc
           /\ rec.job = j /\ rec.token = t /\ rec.req = worker[w].req
           /\ rec.age = worker[w].age /\ rec.renew = renew
           /\ rec.renewAge = worker[w].renewAge /\ rec.timer = worker[w].timer
           /\ rec.deadline = worker[w].deadline
           /\ rec.ok = worker[w].ok /\ rec.st = worker[w].st
    BY <1>3, <2>1
  <2>3. UNCHANGED jobs
    BY <1>6 DEF vars
  <2>4. ClaimOK(w)' /\ ClocksOK(w)'
    BY <1>1, <1>2, <2>1, <2>2, <2>3 DEF WorkerOK, ClaimOK, ClocksOK, Waiting, Renewing, Undoing
  <2>5. LeaseHeld(w)'
    <3> SUFFICES ASSUME Executing(w)', Lifecycle(j)' PROVE LeaseHeld(w)'
      BY <1>4, <2>2 DEF LeaseHeld, Guards
    <3>1. Executing(w) /\ Guards(w) /\ Lifecycle(j)
      BY <2>2, <2>3 DEF Executing, Guards, Lifecycle
    <3>2. /\ Current(w) /\ jobs[j].status = "RUNNING"
          /\ jobs[j].left >= worker[w].deadline - HttpTimeout
          /\ worker[w].deadline <= LeaseTicks
          /\ worker[w].deadline + worker[w].renewAge >= safetyWindow
      BY <1>1, <1>2, <3>1 DEF WorkerOK, LeaseHeld
    <3>3. renew # "granted"
      BY <2>1, <3>2 DEF TerminalStatuses
    <3> QED
      BY <1>4, <2>1, <2>2, <2>3, <3>2, <3>3 DEF LeaseHeld, Current
  <2>6. ResultIsOwn(w)'
    BY <1>1, <1>2, <2>2, <2>3 DEF WorkerOK, ResultIsOwn, Current, Stored, HasJob
  <2>7. \A v \in Workers \ {w} :
           /\ TouchedByOthers(v)
           /\ HasJob(w)' /\ HasJob(v) /\ worker'[w].job = worker[v].job =>
                 worker'[w].token # worker[v].token
    BY <1>2, <2>2, <2>3, OthersUntouched
  <2> QED
    BY <1>2, <1>6, <2>2, <2>4, <2>5, <2>6, <2>7 DEF Served, WorkerOK
<1> QED
  BY <1>5, <1>6 DEF ServeRenewal

------------------------------------------------------------------------------
(* Every step keeps the invariant.                                         *)

(* The queue's own invariant is kept by any step of the queue.               *)
LEMMA StoreKept ==
    ASSUME FleetInv, [Next]_vars
    PROVE  IInv'
BY NextInvariant DEF FleetInv

(* A served request keeps it.                                               *)
LEMMA ServedKeeps ==
    ASSUME FleetInv, NEW w \in Workers, Served(w)
    PROVE  FleetInv'
<1>1. IInv'
  BY StoreKept DEF Served
<1>2. FleetTypeOK /\ TypeOK
  BY DEF FleetInv, IInv
<1>3. PICK rec \in WorkerRecords : Become(w, rec)
  BY DEF Served
<1>4. FleetTypeOK' /\ \A v \in Workers \ {w} : worker'[v] = worker[v]
  BY <1>2, <1>3 DEF Served, Become, FleetTypeOK
<1>5. \A v \in Workers : WorkerOK(v)'
  BY <1>2, <1>4, WorkerUnharmed DEF Served, FleetInv
<1>6. TokensApart'
  <2> SUFFICES ASSUME NEW v \in Workers, NEW u \in Workers, HasJob(v)', HasJob(u)',
                      worker'[v].job = worker'[u].job, worker'[v].token = worker'[u].token
               PROVE  v = u
    BY DEF TokensApart
  <2>1. CASE v = w \/ u = w
    BY <1>4, <2>1 DEF Served, HasJob
  <2>2. CASE v # w /\ u # w
    BY <1>4, <2>2 DEF FleetInv, TokensApart, HasJob
  <2> QED
    BY <2>1, <2>2
<1> QED
  BY <1>1, <1>4, <1>5, <1>6 DEF FleetInv

(* So does a step of a worker alone.                                        *)
LEMMA MovedKeeps ==
    ASSUME FleetInv, NEW w \in Workers, Moved(w), UNCHANGED <<vars, agent, crashes>>
    PROVE  FleetInv'
<1>1. UNCHANGED jobs /\ [Next]_vars
  BY DEF vars
<1>2. ASSUME NEW v \in Workers \ {w}
      PROVE  /\ TouchedByOthers(v)
             /\ HasJob(w)' /\ HasJob(v) /\ worker'[w].job = worker[v].job =>
                   worker'[w].token # worker[v].token
  BY <1>1 DEF Moved, KeepsJob, TouchedByOthers, FleetInv, TokensApart
<1>3. Served(w)
  BY <1>1, <1>2 DEF Served, Moved
<1> QED
  BY <1>3, ServedKeeps

(* A worker's record keeps its job while time passes.                       *)
LEMMA TickedRecord ==
    ASSUME FleetTypeOK, NEW w \in Workers,
           worker'[w] = [worker[w] EXCEPT !.age = IF Waiting(w) THEN @ + 1 ELSE @,
                                          !.renewAge = IF worker[w].renew = "none" THEN @ ELSE @ + 1,
                                          !.timer = Down(@), !.deadline = Down(@)]
    PROVE  /\ worker'[w] \in WorkerRecords
           /\ worker'[w].pc = worker[w].pc /\ worker'[w].job = worker[w].job
           /\ worker'[w].token = worker[w].token /\ worker'[w].req = worker[w].req
           /\ worker'[w].renew = worker[w].renew
           /\ worker'[w].ok = worker[w].ok /\ worker'[w].st = worker[w].st
           /\ worker'[w].age = IF Waiting(w) THEN worker[w].age + 1 ELSE worker[w].age
           /\ worker'[w].renewAge = IF worker[w].renew = "none" THEN worker[w].renewAge
                                                                ELSE worker[w].renewAge + 1
           /\ worker'[w].timer = Down(worker[w].timer)
           /\ worker'[w].deadline = Down(worker[w].deadline)
<1>1. /\ worker[w] \in WorkerRecords
      /\ worker[w].age \in Nat /\ worker[w].renewAge \in Nat /\ worker[w].timer \in Nat
      /\ worker[w].deadline \in Nat
  BY WorkerTyped
<1> DEFINE age == IF Waiting(w) THEN worker[w].age + 1 ELSE worker[w].age
           renewAge == IF worker[w].renew = "none" THEN worker[w].renewAge ELSE worker[w].renewAge + 1
           timer == Down(worker[w].timer)
           deadline == Down(worker[w].deadline)
<1>2. age \in Nat /\ renewAge \in Nat /\ timer \in Nat /\ deadline \in Nat
  BY <1>1 DEF Down
<1>3. worker'[w] = [worker[w] EXCEPT !.age = age, !.renewAge = renewAge, !.timer = timer,
                                     !.deadline = deadline]
  BY <1>1 DEF WorkerRecords
<1> HIDE DEF age, renewAge, timer, deadline
<1>4. /\ worker'[w] \in WorkerRecords
      /\ worker'[w].pc = worker[w].pc /\ worker'[w].job = worker[w].job
      /\ worker'[w].token = worker[w].token /\ worker'[w].req = worker[w].req
      /\ worker'[w].renew = worker[w].renew
      /\ worker'[w].ok = worker[w].ok /\ worker'[w].st = worker[w].st
      /\ worker'[w].age = age /\ worker'[w].renewAge = renewAge
      /\ worker'[w].timer = timer /\ worker'[w].deadline = deadline
  BY <1>1, <1>2, <1>3 DEF WorkerRecords
<1> QED
  BY <1>4 DEF age, renewAge, timer, deadline

(* Time takes as much from a lease as from its worker's deadline.           *)
LEMMA TickKeeps ==
    ASSUME FleetInv, FleetTick
    PROVE  FleetInv'
<1>1. FleetTypeOK /\ TypeOK /\ (Tick \/ UNCHANGED vars) /\ UNCHANGED <<agent, crashes>>
  BY DEF FleetInv, IInv, FleetTick
<1>2. [Next]_vars
  BY <1>1 DEF Next
<1>3. IInv'
  BY <1>2, StoreKept
<1>4. ASSUME NEW w \in Workers
      PROVE  worker'[w] \in WorkerRecords /\ WorkerOK(w)'
             /\ (HasJob(w)' <=> HasJob(w)) /\ worker'[w].job = worker[w].job
             /\ worker'[w].token = worker[w].token
  <2> DEFINE j == worker[w].job
  <2>1. /\ Waiting(w) => worker[w].age < HttpTimeout
        /\ worker[w].renew # "none" => worker[w].renewAge < HttpTimeout
        /\ Renewing(w) /\ worker[w].renew = "none" => worker[w].timer > 0
    BY DEF FleetTick
  <2>2. worker'[w] = [worker[w] EXCEPT !.age = IF Waiting(w) THEN @ + 1 ELSE @,
                                       !.renewAge = IF worker[w].renew = "none" THEN @ ELSE @ + 1,
                                       !.timer = Down(@), !.deadline = Down(@)]
    BY DEF FleetTick
  <2>3. /\ worker'[w] \in WorkerRecords
        /\ worker'[w].pc = worker[w].pc /\ worker'[w].job = worker[w].job
        /\ worker'[w].token = worker[w].token /\ worker'[w].req = worker[w].req
        /\ worker'[w].renew = worker[w].renew
        /\ worker'[w].ok = worker[w].ok /\ worker'[w].st = worker[w].st
        /\ worker'[w].age = IF Waiting(w) THEN worker[w].age + 1 ELSE worker[w].age
        /\ worker'[w].renewAge = IF worker[w].renew = "none" THEN worker[w].renewAge
                                                             ELSE worker[w].renewAge + 1
        /\ worker'[w].timer = Down(worker[w].timer)
        /\ worker'[w].deadline = Down(worker[w].deadline)
    BY <1>1, <2>2, TickedRecord
  <2>4. /\ worker[w].age \in Nat /\ worker[w].renewAge \in Nat /\ worker[w].timer \in Nat
        /\ worker[w].deadline \in Nat
    BY <1>1, WorkerTyped
  <2>5. /\ (HasJob(w)' <=> HasJob(w)) /\ (Guards(w)' <=> Guards(w))
        /\ (Executing(w)' <=> Executing(w)) /\ WorkerOK(w)
    BY <2>3 DEF HasJob, Guards, Executing, FleetInv
  <2>6. HasJob(w) => j \in JobIds
    BY <2>5 DEF WorkerOK, ClaimOK
  <2>7. ClaimOK(w)'
    BY <1>1, <2>3, <2>5, <2>6, TickedRow DEF WorkerOK, ClaimOK, Undoing, Keeps
  <2>8. ClocksOK(w)'
    BY <2>1, <2>3, <2>4, <2>5, Durations DEF WorkerOK, ClocksOK, Waiting, Renewing
  <2>9. LeaseHeld(w)'
    <3> SUFFICES ASSUME Guards(w), Lifecycle(j)' PROVE LeaseHeld(w)'
      BY <2>3, <2>5 DEF LeaseHeld
    <3>1. HasJob(w) /\ j \in JobIds
      BY <2>6 DEF Guards, Executing, HasJob
    <3>2. Lifecycle(j)
      BY <1>1, <2>3, <3>1, TickedRow DEF Lifecycle, Keeps
    <3>3. Live(j) /\ Current(w) /\ jobs[j].left \in Nat
      BY <1>1, <2>5, <3>2, GuardedIsLive
    <3>4. /\ jobs'[j].token = worker'[w].token /\ jobs'[j].status = "RUNNING"
          /\ jobs'[j].left >= jobs[j].left - 1
      BY <1>1, <2>3, <2>5, <3>1, <3>2, <3>3, TickedRow DEF WorkerOK, LeaseHeld, Current
    <3>5. jobs'[j].left \in Int
      BY <1>3, <3>1 DEF IInv, TypeOK, JobRecords
    <3>6. CASE Executing(w)
      <4>1. /\ jobs[j].left >= worker[w].deadline - HttpTimeout
            /\ worker[w].deadline <= LeaseTicks
            /\ worker[w].renew = "none" => worker[w].deadline >= safetyWindow + worker[w].timer
            /\ worker[w].renew # "none" => worker[w].deadline + worker[w].renewAge >= safetyWindow
            /\ worker[w].renew = "granted" => jobs[j].left >= LeaseTicks - worker[w].renewAge
        BY <2>5, <3>2, <3>6 DEF WorkerOK, LeaseHeld, Guards
      <4>2. worker[w].renew = "none" => worker[w].timer > 0
        BY <2>1, <3>6 DEF Renewing, Executing
      <4>3. worker[w].deadline > 0
        BY <2>1, <2>4, <4>1, <4>2, Durations
      <4>4. worker'[w].deadline = worker[w].deadline - 1
        BY <2>3, <2>4, <4>3 DEF Down
      <4>5. /\ jobs'[j].left >= worker'[w].deadline - HttpTimeout
            /\ worker'[w].deadline <= LeaseTicks
        BY <2>4, <3>3, <3>4, <3>5, <4>1, <4>4, Durations
      <4>6. worker'[w].renew = "none" => worker'[w].deadline >= safetyWindow + worker'[w].timer
        BY <2>3, <2>4, <4>1, <4>2, <4>4, Durations DEF Down
      <4>7. worker'[w].renew # "none" =>
               worker'[w].deadline + worker'[w].renewAge >= safetyWindow
        BY <2>3, <2>4, <4>1, <4>4, Durations
      <4>8. worker'[w].renew = "granted" => jobs'[j].left >= LeaseTicks - worker'[w].renewAge
        BY <2>3, <2>4, <3>3, <3>4, <3>5, <4>1, Durations
      <4>9. worker'[w].pc # "acking"
        BY <2>3, <3>6 DEF Executing
      <4> QED
        BY <2>3, <3>4, <4>5, <4>6, <4>7, <4>8, <4>9 DEF LeaseHeld, Current
    <3>7. CASE worker[w].pc = "acking" /\ worker[w].req = "granted"
      <4>1. jobs[j].left >= LeaseTicks - worker[w].age
        BY <2>5, <3>2, <3>7 DEF WorkerOK, LeaseHeld, Guards
      <4>2. worker'[w].age = worker[w].age + 1
        BY <2>3, <3>7 DEF Waiting
      <4>3. jobs'[j].left >= LeaseTicks - worker'[w].age
        BY <2>4, <3>3, <3>4, <3>5, <4>1, <4>2, Durations
      <4>4. ~Executing(w)'
        BY <2>3, <3>7 DEF Executing
      <4> QED
        BY <2>3, <3>4, <4>3, <4>4 DEF LeaseHeld, Current
    <3> QED
      BY <3>6, <3>7 DEF Guards
  <2>10. ResultIsOwn(w)'
    <3> SUFFICES ASSUME HasJob(w), Current(w)', jobs'[j].status \in TerminalStatuses
                 PROVE  ResultIsOwn(w)'
      BY <2>3, <2>5 DEF ResultIsOwn
    <3>1. /\ jobs'[j].status = jobs[j].status /\ jobs'[j].token = jobs[j].token
          /\ jobs'[j].result = jobs[j].result
      BY <1>1, <2>6, TickedRow
    <3>2. Current(w) /\ jobs[j].status \in TerminalStatuses
      BY <2>3, <3>1 DEF Current
    <3>3. /\ worker[w].pc \in { "completing", "detached" } /\ worker[w].req # "refused"
          /\ jobs[j].result = Stored(worker[w])
      BY <2>5, <3>2 DEF WorkerOK, ResultIsOwn
    <3> QED
      BY <2>3, <3>1, <3>3 DEF ResultIsOwn, Stored
  <2> QED
    BY <2>3, <2>5, <2>7, <2>8, <2>9, <2>10 DEF WorkerOK
<1>5. FleetTypeOK'
  <2>1. worker' = [w \in Workers |-> worker'[w]]
    BY DEF FleetTick
  <2> QED
    BY <1>1, <1>4, <2>1 DEF FleetTypeOK
<1>6. TokensApart'
  BY <1>4 DEF FleetInv, TokensApart
<1> QED
  BY <1>3, <1>4, <1>5, <1>6 DEF FleetInv

(* A step of a worker either stays on the host or is a request served.      *)
LEMMA WorkerStepForms ==
    ASSUME NEW w \in Workers, WorkerStep(w)
    PROVE  \/ Poll(w) \/ ReceiveClaim(w) \/ ReceiveAck(w) \/ ClaimFails(w)
           \/ FetchInput(w) \/ InstallVerified(w)
           \/ \E ok \in BOOLEAN : \E st \in Answers : ExecutionEnds(w, ok, st)
           \/ SendCompletion(w) \/ ReceiveCompletion(w) \/ CompletionFails(w) \/ DetachedGivesUp(w)
           \/ SendRenewal(w) \/ ReceiveRenewal(w) \/ RenewalFails(w)
           \/ RollbackEnds(w)
           \/ \E h \in Hosts : ServeClaim(w, h)
           \/ ServeAck(w) \/ ServeCompletion(w) \/ ServeRenewal(w)
BY Zenon DEF WorkerStep, Answers

(* Each of them keeps the invariant.                                        *)
LEMMA WorkerStepKeeps ==
    ASSUME FleetInv, NEW w \in Workers, WorkerStep(w)
    PROVE  FleetInv' /\ [Next]_vars
<1>1. CASE Moved(w) /\ UNCHANGED <<vars, agent, crashes>>
  BY <1>1, MovedKeeps DEF vars
<1>2. CASE Served(w)
  BY <1>2, ServedKeeps DEF Served
<1>3. CASE Poll(w) \/ ReceiveClaim(w) \/ ReceiveAck(w) \/ ClaimFails(w)
  BY <1>1, <1>3, ClaimMoves
<1>4. CASE \/ FetchInput(w) \/ InstallVerified(w)
           \/ \E ok \in BOOLEAN : \E st \in Answers : ExecutionEnds(w, ok, st)
  BY <1>1, <1>4, ExecutionMoves
<1>5. CASE SendCompletion(w) \/ ReceiveCompletion(w) \/ CompletionFails(w) \/ DetachedGivesUp(w)
  BY <1>1, <1>5, CompletionMoves
<1>6. CASE SendRenewal(w) \/ ReceiveRenewal(w) \/ RenewalFails(w)
  BY <1>1, <1>6, RenewalMoves
<1>7. CASE \E h \in Hosts : ServeClaim(w, h)
  BY <1>2, <1>7, ClaimServed
<1>8. CASE ServeAck(w)
  BY <1>2, <1>8, AckServed
<1>9. CASE ServeCompletion(w)
  BY <1>2, <1>9, CompletionServed
<1>10. CASE ServeRenewal(w)
  BY <1>2, <1>10, RenewalServed
<1>11. CASE RollbackEnds(w)
  BY <1>1, <1>11, Idles DEF RollbackEnds, FleetInv
<1> QED
  BY <1>3, <1>4, <1>5, <1>6, <1>7, <1>8, <1>9, <1>10, <1>11, WorkerStepForms

(* The control plane on its own takes no lease that a worker relies on.     *)
LEMMA ControlPlaneKeeps ==
    ASSUME FleetInv, ControlPlane
    PROVE  FleetInv' /\ [Next]_vars
<1>1. /\ QueueStep \/ OperatorStep \/ ServerStep
      /\ UNCHANGED <<worker, agent, crashes>> /\ FleetTypeOK /\ TypeOK /\ RowsOK
  BY DEF ControlPlane, agentVars, FleetInv, IInv
<1>2. [Next]_vars
  BY <1>1 DEF Next
<1>3. IInv'
  BY <1>2, StoreKept
<1>4. FleetTypeOK' /\ TokensApart'
  BY <1>1 DEF FleetInv, FleetTypeOK, TokensApart, HasJob
<1>5. ASSUME NEW w \in Workers
      PROVE  WorkerOK(w)'
  <2>1. WorkerOK(w) /\ worker'[w] = worker[w]
    BY <1>1 DEF FleetInv
  <2>2. HasJob(w) => worker[w].job \in JobIds
    BY <2>1 DEF WorkerOK, ClaimOK
  <2>3. TouchedByOthers(w)
    BY <1>1, <2>2, ControlPlaneRows DEF TouchedByOthers
  <2> QED
    BY <1>1, <2>1, <2>3, WorkerUnharmed
<1> QED
  BY <1>2, <1>3, <1>4, <1>5 DEF FleetInv

(* Workers that keep what they have, or lose it.                            *)
LEMMA DropsKeep ==
    ASSUME FleetInv, UNCHANGED vars,
           worker' \in [Workers -> WorkerRecords], agent' \in { "up", "draining" }, crashes' \in Nat,
           \A w \in Workers : worker'[w] = worker[w] \/ (WorkerOK(w)' /\ KeepsJob(w))
    PROVE  FleetInv' /\ [Next]_vars
<1>1. UNCHANGED jobs /\ [Next]_vars
  BY DEF vars
<1>2. IInv' /\ FleetTypeOK'
  BY <1>1, StoreKept DEF FleetTypeOK
<1>3. ASSUME NEW w \in Workers
      PROVE  WorkerOK(w)' /\ KeepsJob(w)
  <2>1. CASE worker'[w] = worker[w]
    <3>1. WorkerOK(w) /\ FleetTypeOK /\ TypeOK /\ TouchedByOthers(w)
      BY <1>1 DEF FleetInv, IInv, TouchedByOthers
    <3> QED
      BY <2>1, <3>1, WorkerUnharmed DEF KeepsJob, HasJob
  <2> QED
    BY <2>1
<1>4. TokensApart'
  BY <1>3 DEF FleetInv, TokensApart, KeepsJob
<1> QED
  BY <1>1, <1>2, <1>3, <1>4 DEF FleetInv

(* Shutdown, the end of the drain period, restart and crash.                *)
LEMMA HostKeeps ==
    ASSUME FleetInv, Shutdown \/ GracePeriodEnds \/ Restart \/ Crash
    PROVE  FleetInv' /\ [Next]_vars
<1>1. FleetTypeOK
  BY DEF FleetInv
<1>2. CASE Shutdown \/ Restart
  <2>1. /\ UNCHANGED vars /\ worker' = worker
        /\ agent' \in { "up", "draining" } /\ crashes' \in Nat
    BY <1>1, <1>2 DEF Shutdown, Restart, FleetTypeOK
  <2>2. worker' \in [Workers -> WorkerRecords] /\ \A w \in Workers : worker'[w] = worker[w]
    BY <1>1, <2>1 DEF FleetTypeOK
  <2> QED
    BY <2>1, <2>2, DropsKeep
<1>3. CASE GracePeriodEnds
  <2>1. PICK done \in SUBSET Workers :
          worker' = [w \in Workers |->
                       IF Renewing(w) THEN Canceled(worker[w], w \in done) ELSE worker[w]]
    BY <1>3 DEF GracePeriodEnds
  <2>2. /\ UNCHANGED vars /\ UNCHANGED jobs
        /\ agent' \in { "up", "draining" } /\ crashes' \in Nat
    BY <1>1, <1>3 DEF GracePeriodEnds, FleetTypeOK, vars
  <2>3. ASSUME NEW w \in Workers
        PROVE  /\ worker'[w] \in WorkerRecords
               /\ worker'[w] = worker[w] \/ (WorkerOK(w)' /\ KeepsJob(w))
    <3>1. CASE worker'[w] = worker[w]
      BY <1>1, <3>1 DEF FleetTypeOK
    <3>2. CASE worker'[w] = Canceled(worker[w], w \in done)
      <4>1. (w \in done) \in BOOLEAN
        OBVIOUS
      <4>2. PICK d \in BOOLEAN : worker'[w] = Canceled(worker[w], d)
        BY <3>2, <4>1, Zenon
      <4> QED
        BY <1>1, <2>2, <4>2, CanceledRecord, CanceledIsOK DEF FleetInv, IInv
    <3> QED
      BY <2>1, <3>1, <3>2
  <2>4. worker' \in [Workers -> WorkerRecords]
    <3>1. worker' = [w \in Workers |-> worker'[w]]
      BY <2>1
    <3> QED
      BY <2>3, <3>1
  <2> QED
    BY <2>2, <2>3, <2>4, DropsKeep
<1>4. CASE Crash
  <2>1. /\ UNCHANGED vars /\ worker' = [w \in Workers |-> IdleWorker]
        /\ agent' \in { "up", "draining" } /\ crashes' \in Nat
    BY <1>1, <1>4 DEF Crash, FleetTypeOK
  <2>2. \A w \in Workers : WorkerOK(w)' /\ KeepsJob(w)
    BY <2>1, IdleIsOK
  <2>3. worker' \in [Workers -> WorkerRecords]
    BY <2>1, IdleRecord
  <2> QED
    BY <2>1, <2>2, <2>3, DropsKeep
<1> QED
  BY <1>2, <1>3, <1>4

(* No worker has a job at first.                                            *)
LEMMA FleetInitInvariant == FleetInit => FleetInv
<1> SUFFICES ASSUME FleetInit PROVE FleetInv
  OBVIOUS
<1>1. IInv
  BY InitInvariant DEF FleetInit
<1>2. \A w \in Workers : worker[w] = IdleWorker
  BY DEF FleetInit
<1>3. FleetTypeOK
  BY IdleRecord DEF FleetInit, FleetTypeOK
<1>4. TokensApart
  BY <1>2, IdleRecord DEF TokensApart, HasJob
<1>5. \A w \in Workers : WorkerOK(w)
  BY <1>2, IdleRecord DEF WorkerOK, ClaimOK, ClocksOK, LeaseHeld, ResultIsOwn, HasJob, Guards,
     Executing, Waiting, Renewing
<1> QED
  BY <1>1, <1>3, <1>4, <1>5 DEF FleetInv

(* Every step of agent and control plane keeps the invariant, and is a step  *)
(* of the queue, or none.                                                   *)
LEMMA FleetNextInvariant == FleetInv /\ [FleetNext]_fleetVars => FleetInv' /\ [Next]_vars
<1> SUFFICES ASSUME FleetInv, [FleetNext]_fleetVars PROVE FleetInv' /\ [Next]_vars
  OBVIOUS
<1>1. CASE ControlPlane
  BY <1>1, ControlPlaneKeeps
<1>2. CASE \E w \in Workers : WorkerStep(w)
  BY <1>2, WorkerStepKeeps
<1>3. CASE Shutdown \/ GracePeriodEnds \/ Restart \/ Crash
  BY <1>3, HostKeeps
<1>4. CASE FleetTick
  BY <1>4, TickKeeps DEF FleetTick, Next
<1>5. CASE UNCHANGED fleetVars
  <2>1. UNCHANGED vars /\ worker' = worker /\ agent' = agent /\ crashes' = crashes
    BY <1>5 DEF fleetVars, agentVars
  <2>2. /\ worker' \in [Workers -> WorkerRecords] /\ agent' \in { "up", "draining" }
        /\ crashes' \in Nat /\ \A w \in Workers : worker'[w] = worker[w]
    BY <2>1 DEF FleetInv, FleetTypeOK
  <2> QED
    BY <2>1, <2>2, DropsKeep
<1> QED
  BY <1>1, <1>2, <1>3, <1>4, <1>5 DEF FleetNext

------------------------------------------------------------------------------
(* Theorems.                                                               *)

(* Every worker's job, clocks, lease and result stand as FleetInv says, in  *)
(* every reachable state of agent and queue.                                *)
THEOREM FleetInvariance == FleetSpec => []FleetInv
BY FleetInitInvariant, FleetNextInvariant, PTL DEF FleetSpec

(* The Host Agent is one of the environments that JobStore allows: whatever  *)
(* its module promises for any holder of any token holds beside the agent.  *)
THEOREM FleetUsesStore == FleetSpec => Spec
<1>1. FleetInit => Init
  BY DEF FleetInit
<1> QED
  BY <1>1, FleetInvariance, FleetNextInvariant, PTL DEF FleetSpec, Spec

(* runLeaseRenewalLoop: a worker that executes a lifecycle job, or rolls it  *)
(* back, holds its unexpired lease, unless it is an MCP configuration or a  *)
(* restore, canceled, that is being rolled back.                            *)
THEOREM ExecutionUnderLease == FleetSpec => []ExecutesUnderLease
<1>1. FleetInv => ExecutesUnderLease
  <2> SUFFICES ASSUME FleetInv PROVE ExecutesUnderLease
    OBVIOUS
  <2>1. ASSUME NEW w \in Workers, Executing(w), Lifecycle(worker[w].job)
        PROVE  Live(worker[w].job) /\ jobs[worker[w].job].token = worker[w].token
    BY <2>1, GuardedIsLive DEF FleetInv, IInv, Guards, Current
  <2>2. ASSUME NEW w \in Workers, Undoing(w)
        PROVE  jobs[worker[w].job].type \in DetachedRollbackTypes
    BY <2>2 DEF FleetInv, WorkerOK, ClaimOK, HasJob, Undoing
  <2> QED
    BY <2>1, <2>2 DEF ExecutesUnderLease
<1> QED
  BY <1>1, FleetInvariance, PTL

(* completeJob: a worker whose result is stored is never told that it lost  *)
(* the lease.                                                               *)
THEOREM OwnResultAnswered == FleetSpec => []OwnResultIsAnswered
<1>1. FleetInv => OwnResultIsAnswered
  BY DEF FleetInv, WorkerOK, ResultIsOwn, Current, HasJob, OwnResultIsAnswered
<1> QED
  BY <1>1, FleetInvariance, PTL

------------------------------------------------------------------------------
(* The abstract steps, job by job: what ExclusiveExecution sees of a step.  *)

SameJob(k) ==
    Phase(k)' = Phase(k) /\ Target(k)' = Target(k) /\ Lasting(k)' = Lasting(k)
SameWorkers(k) == Runners(k)' = Runners(k) /\ Undoers(k)' = Undoers(k)

AbstractVars ==
    <<[j \in JobIds |-> Phase(j)], [j \in JobIds |-> Target(j)], [j \in JobIds |-> Lasting(j)],
      [j \in JobIds |-> Runners(j)], [j \in JobIds |-> Undoers(j)]>>

(* A job is queued.                                                         *)
LEMMA Submits ==
    ASSUME NEW j \in JobIds, NEW i \in Instances, NEW lasts \in BOOLEAN,
           Phase(j) = "none", Phase(j)' = "open", Target(j)' = i, Lasting(j)' = lasts,
           \A k \in JobIds \ {j} : SameJob(k), \A k \in JobIds : SameWorkers(k)
    PROVE  Abstract!Next
<1>1. Abstract!Submit(j, i, lasts)
  BY DEF Abstract!Submit, SameJob, SameWorkers
<1> QED
  BY <1>1 DEF Abstract!Next

(* A worker takes up a job.                                                 *)
LEMMA Starts ==
    ASSUME NEW j \in JobIds, NEW w \in Workers, Phase(j) = "open",
           \A k \in JobIds : Target(k) = Target(j) => Runners(k) = {},
           \A k \in JobIds : SameJob(k), Runners(j)' = {w}, Undoers(j)' = Undoers(j),
           \A k \in JobIds \ {j} : SameWorkers(k)
    PROVE  Abstract!Next
<1>1. Abstract!Start(j, w)
  BY DEF Abstract!Start, SameJob, SameWorkers
<1> QED
  BY <1>1 DEF Abstract!Next

(* Workers leave their jobs, some of them with a rollback to do.            *)
LEMMA Stops ==
    ASSUME NEW W \in SUBSET Workers, NEW R \in SUBSET W,
           \A k \in JobIds : /\ SameJob(k) /\ Runners(k)' = Runners(k) \ W
                             /\ Undoers(k)' = (Undoers(k) \ W) \cup (Runners(k) \cap R)
                             /\ Runners(k) \cap R # {} => Lasting(k)
    PROVE  Abstract!Next
<1>1. Abstract!Stop(W, R)
  BY DEF Abstract!Stop, SameJob
<1> QED
  BY <1>1 DEF Abstract!Next

Ends(k) ==
    /\ Phase(k) = "open" /\ Phase(k)' = "ended"
    /\ Target(k)' = Target(k) /\ Lasting(k)' = Lasting(k)

(* Some jobs end, with nobody at them.                                      *)
LEMMA Settles ==
    ASSUME \A k \in JobIds : SameWorkers(k) /\ (SameJob(k) \/ (Ends(k) /\ Runners(k) = {}))
    PROVE  [Abstract!Next]_AbstractVars
<1> DEFINE K == { k \in JobIds : ~SameJob(k) }
<1>1. CASE K = {}
  BY <1>1 DEF AbstractVars, SameJob, SameWorkers
<1>2. CASE K # {}
  <2>1. Abstract!End(K)
    BY <1>2 DEF Abstract!End, SameJob, SameWorkers, Ends
  <2> QED
    BY <2>1 DEF Abstract!Next
<1> QED
  BY <1>1, <1>2

(* A worker that executes a lifecycle job does so under its live lease, and  *)
(* no other worker does.                                                    *)
LEMMA RunnerHolds ==
    ASSUME FleetInv, NEW k \in JobIds, NEW w \in Runners(k)
    PROVE  /\ w \in Workers /\ Executing(w) /\ HasJob(w) /\ worker[w].job = k
           /\ Lifecycle(k) /\ Live(k) /\ Active(k) /\ Current(w) /\ jobs[k].left \in Nat
           /\ \A v \in Workers : HasJob(v) /\ worker[v].job = k /\ Current(v) => v = w
<1>1. w \in Workers /\ Executing(w) /\ worker[w].job = k /\ Lifecycle(k)
  BY DEF Runners
<1>2. TypeOK /\ FleetTypeOK /\ WorkerOK(w) /\ Guards(w)
  BY <1>1 DEF FleetInv, IInv, Guards
<1>3. Live(k) /\ Current(w) /\ jobs[k].left \in Nat /\ HasJob(w)
  BY <1>1, <1>2, GuardedIsLive
<1>4. Active(k)
  BY <1>3 DEF Live, Leased, Active, ActiveStatuses
<1>5. \A v \in Workers : HasJob(v) /\ worker[v].job = k /\ Current(v) => v = w
  BY <1>1, <1>3 DEF FleetInv, TokensApart, Current
<1> QED
  BY <1>1, <1>3, <1>4, <1>5

(* Nobody is at a job whose lease ran out.                                  *)
LEMMA ExpiredIsIdle ==
    ASSUME FleetInv, NEW k \in JobIds, Expired(k)
    PROVE  Runners(k) = {}
<1> SUFFICES ASSUME NEW w \in Runners(k) PROVE FALSE
  OBVIOUS
<1> QED
  BY RunnerHolds DEF Expired

Answering(k) == jobs'[k].status \in TerminalStatuses /\ \E t \in Nat : Called(k, t)

(* What the rows of jobs mean for the abstract queue: nothing, or the end   *)
(* of a job that was given up or reported.                                  *)
LEMMA RowsMapped ==
    ASSUME TypeOK, NEW k \in JobIds,
           \/ jobs'[k] = jobs[k] \/ FencedOff(k) \/ Vanished(k) \/ Taken(k)
           \/ \E t \in Nat : Called(k, t)
    PROVE  /\ Lifecycle(k)' <=> Lifecycle(k)
           /\ SameJob(k) \/ (Ends(k) /\ (Expired(k) \/ Answering(k)))
<1>1. CASE jobs'[k] = jobs[k]
  BY <1>1 DEF SameJob, Phase, Target, Lasting, Lifecycle, Active
<1>2. CASE FencedOff(k)
  <2>1. /\ Lifecycle(k)' <=> Lifecycle(k)
        /\ Target(k)' = Target(k) /\ Lasting(k)' = Lasting(k)
    BY <1>2 DEF FencedOff, Lifecycle, Keeps, Target, Lasting
  <2>2. ~Active(k)' /\ Active(k) /\ (Expired(k) \/ ~Lifecycle(k))
    BY <1>2 DEF FencedOff, Active, ActiveStatuses
  <2> QED
    BY <2>1, <2>2 DEF SameJob, Ends, Phase
<1>3. CASE Vanished(k)
  BY <1>3, NotLifecycle DEF Vanished, Chat, SameJob, Phase, Target, Lasting, Lifecycle
<1>4. CASE Taken(k)
  <2>1. /\ Lifecycle(k)' <=> Lifecycle(k)
        /\ Target(k)' = Target(k) /\ Lasting(k)' = Lasting(k)
    BY <1>4 DEF Taken, Lifecycle, Keeps, Target, Lasting
  <2>2. Active(k)' /\ Active(k)
    BY <1>4 DEF Taken, Expired, Leased, Active, ActiveStatuses
  <2> QED
    BY <2>1, <2>2 DEF SameJob, Phase
<1>5. CASE \E t \in Nat : Called(k, t)
  <2>1. /\ Lifecycle(k)' <=> Lifecycle(k)
        /\ Target(k)' = Target(k) /\ Lasting(k)' = Lasting(k)
    BY <1>5 DEF Called, Lifecycle, Keeps, Target, Lasting
  <2>2. Active(k) /\ jobs'[k].status \in { "RUNNING", "SUCCEEDED", "FAILED" }
    BY <1>5 DEF Called, Leased, Active, ActiveStatuses
  <2>3. CASE jobs'[k].status = "RUNNING"
    BY <2>1, <2>2, <2>3 DEF SameJob, Phase, Active, ActiveStatuses
  <2>4. CASE jobs'[k].status \in { "SUCCEEDED", "FAILED" }
    <3>1. ~Active(k)' /\ Answering(k)
      BY <1>5, <2>4 DEF Active, ActiveStatuses, Answering, TerminalStatuses
    <3> QED
      BY <2>1, <2>2, <3>1 DEF SameJob, Ends, Phase
  <2> QED
    BY <2>2, <2>3, <2>4
<1> QED
  BY <1>1, <1>2, <1>3, <1>4, <1>5

(* Workers that go on as they are.                                          *)
GoesOn(w) ==
    /\ (Executing(w)' <=> Executing(w)) /\ (Undoing(w)' <=> Undoing(w))
    /\ Executing(w) \/ Undoing(w) => worker'[w].job = worker[w].job

(* No job is left or taken up by workers that go on.                        *)
LEMMA RunnersStay ==
    ASSUME \A w \in Workers : GoesOn(w), NEW k \in JobIds, Lifecycle(k)' <=> Lifecycle(k)
    PROVE  SameWorkers(k)
BY DEF GoesOn, SameWorkers, Runners, Undoers

(* Rows change as the calls allow while the workers go on: a step in which   *)
(* jobs end, or none.                                                       *)
LEMMA QueueMaps ==
    ASSUME FleetInv, \A w \in Workers : GoesOn(w),
           \A k \in JobIds : \/ jobs'[k] = jobs[k] \/ FencedOff(k) \/ Vanished(k) \/ Taken(k)
                             \/ \E t \in Nat : Called(k, t),
           \A k \in JobIds : Answering(k) => Runners(k) = {}
    PROVE  [Abstract!Next]_AbstractVars
<1>1. TypeOK
  BY DEF FleetInv, IInv
<1>2. ASSUME NEW k \in JobIds
      PROVE  SameWorkers(k) /\ (SameJob(k) \/ (Ends(k) /\ Runners(k) = {}))
  <2>1. /\ Lifecycle(k)' <=> Lifecycle(k)
        /\ SameJob(k) \/ (Ends(k) /\ (Expired(k) \/ Answering(k)))
    BY <1>1, RowsMapped
  <2> QED
    BY <2>1, RunnersStay, ExpiredIsIdle
<1> QED
  BY <1>2, Settles

(* The control plane queues a job, or takes some away from nobody.          *)
LEMMA ControlPlaneMaps ==
    ASSUME FleetInv, TableRows, ControlPlane
    PROVE  [Abstract!Next]_AbstractVars
<1>1. /\ QueueStep \/ OperatorStep \/ ServerStep
      /\ worker' = worker /\ TypeOK /\ RowsOK
  BY DEF ControlPlane, agentVars, FleetInv, IInv
<1>2. \A w \in Workers : GoesOn(w)
  BY <1>1 DEF GoesOn, Executing, Undoing
<1>3. CASE \E j \in JobIds : Entered(j) /\ Others(j)
  <2>1. PICK j \in JobIds : Entered(j) /\ Others(j)
    BY <1>3
  <2>2. jobs[j].status = "NONE" /\ jobs'[j].status = "PENDING" /\ jobs'[j].inst \in Instances
    BY <2>1 DEF Entered
  <2>3. ~Lifecycle(j) /\ Phase(j) = "none" /\ Target(j) = NoOne
    BY <2>2, NotLifecycle DEF TableRows, OperationRow, Lifecycle, Phase, Target
  <2>4. \A k \in JobIds \ {j} : SameJob(k) /\ (Lifecycle(k)' <=> Lifecycle(k))
    BY <2>1 DEF Others, SameJob, Phase, Target, Lasting, Lifecycle, Active
  <2>5. \A k \in JobIds \ {j} : SameWorkers(k)
    BY <1>2, <2>4, RunnersStay
  <2>6. Runners(j) = {} /\ Undoers(j) = {}
    BY <2>3 DEF Runners, Undoers
  <2>7. Runners(j)' = {} /\ Undoers(j)' = {}
    <3> SUFFICES ASSUME NEW w \in Workers, Executing(w)' \/ Undoing(w)', worker'[w].job = j
                 PROVE  FALSE
      BY DEF Runners, Undoers
    <3>1. (Executing(w) \/ Undoing(w)) /\ worker[w].job = j /\ WorkerOK(w)
      BY <1>1 DEF Executing, Undoing, FleetInv
    <3> QED
      BY <2>2, <3>1 DEF WorkerOK, ClaimOK, HasJob, Executing, Undoing
  <2>8. \A k \in JobIds : SameWorkers(k)
    BY <2>5, <2>6, <2>7 DEF SameWorkers
  <2>9. CASE Lifecycle(j)'
    <3>1. Phase(j)' = "open" /\ Target(j)' = jobs'[j].inst
      BY <2>2, <2>9 DEF Phase, Target, Active, ActiveStatuses
    <3>2. Lasting(j)' \in BOOLEAN
      BY DEF Lasting
    <3> QED
      BY <2>2, <2>3, <2>4, <2>8, <3>1, <3>2, Submits
  <2>10. CASE ~Lifecycle(j)'
    <3>1. SameJob(j)
      BY <2>3, <2>10 DEF SameJob, Phase, Target, Lasting
    <3> QED
      BY <2>4, <2>8, <3>1, Settles
  <2> QED
    BY <2>9, <2>10
<1>4. CASE \A k \in JobIds : jobs'[k] = jobs[k] \/ FencedOff(k) \/ Vanished(k)
  <2>1. \A k \in JobIds : Answering(k) => Runners(k) = {}
    <3> SUFFICES ASSUME NEW k \in JobIds, Answering(k) PROVE FALSE
      OBVIOUS
    <3>1. /\ Leased(k) /\ jobs'[k].status \in TerminalStatuses
          /\ jobs'[k].token = jobs[k].token /\ jobs[k].token # NoToken
      BY DEF Answering, Called, Holds
    <3> QED
      BY <1>4, <3>1 DEF FencedOff, Vanished, Leased, TerminalStatuses
  <2> QED
    BY <1>2, <1>4, <2>1, QueueMaps
<1> QED
  BY <1>1, <1>3, <1>4, EnteredRows, TakenAwayRows

(* The control plane serves a request of a worker.                          *)
LEMMA ServedMaps ==
    ASSUME FleetInv, NEW w \in Workers,
           \/ \E h \in Hosts : ServeClaim(w, h)
           \/ ServeAck(w) \/ ServeCompletion(w) \/ ServeRenewal(w)
    PROVE  [Abstract!Next]_AbstractVars
<1> DEFINE j == worker[w].job
           t == worker[w].token
<1>1. TypeOK /\ RowsOK /\ FleetTypeOK /\ t \in Nat /\ WorkerOK(w) /\ worker[w] \in WorkerRecords
  BY WorkerTyped DEF FleetInv, IInv
<1>2. ASSUME NEW rec \in WorkerRecords, Become(w, rec), rec.pc = worker[w].pc, rec.job = j
      PROVE  \A v \in Workers : GoesOn(v)
  <2>1. worker'[w] = rec /\ \A v \in Workers \ {w} : worker'[v] = worker[v]
    BY <1>1, <1>2 DEF Become, FleetTypeOK
  <2> QED
    BY <1>2, <2>1 DEF GoesOn, Executing, Undoing
<1>3. ASSUME UNCHANGED vars, \A v \in Workers : GoesOn(v)
      PROVE  [Abstract!Next]_AbstractVars
  <2>1. \A k \in JobIds : jobs'[k] = jobs[k]
    BY <1>3 DEF vars
  <2>2. \A k \in JobIds : ~Answering(k) \/ Runners(k) = {}
    BY <2>1 DEF Answering, Called, Leased, TerminalStatuses
  <2> QED
    BY <1>3, <2>1, <2>2, QueueMaps
<1>4. ASSUME Called(j, t), Others(j), HasJob(w), ~Executing(w) \/ jobs'[j].status = "RUNNING",
             \A v \in Workers : GoesOn(v)
      PROVE  [Abstract!Next]_AbstractVars
  <2>1. \A k \in JobIds : jobs'[k] = jobs[k] \/ \E u \in Nat : Called(k, u)
    BY <1>1, <1>4 DEF Others
  <2>2. ASSUME NEW k \in JobIds, Answering(k), NEW v \in Runners(k)
        PROVE  FALSE
    <3>1. k = j
      BY <1>4, <2>2 DEF Others, Answering, Called, Leased, TerminalStatuses
    <3>2. Current(w) /\ ~Executing(w)
      BY <1>4, <2>2, <3>1 DEF Called, Holds, Current, Answering, TerminalStatuses
    <3> QED
      BY <1>4, <2>2, <3>1, <3>2, RunnerHolds
  <2> QED
    BY <1>4, <2>1, <2>2, QueueMaps
<1>5. ASSUME NEW h \in Hosts, ServeClaim(w, h)
      PROVE  [Abstract!Next]_AbstractVars
  <2>1. \A v \in Workers : GoesOn(v)
    <3>1. worker[w].pc = "claiming" /\ \A v \in Workers \ {w} : worker'[v] = worker[v]
      BY <1>1, <1>5 DEF ServeClaim, Become, FleetTypeOK
    <3>2. worker'[w].pc = "claiming"
      BY <1>1, <1>5 DEF ServeClaim, Become, FleetTypeOK, WorkerRecords
    <3> QED
      BY <3>1, <3>2 DEF GoesOn, Executing, Undoing
  <2>2. CASE ClaimJob(h)
    <3>1. \A k \in JobIds : jobs'[k] = jobs[k] \/ FencedOff(k) \/ Taken(k)
      BY <1>1, <2>2, TakenRows
    <3>2. ASSUME NEW k \in JobIds, Answering(k)
          PROVE  FALSE
      <4>1. /\ Leased(k) /\ jobs'[k].status \in TerminalStatuses
            /\ jobs'[k].token = jobs[k].token /\ jobs[k].token # NoToken
        BY <3>2 DEF Answering, Called, Holds
      <4> QED
        BY <3>1, <4>1 DEF FencedOff, Taken, Leased, TerminalStatuses
    <3> QED
      BY <2>1, <3>1, <3>2, QueueMaps
  <2>3. CASE UNCHANGED vars
    BY <1>3, <2>1, <2>3
  <2> QED
    BY <1>5, <2>2, <2>3 DEF ServeClaim
<1>6. CASE ServeAck(w)
  <2>1. worker[w].pc = "acking" /\ HasJob(w) /\ j \in JobIds
    BY <1>1, <1>6 DEF ServeAck, HasJob, WorkerOK, ClaimOK
  <2>2. \E rec \in WorkerRecords : Become(w, rec) /\ rec.pc = worker[w].pc /\ rec.job = j
    <3>1. ASSUME NEW req \in { "granted", "refused" }
          PROVE  LET rec == [worker[w] EXCEPT !.req = req]
                 IN rec \in WorkerRecords /\ rec.pc = worker[w].pc /\ rec.job = j
      BY <1>1 DEF WorkerRecords
    <3> QED
      BY <1>6, <3>1 DEF ServeAck
  <2>3. \A v \in Workers : GoesOn(v)
    BY <1>2, <2>2
  <2>4. CASE AcknowledgeJob(j, t)
    BY <1>1, <1>4, <2>1, <2>3, <2>4, AcknowledgedRow
  <2> QED
    BY <1>3, <1>6, <2>3, <2>4 DEF ServeAck
<1>7. CASE ServeCompletion(w)
  <2>1. worker[w].pc \in { "completing", "detached" } /\ HasJob(w) /\ j \in JobIds
        /\ ~Executing(w) /\ worker[w].ok \in BOOLEAN /\ worker[w].st \in Answers
    BY <1>1, <1>7 DEF ServeCompletion, HasJob, WorkerOK, ClaimOK, WorkerRecords, Executing
  <2>2. \E rec \in WorkerRecords : Become(w, rec) /\ rec.pc = worker[w].pc /\ rec.job = j
    <3>1. ASSUME NEW req \in { "granted", "refused" }
          PROVE  LET rec == [worker[w] EXCEPT !.req = req]
                 IN rec \in WorkerRecords /\ rec.pc = worker[w].pc /\ rec.job = j
      BY <1>1 DEF WorkerRecords
    <3> QED
      BY <1>7, <3>1 DEF ServeCompletion
  <2>3. \A v \in Workers : GoesOn(v)
    BY <1>2, <2>2
  <2>4. CASE CompleteJob(j, t, worker[w].ok, worker[w].st)
    <3>1. TypeOK /\ j \in JobIds /\ worker[w].ok \in BOOLEAN /\ worker[w].st \in Answers
      BY <1>1, <2>1
    <3>2. Called(j, t) /\ Others(j) /\ jobs'[j].result = Stored(worker[w])
      BY <2>4, <3>1, CompletedRow DEF Stored
    <3> QED
      BY <1>4, <2>1, <2>3, <3>2
  <2> QED
    BY <1>3, <1>7, <2>3, <2>4 DEF ServeCompletion
<1>8. CASE ServeRenewal(w)
  <2>1. worker[w].renew = "sent" /\ HasJob(w) /\ j \in JobIds
    BY <1>1, <1>8 DEF ServeRenewal, HasJob, WorkerOK, ClaimOK, ClocksOK, Renewing
  <2>2. \E rec \in WorkerRecords : Become(w, rec) /\ rec.pc = worker[w].pc /\ rec.job = j
    <3>1. ASSUME NEW renew \in { "granted", "refused" }
          PROVE  LET rec == [worker[w] EXCEPT !.renew = renew]
                 IN rec \in WorkerRecords /\ rec.pc = worker[w].pc /\ rec.job = j
      BY <1>1 DEF WorkerRecords
    <3> QED
      BY <1>8, <3>1 DEF ServeRenewal
  <2>3. \A v \in Workers : GoesOn(v)
    BY <1>2, <2>2
  <2>4. CASE RenewJob(j, t)
    BY <1>1, <1>4, <2>1, <2>3, <2>4, RenewedRow
  <2> QED
    BY <1>3, <1>8, <2>3, <2>4 DEF ServeRenewal
<1> QED
  BY <1>5, <1>6, <1>7, <1>8

(* A worker goes on, or leaves its job, or leaves it to be rolled back.     *)
Lingers(w) ==
    \/ GoesOn(w)
    \/ ~Executing(w)' /\ ~Undoing(w)'
    \/ /\ Executing(w) /\ Undoing(w)' /\ worker'[w].job = worker[w].job
       /\ jobs[worker[w].job].type \in DetachedRollbackTypes

(* Workers go on or leave their jobs.                                       *)
LEMMA LeavesMap ==
    ASSUME \A w \in Workers : Lingers(w),
           \A k \in JobIds : SameJob(k) /\ (Lifecycle(k)' <=> Lifecycle(k))
    PROVE  Abstract!Next
<1> DEFINE W == { w \in Workers : ~GoesOn(w) }
           R == { w \in W : Undoing(w)' }
<1>1. W \in SUBSET Workers /\ R \in SUBSET W
  OBVIOUS
<1>2. \A w \in Workers : ~(Executing(w)' /\ Undoing(w)') /\ ~(Executing(w) /\ Undoing(w))
  BY DEF Executing, Undoing
<1>3. ASSUME NEW k \in JobIds
      PROVE  /\ Runners(k)' = Runners(k) \ W
             /\ Undoers(k)' = (Undoers(k) \ W) \cup (Runners(k) \cap R)
             /\ Runners(k) \cap R # {} => Lasting(k)
  <2>1. Runners(k)' = Runners(k) \ W
    BY <1>2 DEF Runners, Lingers, GoesOn
  <2>2. Undoers(k)' = (Undoers(k) \ W) \cup (Runners(k) \cap R)
    BY <1>2 DEF Runners, Undoers, Lingers, GoesOn
  <2>3. Runners(k) \cap R # {} => Lasting(k)
    BY <1>2 DEF Runners, Lingers, Lasting
  <2> QED
    BY <2>1, <2>2, <2>3
<1> HIDE DEF W, R
<1> QED
  BY <1>1, <1>3, Stops

(* A canceled execution is left, or left to be rolled back.                 *)
LEMMA CanceledLingers ==
    ASSUME FleetInv, NEW w \in Workers, NEW done \in BOOLEAN,
           worker'[w] = Canceled(worker[w], done)
    PROVE  Lingers(w)
<1> DEFINE rec == Canceled(worker[w], done)
<1>1. FleetTypeOK /\ TypeOK /\ WorkerOK(w)
  BY DEF FleetInv, IInv
<1>2. \/ rec.pc = "idle" \/ rec.pc = "detached"
      \/ /\ worker[w].pc = "working" /\ rec.pc = "undoing" /\ rec.job = worker[w].job
         /\ jobs[rec.job].type \in DetachedRollbackTypes
  BY <1>1, CanceledRecord, IdleRecord
<1> HIDE DEF rec
<1>3. worker'[w] = rec
  BY DEF rec
<1> QED
  BY <1>2, <1>3 DEF Lingers, Executing, Undoing

(* One worker acknowledged a lifecycle job and starts it; nobody else is at  *)
(* a job of its instance.                                                   *)
LEMMA StartMaps ==
    ASSUME FleetInv, NEW w \in Workers, worker[w].pc = "acking", worker[w].req = "granted",
           Executing(w)', worker'[w].job = worker[w].job, UNCHANGED jobs,
           \A v \in Workers \ {w} : worker'[v] = worker[v]
    PROVE  [Abstract!Next]_AbstractVars
<1> DEFINE j == worker[w].job
<1>1. /\ TypeOK /\ FleetTypeOK /\ OneExclusiveJob /\ WorkerOK(w) /\ Guards(w)
      /\ HasJob(w) /\ ~Executing(w)
  BY DEF FleetInv, IInv, Guards, HasJob, Executing
<1>2. \A k \in JobIds : SameJob(k) /\ (Lifecycle(k)' <=> Lifecycle(k))
  BY DEF SameJob, Phase, Target, Lasting, Lifecycle, Active
<1>6. \A k \in JobIds : Undoers(k)' = Undoers(k)
  BY <1>2 DEF Undoers, Executing, Undoing
<1>3. ASSUME NEW k \in JobIds, k # j \/ ~Lifecycle(k)
      PROVE  SameWorkers(k)
  BY <1>1, <1>2, <1>3, <1>6 DEF SameWorkers, Runners, Executing
<1>4. CASE ~Lifecycle(j)
  BY <1>2, <1>3, <1>4, Settles
<1>5. CASE Lifecycle(j)
  <2>1. Live(j) /\ Current(w) /\ j \in JobIds
    BY <1>1, <1>5, GuardedIsLive
  <2>2. Active(j) /\ Phase(j) = "open" /\ Target(j) = jobs[j].inst
    BY <1>1, <1>5, <2>1 DEF Live, Leased, Active, ActiveStatuses, Phase, Target
  <2>3. ASSUME NEW k \in JobIds, Target(k) = Target(j), NEW v \in Runners(k)
        PROVE  FALSE
    <3>1. Lifecycle(k) /\ Active(k)
      BY <2>3, RunnerHolds
    <3>2. jobs[k].inst = jobs[j].inst /\ ~Chat(k) /\ ~Chat(j)
      BY <1>5, <2>2, <2>3, <3>1, NotLifecycle DEF Target, Lifecycle, Chat
    <3>3. k = j
      BY <1>1, <2>1, <2>2, <3>1, <3>2 DEF OneExclusiveJob
    <3> QED
      BY <1>1, <2>1, <2>3, <3>3, RunnerHolds
  <2>4. Runners(j)' = {w}
    <3>1. Runners(j) = {}
      BY <2>1, <2>3
    <3> QED
      BY <1>2, <1>5, <2>1, <3>1 DEF Runners, Executing
  <2> QED
    BY <1>2, <1>3, <1>6, <2>1, <2>2, <2>3, <2>4, Starts
<1> QED
  BY <1>4, <1>5

(* What a worker does without the control plane.                            *)
LEMMA WorkerMaps ==
    ASSUME FleetInv, NEW w \in Workers,
           \/ Poll(w) \/ ReceiveClaim(w) \/ ReceiveAck(w) \/ ClaimFails(w)
           \/ FetchInput(w) \/ InstallVerified(w)
           \/ \E ok \in BOOLEAN : \E st \in Answers : ExecutionEnds(w, ok, st)
           \/ SendCompletion(w) \/ ReceiveCompletion(w) \/ CompletionFails(w) \/ DetachedGivesUp(w)
           \/ SendRenewal(w) \/ ReceiveRenewal(w) \/ RenewalFails(w) \/ RollbackEnds(w)
    PROVE  [Abstract!Next]_AbstractVars
<1>1. /\ TypeOK /\ FleetTypeOK /\ WorkerOK(w) /\ worker[w] \in WorkerRecords
  BY WorkerTyped DEF FleetInv, IInv
<1>2. UNCHANGED jobs
  BY DEF vars, Poll, ReceiveClaim, ReceiveAck, ClaimFails, FetchInput, InstallVerified,
     ExecutionEnds, SendCompletion, ReceiveCompletion, CompletionFails, DetachedGivesUp,
     SendRenewal, ReceiveRenewal, RenewalFails, RollbackEnds
<1>3. \A k \in JobIds : SameJob(k) /\ (Lifecycle(k)' <=> Lifecycle(k))
  BY <1>2 DEF SameJob, Phase, Target, Lasting, Lifecycle, Active
<1>4. ASSUME NEW rec, Become(w, rec)
      PROVE  worker'[w] = rec /\ \A v \in Workers \ {w} : worker'[v] = worker[v]
  BY <1>1, <1>4 DEF Become, FleetTypeOK
<1>5. ASSUME NEW rec, Become(w, rec),
             \/ rec.pc \notin { "fetching", "working", "undoing" }
             \/ Executing(w) /\ rec.pc = "working" /\ rec.job = worker[w].job
             \/ rec.pc = worker[w].pc /\ rec.job = worker[w].job
      PROVE  [Abstract!Next]_AbstractVars
  <2>1. \A v \in Workers : Lingers(v)
    BY <1>4, <1>5 DEF Lingers, GoesOn, Executing, Undoing
  <2> QED
    BY <1>3, <2>1, LeavesMap
<1>6. CASE Become(w, IdleWorker)
  BY <1>5, <1>6, IdleRecord
<1>7. CASE Poll(w)
  <2> DEFINE rec == Sent([IdleWorker EXCEPT !.pc = "claiming"])
  <2>1. rec.pc = "claiming"
    BY IdleRecord DEF Sent, WorkerRecords
  <2> QED
    BY <1>5, <1>7, <2>1 DEF Poll
<1>8. CASE ReceiveClaim(w)
  <2> DEFINE rec == Sent([worker[w] EXCEPT !.pc = "acking"])
  <2>1. rec.pc = "acking"
    BY <1>1 DEF Sent, WorkerRecords
  <2> QED
    BY <1>5, <1>6, <1>8, <2>1 DEF ReceiveClaim
<1>9. CASE ReceiveAck(w)
  <2> DEFINE pc == IF jobs[worker[w].job].type \in InputTypes THEN "fetching" ELSE "working"
             rec == [worker[w] EXCEPT !.pc = pc, !.req = "none", !.age = 0,
                                      !.timer = RenewInterval, !.deadline = LeaseTicks]
  <2>1. pc \in { "fetching", "working" }
    OBVIOUS
  <2>2. CASE worker[w].req = "granted"
    <3>1. Become(w, rec)
      BY <1>9, <2>2 DEF ReceiveAck
    <3> HIDE DEF pc
    <3>2. rec.pc \in { "fetching", "working" } /\ rec.job = worker[w].job
      BY <1>1, <2>1 DEF WorkerRecords
    <3> HIDE DEF rec
    <3>3. Executing(w)' /\ worker'[w].job = worker[w].job
      BY <1>4, <3>1, <3>2 DEF Executing
    <3> QED
      BY <1>2, <1>4, <1>9, <2>2, <3>1, <3>3, StartMaps DEF ReceiveAck
  <2> QED
    BY <1>6, <1>9, <2>2 DEF ReceiveAck
<1>10. CASE ClaimFails(w)
  BY <1>6, <1>10 DEF ClaimFails
<1>11. CASE FetchInput(w)
  <2> DEFINE st == InputFailureStatus(jobs[worker[w].job])
  <2>1. Executing(w) /\ worker[w].pc = "fetching"
    BY <1>11 DEF FetchInput, Executing
  <2>2. CASE Become(w, [worker[w] EXCEPT !.pc = "working"])
    BY <1>1, <1>5, <2>1, <2>2 DEF WorkerRecords
  <2>3. CASE Become(w, [worker[w] EXCEPT !.pc = "completing", !.ok = FALSE, !.st = st])
    <3> HIDE DEF st
    <3>1. [worker[w] EXCEPT !.pc = "completing", !.ok = FALSE, !.st = st].pc = "completing"
      BY <1>1 DEF WorkerRecords
    <3> QED
      BY <1>5, <2>3, <3>1
  <2> QED
    BY <1>11, <2>2, <2>3 DEF FetchInput
<1>12. CASE InstallVerified(w)
  <2>1. Executing(w) /\ Become(w, [worker[w] EXCEPT !.verified = TRUE])
    BY <1>12 DEF InstallVerified, Executing
  <2> QED
    BY <1>1, <1>5, <2>1 DEF WorkerRecords
<1>13. ASSUME NEW ok \in BOOLEAN, NEW st \in Answers, ExecutionEnds(w, ok, st)
       PROVE  [Abstract!Next]_AbstractVars
  <2> DEFINE rec == [worker[w] EXCEPT !.pc = "completing", !.ok = ok, !.st = st]
  <2>1. rec.pc = "completing"
    BY <1>1 DEF WorkerRecords
  <2>2. Become(w, rec)
    BY <1>13, Zenon DEF ExecutionEnds
  <2> QED
    BY <1>5, <2>1, <2>2
<1>14. CASE SendCompletion(w)
  <2>1. worker[w].pc \in { "completing", "detached" } /\ Become(w, Sent(worker[w]))
    BY <1>14 DEF SendCompletion
  <2>2. Sent(worker[w]).pc = worker[w].pc
    BY <1>1 DEF Sent, WorkerRecords
  <2> QED
    BY <1>5, <2>1, <2>2
<1>15. CASE ReceiveCompletion(w) \/ DetachedGivesUp(w)
  BY <1>6, <1>15 DEF ReceiveCompletion, DetachedGivesUp
<1>16. CASE CompletionFails(w)
  <2> DEFINE rec == [worker[w] EXCEPT !.req = "none", !.age = 0]
  <2>1. worker[w].pc \in { "completing", "detached" } /\ Become(w, rec)
    BY <1>16 DEF CompletionFails
  <2>2. rec.pc = worker[w].pc
    BY <1>1 DEF WorkerRecords
  <2> QED
    BY <1>5, <2>1, <2>2
<1>17. ASSUME NEW rec, Become(w, rec), rec.pc = worker[w].pc, rec.job = worker[w].job
       PROVE  [Abstract!Next]_AbstractVars
  BY <1>5, <1>17
<1>18. ASSUME NEW done \in BOOLEAN, Become(w, Canceled(worker[w], done))
       PROVE  [Abstract!Next]_AbstractVars
  <2>1. /\ worker'[w] = Canceled(worker[w], done)
        /\ \A v \in Workers \ {w} : worker'[v] = worker[v]
    BY <1>4, <1>18
  <2>2. \A v \in Workers : Lingers(v)
    BY <2>1, CanceledLingers DEF Lingers, GoesOn, Executing, Undoing
  <2> QED
    BY <1>3, <2>2, LeavesMap
<1>19. CASE SendRenewal(w)
  <2> DEFINE rec == [worker[w] EXCEPT !.renew = "sent", !.renewAge = 0]
  <2>1. rec.pc = worker[w].pc /\ rec.job = worker[w].job
    BY <1>1 DEF WorkerRecords
  <2> QED
    BY <1>17, <1>19, <2>1 DEF SendRenewal
<1>20. CASE ReceiveRenewal(w)
  <2> DEFINE rec == [worker[w] EXCEPT !.renew = "none", !.renewAge = 0,
                                      !.timer = RenewInterval, !.deadline = LeaseTicks]
  <2>1. rec.pc = worker[w].pc /\ rec.job = worker[w].job
    BY <1>1 DEF WorkerRecords
  <2> QED
    BY <1>17, <1>18, <1>20, <2>1 DEF ReceiveRenewal
<1>21. CASE RenewalFails(w)
  <2> DEFINE rec == [worker[w] EXCEPT !.renew = "none", !.renewAge = 0, !.timer = RetryDelay]
  <2>1. rec.pc = worker[w].pc /\ rec.job = worker[w].job
    BY <1>1 DEF WorkerRecords
  <2> QED
    BY <1>17, <1>18, <1>21, <2>1 DEF RenewalFails
<1>22. CASE RollbackEnds(w)
  BY <1>6, <1>22 DEF RollbackEnds
<1> QED
  BY <1>7, <1>8, <1>9, <1>10, <1>11, <1>12, <1>13, <1>14, <1>15, <1>16, <1>19, <1>20, <1>21,
     <1>22

(* Shutdown, the end of the drain period, restart and crash.                *)
LEMMA HostMaps ==
    ASSUME FleetInv, Shutdown \/ GracePeriodEnds \/ Restart \/ Crash
    PROVE  [Abstract!Next]_AbstractVars
<1>1. UNCHANGED jobs
  BY DEF vars, Shutdown, GracePeriodEnds, Restart, Crash
<1>2. \A k \in JobIds : SameJob(k) /\ (Lifecycle(k)' <=> Lifecycle(k))
  BY <1>1 DEF SameJob, Phase, Target, Lasting, Lifecycle, Active
<1>3. ASSUME NEW w \in Workers
      PROVE  Lingers(w)
  <2>1. CASE worker'[w] = worker[w]
    BY <2>1 DEF Lingers, GoesOn, Executing, Undoing
  <2>2. CASE worker'[w] = IdleWorker
    BY <2>2, IdleRecord DEF Lingers, Executing, Undoing
  <2>3. ASSUME NEW done \in SUBSET Workers, worker'[w] = Canceled(worker[w], w \in done)
        PROVE  Lingers(w)
    <3>1. (w \in done) \in BOOLEAN
      OBVIOUS
    <3>2. PICK d \in BOOLEAN : worker'[w] = Canceled(worker[w], d)
      BY <2>3, <3>1, Zenon
    <3> QED
      BY <3>2, CanceledLingers
  <2>4. CASE GracePeriodEnds
    <3>1. PICK done \in SUBSET Workers :
             worker' = [v \in Workers |->
                          IF Renewing(v) THEN Canceled(worker[v], v \in done) ELSE worker[v]]
      BY <2>4 DEF GracePeriodEnds
    <3> QED
      BY <2>1, <2>3, <3>1
  <2> QED
    BY <2>1, <2>2, <2>4 DEF Shutdown, Restart, Crash
<1> QED
  BY <1>2, <1>3, LeavesMap

(* Time moves no job.                                                       *)
LEMMA TickMaps ==
    ASSUME FleetInv, FleetTick
    PROVE  [Abstract!Next]_AbstractVars
<1>1. FleetTypeOK /\ TypeOK /\ (Tick \/ UNCHANGED vars)
  BY DEF FleetInv, IInv, FleetTick
<1>2. \A k \in JobIds : SameJob(k) /\ (Lifecycle(k)' <=> Lifecycle(k))
  BY <1>1, TickedRow DEF Keeps, SameJob, Phase, Target, Lasting, Lifecycle,
     Active
<1>3. ASSUME NEW w \in Workers
      PROVE  Lingers(w)
  <2>1. worker'[w] = [worker[w] EXCEPT !.age = IF Waiting(w) THEN @ + 1 ELSE @,
                                       !.renewAge = IF worker[w].renew = "none" THEN @ ELSE @ + 1,
                                       !.timer = Down(@), !.deadline = Down(@)]
    BY DEF FleetTick
  <2> QED
    BY <1>1, <2>1, TickedRecord DEF Lingers, GoesOn, Executing, Undoing
<1> QED
  BY <1>2, <1>3, LeavesMap

(* Every step of agent and control plane is a step of ExclusiveExecution, or *)
(* none.                                                                    *)
LEMMA FleetNextMaps ==
    FleetInv /\ TableRows /\ [FleetNext]_fleetVars => [Abstract!Next]_AbstractVars
<1> SUFFICES ASSUME FleetInv, TableRows, [FleetNext]_fleetVars
             PROVE  [Abstract!Next]_AbstractVars
  OBVIOUS
<1>1. CASE ControlPlane
  BY <1>1, ControlPlaneMaps
<1>2. CASE \E w \in Workers : WorkerStep(w)
  BY <1>2, WorkerStepForms, WorkerMaps, ServedMaps
<1>3. CASE Shutdown \/ GracePeriodEnds \/ Restart \/ Crash
  BY <1>3, HostMaps
<1>4. CASE FleetTick
  BY <1>4, TickMaps
<1>5. CASE UNCHANGED fleetVars
  <2>1. UNCHANGED jobs /\ UNCHANGED worker
    BY <1>5 DEF fleetVars, agentVars, vars
  <2> QED
    BY <2>1 DEF AbstractVars, Phase, Target, Lasting, Runners, Undoers, Lifecycle, Active,
       Executing, Undoing
<1> QED
  BY <1>1, <1>2, <1>3, <1>4, <1>5 DEF FleetNext

(* Agent and control plane implement ExclusiveExecution: whatever is lost,   *)
(* late, restarted or reclaimed, a lifecycle job is executed by one worker   *)
(* at a time, beside no other of its instance, and ends once, unattended    *)
(* but for the rollback of a canceled execution.                            *)
THEOREM ExclusiveRefinement == FleetSpec => ExecutionIsExclusive
<1>1. FleetInv /\ TableInv /\ [FleetNext]_fleetVars => [Abstract!Next]_AbstractVars
  BY FleetNextMaps DEF TableInv
<1> QED
  BY <1>1, FleetInvariance, FleetUsesStore, Tables, PTL DEF FleetSpec, ExecutionIsExclusive,
     Abstract!Spec, AbstractVars

================================================================================
