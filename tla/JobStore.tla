------------------------------- MODULE JobStore -------------------------------
(***************************************************************************)
(* The durable job queue of the control plane: the tables instances, jobs, *)
(* operations, chat_sessions, chat_messages, chat_events and the two       *)
(* configuration tables of internal/store.  Every store method is one      *)
(* SQLite transaction, hence one action; a method that returns an error    *)
(* rolls back and is a step that changes nothing.                          *)
(*                                                                         *)
(* The Host Agents are the environment here: any lease token ever handed   *)
(* out may be presented again at any later time, which covers delayed,     *)
(* duplicated and retried requests, hung and restarted workers.  Tokens    *)
(* are random and fresh, so the claim number of a job names its token.     *)
(* The statements on runtime_remediation_state inside these transactions   *)
(* are modelled with that table, in module RuntimeRemediation.             *)
(*                                                                         *)
(* left[j] is lease_expires_at - now in ticks, cut off at -1: the code     *)
(* only compares the two (live when > now, reclaimable when < now).        *)
(***************************************************************************)
EXTENDS FleetDomain, Integers, FiniteSets, FiniteSetsExt

CONSTANTS
    Hosts,         \* enrolled Host Agents
    Instances,     \* managed Hermes instances
    HostOf,        \* the host an instance is assigned to, never changed
    Sessions,      \* chat sessions
    SessionOf,     \* the instance of a chat session
    MaxJobs,       \* bound: jobs created in a behaviour, numbered by created_at
    Kinds,         \* the job types this instance of the model may queue
    Revisions,     \* digests of configuration documents
    NoRevision,    \* the empty revision
    MaxSequence,   \* bound: event sequence numbers a Host Agent may send
    LeaseTicks,    \* the five-minute lease, in ticks
    MaxClaims,     \* jobLeaseMaxClaims
    QueueMax       \* JobQueueMaxPerHost

JobIds == 1..MaxJobs

ASSUME HostsAssumption == HostOf \in [Instances -> Hosts]
ASSUME SessionsAssumption == SessionOf \in [Sessions -> Instances]
ASSUME KindsAssumption == Kinds \subseteq JobTypes
ASSUME RevisionsAssumption == NoRevision \notin Revisions
ASSUME BoundsAssumption ==
    /\ MaxJobs \in Nat /\ MaxSequence \in Nat
    /\ LeaseTicks \in Nat \ {0} /\ MaxClaims \in Nat \ {0} /\ QueueMax \in Nat

VARIABLES
    inst,      \* instances.status
    jobs,      \* table jobs
    ops,       \* operations.status, one operation per job
    config,    \* instance_messaging_configs and instance_mcp_configs
    sessions,  \* chat_sessions
    messages,  \* status of the user message of a chat job
    events,    \* chat_events of a chat job's operation
    reveals    \* credential requests past the handler's check, not yet queued

chatVars == <<sessions, messages, events>>
vars == <<inst, jobs, ops, config, chatVars, reveals>>

EventTypes ==
    { "RUN_QUEUED", "ASSISTANT_DELTA", "RUN_COMPLETED", "RUN_FAILED", "RUN_CANCELED" }
TerminalEvents == { "RUN_COMPLETED", "RUN_FAILED", "RUN_CANCELED" }
MessageStatuses == { "NONE", "PENDING", "SUCCEEDED", "FAILED", "GONE" }

(* What completion_hash tells apart: no result, or the result submitted.   *)
NoResult == [outcome |-> "NONE", status |-> ""]
Results == [outcome : { "NONE", "SUCCESS", "FAILURE" }, status : InstanceStatuses \cup { "" }]

NoLease == 0
NoToken == 0
NoOne == "none"

JobRecords ==
    [ type : JobTypes \cup { NoOne }, inst : Instances \cup { NoOne },
      sess : Sessions \cup { NoOne }, status : JobStatuses,
      token : 0..MaxClaims, left : -1..LeaseTicks, attempts : 0..MaxClaims,
      asked : InstanceStatuses, rev : Revisions \cup { NoRevision },
      result : Results ]

NoJob == [ type |-> NoOne, inst |-> NoOne, sess |-> NoOne, status |-> "NONE",
           token |-> NoToken, left |-> NoLease, attempts |-> 0, asked |-> "NONE",
           rev |-> NoRevision, result |-> NoResult ]

NoConfig == [status |-> "NONE", desired |-> NoRevision, applied |-> NoRevision]
ConfigRecords == [ status : { "NONE", "PENDING", "APPLIED", "FAILED" },
                   desired : Revisions \cup { NoRevision },
                   applied : Revisions \cup { NoRevision } ]

(* Every variable has its type; attempts never passes MaxClaims (typed).   *)
TypeOK ==
    /\ inst \in [Instances -> InstanceStatuses]
    /\ jobs \in [JobIds -> JobRecords]
    /\ ops \in [JobIds -> OperationStatuses]
    /\ config \in [ConfigTypes -> [Instances -> ConfigRecords]]
    /\ sessions \in [Sessions -> { "NONE", "ACTIVE", "GONE" }]
    /\ messages \in [JobIds -> MessageStatuses]
    /\ events \in [JobIds -> SUBSET [seq : 0..(MaxSequence + 1), type : EventTypes]]
    /\ reveals \in SUBSET Instances

Init ==
    /\ inst = [i \in Instances |-> "NONE"]
    /\ jobs = [j \in JobIds |-> NoJob]
    /\ ops = [j \in JobIds |-> "NONE"]
    /\ config = [c \in ConfigTypes |-> [i \in Instances |-> NoConfig]]
    /\ sessions = [s \in Sessions |-> "NONE"]
    /\ messages = [j \in JobIds |-> "NONE"]
    /\ events = [j \in JobIds |-> {}]
    /\ reveals = {}

------------------------------------------------------------------------------
(* Which jobs hold what.                                                   *)

Active(j) == jobs[j].status \in ActiveStatuses
Leased(j) == jobs[j].status \in { "LEASED", "RUNNING" }
Live(j) == Leased(j) /\ jobs[j].left >= 0

(* Mutant: a lease that was never acknowledged is not reclaimed.           *)
Expired_RunningOnly(j) == jobs[j].status = "RUNNING" /\ jobs[j].left < 0

Expired(j) == Leased(j) /\ jobs[j].left < 0

Chat(j) == jobs[j].type = "chat.send"
Lifecycle(j) == jobs[j].type \in LifecycleTypes

(* Mutants: queued jobs, or chat messages, do not make an instance busy.   *)
activeInstanceJobs_Leased(i) == { j \in JobIds : Leased(j) /\ jobs[j].inst = i }
activeInstanceJobs_NoChat(i) == { j \in JobIds : Active(j) /\ ~Chat(j) /\ jobs[j].inst = i }

activeInstanceJobs(i) == { j \in JobIds : Active(j) /\ jobs[j].inst = i }
HostQueue(h) == { j \in JobIds : Active(j) /\ HostOf[jobs[j].inst] = h }

(* The request comes from the holder of the current, unexpired lease.      *)
Holds(j, t) == t # NoToken /\ jobs[j].token = t /\ jobs[j].left > 0

(* Rows are numbered in the order of created_at, so j is the next row.     *)
NextRow(j) == \A k \in JobIds : jobs[k].status = "NONE" <=> k >= j

NewJob(type, i, s, asked, rev) ==
    [NoJob EXCEPT !.type = type, !.inst = i, !.sess = s, !.status = "PENDING",
                  !.asked = asked, !.rev = rev]

(* Mutant: the limit is compared off by one.                               *)
HasRoom_OffByOne(h) == Cardinality(HostQueue(h)) <= QueueMax

HasRoom(h) == Cardinality(HostQueue(h)) < QueueMax

(* insertOperationAndJob: refuses a full host queue, else both rows.       *)
insertOperationAndJob(j, job) ==
    /\ NextRow(j)
    /\ HasRoom(HostOf[job.inst])
    /\ jobs' = [jobs EXCEPT ![j] = job]
    /\ ops' = [ops EXCEPT ![j] = "PENDING"]

------------------------------------------------------------------------------
(* Queueing.  The API handler reads the instance, then calls the store with *)
(* the status it read; the expected-status check makes the two one step,    *)
(* except for credential reveals, whose store method checks no status.      *)

CreateInstance(j, i) ==
    /\ "provision" \in Kinds
    /\ inst[i] = "NONE"
    /\ insertOperationAndJob(j, NewJob("provision", i, NoOne, "NONE", NoRevision))
    /\ inst' = [inst EXCEPT ![i] = "PROVISIONING"]
    /\ UNCHANGED <<config, chatVars, reveals>>

QueueAction(j, i, type) ==
    /\ type \in ActionTypes \cap Kinds
    /\ inst[i] \in QueueableFrom(type)
    /\ activeInstanceJobs(i) = {}
    /\ insertOperationAndJob(j, NewJob(type, i, NoOne, PayloadStatus(type, inst[i]), NoRevision))
    /\ inst' = [inst EXCEPT ![i] = QueuedStatus(type)]
    /\ UNCHANGED <<config, chatVars, reveals>>

(* QueueMessagingConfiguration and QueueMCPConfiguration.                   *)
QueueConfiguration(j, i, type, rev) ==
    /\ type \in ConfigTypes \cap Kinds
    /\ inst[i] \in QueueableFrom(type)
    /\ activeInstanceJobs(i) = {}
    /\ insertOperationAndJob(j, NewJob(type, i, NoOne, inst[i], rev))
    /\ inst' = [inst EXCEPT ![i] = QueuedStatus(type)]
    /\ config' = [config EXCEPT ![type][i] = [@ EXCEPT !.status = "PENDING", !.desired = rev]]
    /\ UNCHANGED <<chatVars, reveals>>

(* QueueRunningInspection and QueueCodexAuth.                               *)
QueueRunningInspection(j, i, type) ==
    /\ type \in RunningInspectionTypes \cap Kinds
    /\ inst[i] = "RUNNING"
    /\ activeInstanceJobs(i) = {}
    /\ insertOperationAndJob(j, NewJob(type, i, NoOne, "NONE", NoRevision))
    /\ UNCHANGED <<inst, config, chatVars, reveals>>

(* requestCredentials: the handler's check ...                              *)
RequestCredentials(i) ==
    /\ "credentials.inspect" \in Kinds
    /\ inst[i] \in { "RUNNING", "STOPPED" }
    /\ i \notin reveals
    /\ reveals' = reveals \cup { i }
    /\ UNCHANGED <<inst, jobs, ops, config, chatVars>>

(* ... and QueueInspection, which sees whatever has happened since.         *)
QueueInspection(j, i) ==
    /\ i \in reveals
    /\ activeInstanceJobs(i) = {}
    /\ insertOperationAndJob(j, NewJob("credentials.inspect", i, NoOne, "NONE", NoRevision))
    /\ reveals' = reveals \ { i }
    /\ UNCHANGED <<inst, config, chatVars>>

RefuseInspection(i) ==
    /\ i \in reveals
    /\ activeInstanceJobs(i) # {}
    /\ reveals' = reveals \ { i }
    /\ UNCHANGED <<inst, jobs, ops, config, chatVars>>

CreateChatSession(s) ==
    /\ "chat.send" \in Kinds
    /\ sessions[s] = "NONE"
    /\ inst[SessionOf[s]] = "RUNNING"
    /\ sessions' = [sessions EXCEPT ![s] = "ACTIVE"]
    /\ UNCHANGED <<inst, jobs, ops, config, messages, events, reveals>>

(* A message needs a running instance but no idle one.                      *)
QueueChatMessage(j, s) ==
    /\ sessions[s] = "ACTIVE"
    /\ inst[SessionOf[s]] = "RUNNING"
    /\ insertOperationAndJob(j, NewJob("chat.send", SessionOf[s], s, "NONE", NoRevision))
    /\ messages' = [messages EXCEPT ![j] = "PENDING"]
    /\ events' = [events EXCEPT ![j] = { [seq |-> 0, type |-> "RUN_QUEUED"] }]
    /\ UNCHANGED <<inst, config, sessions, reveals>>

------------------------------------------------------------------------------
(* Ending a job.                                                           *)

(* A job whose row the server takes away from its worker.                  *)
Fenced(job) == [job EXCEPT !.status = "FAILED", !.token = NoToken, !.left = NoLease]

(* Mutant: the closing event takes the last sequence number again.         *)
Closed_SameSequence(stream, type) ==
    stream \cup { [seq |-> Max({ e.seq : e \in stream } \cup { 0 }), type |-> type] }

(* The stream of a chat operation closed with one more event.              *)
Closed(stream, type) ==
    stream \cup { [seq |-> 1 + Max({ e.seq : e \in stream } \cup { 0 }), type |-> type] }

(* The instance rows after the leases in F were given up.                  *)
ExpiryStatus(j) == statusAfterExpiry(jobs[j].type, jobs[j].asked)

InstancesAfterExpiry(F) ==
    [i \in Instances |->
        IF \E j \in F : jobs[j].inst = i /\ ExpiryStatus(j) # ""
        THEN ExpiryStatus(CHOOSE j \in F : jobs[j].inst = i /\ ExpiryStatus(j) # "")
        ELSE inst[i]]

(* Mutant: an abandoned configuration job leaves its row PENDING.          *)
ConfigAfterExpiry_Kept(F) == config

ConfigAfterExpiry(F) ==
    [c \in ConfigTypes |-> [i \in Instances |->
        IF /\ config[c][i].status = "PENDING"
           /\ \E j \in F : jobs[j].type = c /\ jobs[j].inst = i
        THEN [config[c][i] EXCEPT !.status = "FAILED"] ELSE config[c][i]]]

(* failExpiredJobLease for every job in F, inside the caller's transaction; *)
(* jobRows and opRows are what the same transaction makes of the others.    *)
failExpiredJobLeases(F, jobRows, opRows) ==
    /\ jobs' = [j \in JobIds |-> IF j \in F THEN Fenced(jobs[j]) ELSE jobRows[j]]
    /\ ops' = [j \in JobIds |-> IF j \in F THEN "FAILED" ELSE opRows[j]]
    /\ inst' = InstancesAfterExpiry(F)
    /\ messages' = [j \in JobIds |-> IF j \in F /\ Chat(j) THEN "FAILED" ELSE messages[j]]
    /\ events' = [j \in JobIds |->
                    IF j \in F /\ Chat(j) THEN Closed(events[j], "RUN_FAILED") ELSE events[j]]
    /\ config' = ConfigAfterExpiry(F)
    /\ UNCHANGED <<sessions, reveals>>

(* Mutant: one claim too many.                                             *)
Exhausted_OneMore(j) == Expired(j) /\ (Chat(j) \/ jobs[j].attempts > MaxClaims)

(* A lease that ran out and is not to be tried again.  Chat is never        *)
(* replayed: its tools may already have run.                                *)
Exhausted(j) == Expired(j) /\ (Chat(j) \/ jobs[j].attempts >= MaxClaims)

------------------------------------------------------------------------------
(* Claiming.                                                               *)

Earlier(j, k) ==
    \/ Priority(jobs[j].type) < Priority(jobs[k].type)
    \/ Priority(jobs[j].type) = Priority(jobs[k].type) /\ j < k

(* Mutant: a message in the hands of a worker does not block its session.  *)
Blocked_WaitingOnly(j) ==
    \E k \in JobIds \ {j} :
        IF Chat(j) THEN /\ Chat(k) /\ jobs[k].sess = jobs[j].sess
                        /\ jobs[k].status = "PENDING" /\ k < j
        ELSE Live(k) /\ jobs[k].inst = jobs[j].inst

(* A chat waits for its session only; any other job for a live lease on    *)
(* the instance, chat included.                                            *)
Blocked(j) ==
    \/ /\ Chat(j)
       /\ \E k \in JobIds \ {j} : /\ Chat(k) /\ jobs[k].sess = jobs[j].sess
                                  /\ Live(k) \/ (jobs[k].status = "PENDING" /\ k < j)
    \/ /\ ~Chat(j)
       /\ \E k \in JobIds \ {j} : Live(k) /\ jobs[k].inst = jobs[j].inst

Candidates(h) ==
    { j \in JobIds : /\ jobs[j].status = "PENDING" \/ Expired(j)
                     /\ HostOf[jobs[j].inst] = h
                     /\ ~Blocked(j) }

LeasedTo(job) ==
    [job EXCEPT !.status = "LEASED", !.attempts = @ + 1, !.token = job.attempts + 1,
                !.left = LeaseTicks]

(* ClaimJob walks the candidates in order: exhausted ones are failed on the *)
(* way, the first other one is leased; with no such job all are failed.     *)
ClaimJob(h) ==
    LET exhausted == { j \in Candidates(h) : Exhausted(j) }
        claimable == Candidates(h) \ exhausted
    IN \/ \E c \in claimable :
            /\ \A k \in claimable \ {c} : Earlier(c, k)
            /\ failExpiredJobLeases({ j \in exhausted : Earlier(j, c) },
                                    [jobs EXCEPT ![c] = LeasedTo(@)],
                                    [ops EXCEPT ![c] = "RUNNING"])
       \/ /\ claimable = {} /\ exhausted # {}
          /\ failExpiredJobLeases(exhausted, jobs, ops)

(* The maintenance loop fails every exhausted lease on every host.          *)
ReconcileExpiredJobs ==
    LET F == { j \in JobIds : Exhausted(j) }
    IN F # {} /\ failExpiredJobLeases(F, jobs, ops)

------------------------------------------------------------------------------
(* Calls of the Host Agent under a lease token.                            *)

AcknowledgeJob(j, t) ==
    /\ Holds(j, t)
    /\ jobs[j].status = "LEASED"
    /\ jobs' = [jobs EXCEPT ![j].status = "RUNNING", ![j].left = LeaseTicks]
    /\ UNCHANGED <<inst, ops, config, chatVars, reveals>>

(* A terminal job under the same token is answered too, and left alone.     *)
RenewJob(j, t) ==
    /\ Holds(j, t)
    /\ jobs[j].status = "RUNNING"
    /\ jobs' = [jobs EXCEPT ![j].left = LeaseTicks]
    /\ UNCHANGED <<inst, ops, config, chatVars, reveals>>

(* A repeated sequence number is not stored again.                          *)
AppendChatEvent(j, t, n) ==
    /\ Holds(j, t)
    /\ Chat(j) /\ jobs[j].status = "RUNNING"
    /\ \A e \in events[j] : e.seq # n
    /\ events' = [events EXCEPT ![j] = @ \cup { [seq |-> n, type |-> "ASSISTANT_DELTA"] }]
    /\ UNCHANGED <<inst, jobs, ops, config, sessions, messages, reveals>>

(* Mutant: the job's status is not looked at.                              *)
Completable_AnyStatus(j, t) == Holds(j, t) /\ ~(jobs[j].status = "LEASED")

(* The lease under which a result is applied.                              *)
Completable(j, t) == Holds(j, t) /\ jobs[j].status = "RUNNING"

(* The statuses a result may carry: the store refuses every other one.      *)
ResultStatuses(job, ok) ==
    IF ok THEN statusAfterSuccess(job.type, job.asked)
          ELSE statusAfterFailure(job.type, job.asked)

(* The rows of the job and of its configuration with the result stored.      *)
Ended(job, ok, st) ==
    [job EXCEPT !.status = IF ok THEN "SUCCEEDED" ELSE "FAILED",
                !.result = [outcome |-> IF ok THEN "SUCCESS" ELSE "FAILURE", status |-> st]]

EndedConfig(row, ok, rev) ==
    [row EXCEPT !.status = IF ok THEN "APPLIED" ELSE "FAILED",
                !.applied = IF ok THEN rev ELSE @]

ConfigAfter(j, ok) ==
    IF jobs[j].type \notin ConfigTypes THEN config
    ELSE [config EXCEPT ![jobs[j].type][jobs[j].inst] = EndedConfig(@, ok, jobs[j].rev)]

(* CompleteJobWithHash on a running job.  On a terminal job it stores        *)
(* nothing: it answers the same result and refuses another.                  *)
CompleteJob(j, t, ok, st) ==
    LET job == jobs[j]
    IN /\ Completable(j, t)
       /\ IF ResultStatuses(job, ok) = {} THEN st = "" ELSE st \in ResultStatuses(job, ok)
       /\ job.type \in ConfigTypes => config[job.type][job.inst].desired = job.rev
       /\ Chat(j) => messages[j] = "PENDING"
       /\ jobs' = [jobs EXCEPT ![j] = Ended(@, ok, st)]
       /\ ops' = [ops EXCEPT ![j] = IF ~ok THEN "FAILED"
                                    ELSE IF job.type = "delete" THEN "RUNNING" ELSE "SUCCEEDED"]
       /\ inst' = IF st = "" THEN inst ELSE [inst EXCEPT ![job.inst] = st]
       /\ config' = ConfigAfter(j, ok)
       /\ messages' = IF Chat(j)
                      THEN [messages EXCEPT ![j] = IF ok THEN "SUCCEEDED" ELSE "FAILED"]
                      ELSE messages
       /\ events' = IF Chat(j)
                    THEN [events EXCEPT ![j] =
                            Closed(@, IF ok THEN "RUN_COMPLETED" ELSE "RUN_FAILED")]
                    ELSE events
       /\ UNCHANGED <<sessions, reveals>>

------------------------------------------------------------------------------
(* Cancellation and deletion by the operator.                              *)

(* Mutant: the operation is forgotten.                                     *)
CancelCodexAuth_JobOnly(j) ==
    /\ jobs[j].type = "auth.codex" /\ Active(j)
    /\ jobs' = [jobs EXCEPT ![j] = Fenced(@)]
    /\ UNCHANGED <<inst, ops, config, chatVars, reveals>>

CancelCodexAuth(j) ==
    /\ jobs[j].type = "auth.codex" /\ Active(j)
    /\ jobs' = [jobs EXCEPT ![j] = Fenced(@)]
    /\ ops' = [ops EXCEPT ![j] = "FAILED"]
    /\ UNCHANGED <<inst, config, chatVars, reveals>>

(* The running message first, then a leased one, then the oldest waiting.   *)
CancelRank(j) == CASE jobs[j].status = "RUNNING" -> 0
                   [] jobs[j].status = "LEASED" -> 1
                   [] OTHER -> 2

CancelActiveChat(s) ==
    LET waiting == { j \in JobIds : /\ Chat(j) /\ Active(j) /\ jobs[j].sess = s
                                    /\ messages[j] = "PENDING" }
    IN \E j \in waiting :
        /\ \A k \in waiting \ {j} :
              CancelRank(j) < CancelRank(k) \/ (CancelRank(j) = CancelRank(k) /\ j < k)
        /\ jobs' = [jobs EXCEPT ![j] = Fenced(@)]
        /\ ops' = [ops EXCEPT ![j] = "FAILED"]
        /\ messages' = [messages EXCEPT ![j] = "FAILED"]
        /\ events' = [events EXCEPT ![j] = Closed(@, "RUN_CANCELED")]
        /\ UNCHANGED <<inst, config, sessions, reveals>>

(* Removes the transcript with its jobs, operations and events; the rows    *)
(* keep only their number.                                                  *)
DeleteChatSession(s) ==
    LET doomed == { j \in JobIds : Chat(j) /\ jobs[j].sess = s }
    IN /\ sessions[s] = "ACTIVE"
       /\ sessions' = [sessions EXCEPT ![s] = "GONE"]
       /\ jobs' = [j \in JobIds |-> IF j \in doomed THEN [NoJob EXCEPT !.status = "GONE"]
                                                    ELSE jobs[j]]
       /\ ops' = [j \in JobIds |-> IF j \in doomed THEN "GONE" ELSE ops[j]]
       /\ messages' = [j \in JobIds |-> IF j \in doomed THEN "GONE" ELSE messages[j]]
       /\ events' = [j \in JobIds |-> IF j \in doomed THEN {} ELSE events[j]]
       /\ UNCHANGED <<inst, config, reveals>>

(* The delete job removed the runtime; the Cloudflare resources remain.     *)
PendingInstanceDeletion(j) ==
    /\ jobs[j].type = "delete" /\ jobs[j].status = "SUCCEEDED"
    /\ ops[j] \in { "PENDING", "RUNNING", "FAILED" }
    /\ inst[jobs[j].inst] = "DELETING"

(* UpdateInstanceDeletionCleanup: started or retried, failed, completed.    *)
UpdateInstanceDeletionCleanup(j, op) ==
    /\ PendingInstanceDeletion(j)
    /\ op # ops[j]
    /\ ops' = [ops EXCEPT ![j] = op]
    /\ inst' = IF op = "SUCCEEDED" THEN [inst EXCEPT ![jobs[j].inst] = "DELETED"] ELSE inst
    /\ UNCHANGED <<jobs, config, chatVars, reveals>>

------------------------------------------------------------------------------
(* Time passes for every lease alike.                                      *)
Tick ==
    /\ \E j \in JobIds : Live(j)
    /\ jobs' = [j \in JobIds |-> IF Live(j) THEN [jobs[j] EXCEPT !.left = @ - 1] ELSE jobs[j]]
    /\ UNCHANGED <<inst, ops, config, chatVars, reveals>>

(* The tokens ever issued for a job, any of which may still be presented.  *)
Issued(j) == 1..jobs[j].attempts

QueueStep ==
    \/ \E j \in JobIds, i \in Instances :
        \/ CreateInstance(j, i)
        \/ \E type \in ActionTypes : QueueAction(j, i, type)
        \/ \E type \in ConfigTypes, rev \in Revisions : QueueConfiguration(j, i, type, rev)
        \/ \E type \in RunningInspectionTypes : QueueRunningInspection(j, i, type)
        \/ QueueInspection(j, i)
    \/ \E i \in Instances : RequestCredentials(i) \/ RefuseInspection(i)
    \/ \E s \in Sessions : CreateChatSession(s)
    \/ \E j \in JobIds, s \in Sessions : QueueChatMessage(j, s)

AgentStep ==
    \/ \E h \in Hosts : ClaimJob(h)
    \/ \E j \in JobIds : \E t \in Issued(j) :
        \/ AcknowledgeJob(j, t)
        \/ RenewJob(j, t)
        \/ \E n \in 1..MaxSequence : AppendChatEvent(j, t, n)
        \/ \E ok \in BOOLEAN, st \in InstanceStatuses \cup { "" } : CompleteJob(j, t, ok, st)

OperatorStep ==
    \/ \E j \in JobIds : CancelCodexAuth(j)
    \/ \E s \in Sessions : CancelActiveChat(s) \/ DeleteChatSession(s)

ServerStep ==
    \/ ReconcileExpiredJobs
    \/ \E j \in JobIds : \E op \in { "RUNNING", "FAILED", "SUCCEEDED" } :
        UpdateInstanceDeletionCleanup(j, op)

Next == QueueStep \/ AgentStep \/ OperatorStep \/ ServerStep \/ Tick

Spec == Init /\ [][Next]_vars

(* Clocks run, every Host Agent keeps polling for work, the maintenance    *)
(* loop keeps running, and no execution renews its lease for ever.  Nothing *)
(* is assumed of acknowledgements, completions or the operator.             *)
Fairness ==
    /\ WF_vars(Tick)
    /\ \A h \in Hosts : WF_vars(ClaimJob(h))
    /\ WF_vars(ReconcileExpiredJobs)
    /\ <>[][~\E j \in JobIds : \E t \in Issued(j) : RenewJob(j, t)]_vars

FairSpec == Spec /\ Fairness

------------------------------------------------------------------------------
(* Properties.                                                             *)

(* The active-job fence of the queueing transactions: an instance never has *)
(* two unfinished jobs other than chat messages, whatever the order in      *)
(* which requests, claims, expiries, completions and cancellations arrive.  *)
OneExclusiveJob ==
    \A j, k \in JobIds :
        /\ Active(j) /\ ~Chat(j) /\ Active(k) /\ ~Chat(k)
        /\ jobs[j].inst = jobs[k].inst
        => j = k

(* The lifecycle fence: an unfinished lifecycle job and the status it wrote *)
(* when queued stand and fall together.  No reclaim, expiry, inspection or  *)
(* cleanup moves the status under a job, and no ended job leaves behind an  *)
(* instance that every queue refuses ("wait for the current operation").    *)
LifecycleFence ==
    /\ \A j \in JobIds : Active(j) /\ Lifecycle(j) => inst[jobs[j].inst] = QueuedStatus(jobs[j].type)
    /\ \A i \in Instances : inst[i] \in TransitionalStatuses =>
          \E j \in JobIds : Active(j) /\ Lifecycle(j) /\ jobs[j].inst = i

(* Chat messages skip the active-job check, yet no lifecycle job is ever    *)
(* unfinished together with one on the same instance: a message is taken    *)
(* only while RUNNING and a lifecycle job only while nothing is active.     *)
ChatLifecycleExclusion ==
    \A j, k \in JobIds :
        Active(j) /\ Lifecycle(j) /\ Active(k) /\ Chat(k) => jobs[j].inst # jobs[k].inst

(* ClaimJob and the session fence: at most one message of a session is in   *)
(* the hands of a worker, and messages leave the queue in the order sent.   *)
SessionInOrder ==
    \A j, k \in JobIds :
        /\ Chat(j) /\ Chat(k) /\ jobs[j].sess = jobs[k].sess /\ j < k
        => /\ ~(Live(j) /\ Live(k))
           /\ jobs[j].status = "PENDING" => jobs[k].attempts = 0

(* The operation an operator sees agrees with its job through every path    *)
(* that ends a job, and a deletion is reported done exactly when the        *)
(* instance is DELETED, never by the Host Agent's half of it.               *)
OperationAgrees ==
    \A j \in JobIds :
        /\ jobs[j].status = "PENDING" <=> ops[j] = "PENDING"
        /\ Leased(j) => ops[j] = "RUNNING"
        /\ jobs[j].status = "FAILED" => ops[j] = "FAILED"
        /\ jobs[j].status = "SUCCEEDED" =>
              IF jobs[j].type = "delete"
              THEN ops[j] = "SUCCEEDED" <=> inst[jobs[j].inst] = "DELETED"
              ELSE ops[j] = "SUCCEEDED"

(* A configuration row is PENDING exactly while a job that carries its      *)
(* desired revision is unfinished, and APPLIED only with the desired        *)
(* revision applied: no expiry or stale completion strands or misreports it.*)
ConfigurationAgrees ==
    \A c \in ConfigTypes, i \in Instances :
        /\ config[c][i].status = "PENDING" <=>
              \E j \in JobIds : /\ Active(j) /\ jobs[j].type = c /\ jobs[j].inst = i
                                /\ jobs[j].rev = config[c][i].desired
        /\ config[c][i].status = "APPLIED" => config[c][i].applied = config[c][i].desired

(* A chat stream ends exactly when its message does: one terminal event,    *)
(* after every other event, whether the run completed, was cancelled, or    *)
(* its lease was lost, and whatever the agent was still sending.            *)
StreamEndsOnce ==
    \A j \in JobIds : messages[j] \in { "PENDING", "SUCCEEDED", "FAILED" } =>
        LET ends == { e \in events[j] : e.type \in TerminalEvents }
        IN IF messages[j] = "PENDING" THEN ends = {} /\ Active(j)
           ELSE /\ jobs[j].status = messages[j]
                /\ \E e \in events[j] : ends = {e} /\ \A f \in events[j] \ {e} : f.seq < e.seq

(* insertOperationAndJob: the queue of a host never passes its limit.  And   *)
(* ReconcileExpiredJobs, "replaying an unknown upstream state could execute *)
(* Hermes tools more than once": a chat message is handed out at most once, *)
(* and no job more often than jobLeaseMaxClaims.                            *)
LimitsHold ==
    /\ \A h \in Hosts : Cardinality(HostQueue(h)) <= QueueMax
    /\ \A j \in JobIds : /\ jobs[j].attempts <= MaxClaims
                         /\ Chat(j) => jobs[j].attempts <= 1

(* An ended job stays as it ended: a completion, renewal or expiry that     *)
(* arrives late, twice, or under an earlier token of the job changes        *)
(* nothing of it; only deleting its chat session removes it.                *)
TerminalIsFinal ==
    [][\A j \in JobIds : jobs[j].status \in TerminalStatuses =>
            jobs'[j] = jobs[j] \/ jobs'[j].status = "GONE"]_vars

(* An instance leaves a status owned by a job, or DELETING, only in a step  *)
(* that ends the job, or, after it succeeded in removing the runtime, in    *)
(* the step that ends the delete operation.                                 *)
OwnedStatusReleasedByOwner ==
    [][\A i \in Instances :
         inst[i] \in TransitionalStatuses \cup { "DELETING" } /\ inst'[i] # inst[i] =>
            \E j \in JobIds :
               /\ Lifecycle(j) /\ jobs[j].inst = i /\ QueuedStatus(jobs[j].type) = inst[i]
               /\ \/ Active(j) /\ jobs'[j].status \in TerminalStatuses
                  \/ jobs[j].type = "delete" /\ ops[j] # "SUCCEEDED" /\ ops'[j] = "SUCCEEDED"]_vars

(* Every queued job ends, even if no worker ever answers after a claim:     *)
(* expiry, reclaim and the claim limit together leave no job, and so no     *)
(* instance or chat message, waiting for a worker that is gone.             *)
JobsEnd == \A j \in JobIds : Active(j) ~> ~Active(j)

(* README: "all queues use a per-instance active-job fence ... one instance *)
(* never receives two live jobs".  Not what the chat queue does.            *)
OneLiveJobPerInstance ==
    \A j, k \in JobIds : Live(j) /\ Live(k) /\ jobs[j].inst = jobs[k].inst => j = k
==============================================================================
