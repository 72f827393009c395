------------------------------ MODULE Campaigns ------------------------------
(***************************************************************************)
(* Diagnostics campaigns: each target of a campaign is asked for a fresh   *)
(* observation through the one request row an instance may have, at most   *)
(* Concurrency of them at a time.  A pass over a campaign (the starting    *)
(* request or the background loop, one at a time under the campaign's      *)
(* lock) makes one transaction per target; observations, the operator's    *)
(* own requests and restarts come in between.                              *)
(***************************************************************************)
EXTENDS Naturals, FiniteSets

CONSTANTS
    Instances,   \* ordered by name
    CampaignIds,
    MaxConcurrency

ASSUME CampaignAssumption ==
    /\ Instances \subseteq Nat /\ IsFiniteSet(Instances) /\ IsFiniteSet(CampaignIds)
    /\ MaxConcurrency \in Nat \ {0} /\ "none" \notin CampaignIds /\ "operator" \notin CampaignIds

VARIABLES
    op, concurrency, \* the campaign's operation
    target,          \* campaign_targets
    request,         \* observation_requests: whose request an instance has
    fresh,           \* an observation was received since the target's request
    late,            \* the target's time is over
    held,            \* the request the agent has read with its target
    pc, mem, todo    \* of the pass over a campaign

vars == <<op, concurrency, target, request, fresh, late, held, pc, mem, todo>>

Statuses == { "NONE", "PENDING", "RUNNING", "SUCCEEDED", "FAILED", "BLOCKED" }
Active(c) == op[c] \in { "PENDING", "RUNNING" }
Nothing == [i \in Instances |-> "NONE"]
Never == [c \in CampaignIds |-> [i \in Instances |-> FALSE]]

Init ==
    /\ op = [c \in CampaignIds |-> "NONE"] /\ concurrency = [c \in CampaignIds |-> 1]
    /\ target = [c \in CampaignIds |-> Nothing] /\ mem = target
    /\ request = [i \in Instances |-> "none"] /\ held = request
    /\ fresh = Never /\ late = Never
    /\ pc = [c \in CampaignIds |-> "idle"] /\ todo = [c \in CampaignIds |-> {}]

Members(c) == { i \in Instances : target[c][i] # "NONE" }
Has(list, statuses) == \E i \in Instances : list[i] \in statuses
Terminal(list) == ~Has(list, { "PENDING", "RUNNING" })
Running(list) == { i \in Instances : list[i] = "RUNNING" }

------------------------------------------------------------------------------
InActiveCampaign(i) == \E c \in CampaignIds : Active(c) /\ i \in Members(c)

Bounded(n, set) == IF n > Cardinality(set) THEN Cardinality(set) ELSE n

(* CreateCampaign: none of the instances is in an active campaign.         *)
CreateCampaign(c, instances, n) ==
    /\ op[c] = "NONE" /\ instances # {} /\ \A i \in instances : ~InActiveCampaign(i)
    /\ op' = [op EXCEPT ![c] = "PENDING"] /\ concurrency' = [concurrency EXCEPT ![c] = n]
    /\ target' = [target EXCEPT ![c] =
                    [i \in Instances |-> IF i \in instances THEN "PENDING" ELSE "NONE"]]
    /\ UNCHANGED <<request, fresh, late, held, pc, mem, todo>>

(* normalizeCampaignRequest and startCampaign.                             *)
Create(c) ==
    \E instances \in SUBSET Instances : \E n \in 1 .. MaxConcurrency :
        CreateCampaign(c, instances, Bounded(n, instances))

(* retryCampaign: the failed and blocked targets of one that has ended.    *)
Retry(c, d) ==
    /\ op[d] \in { "SUCCEEDED", "FAILED" }
    /\ LET again == { i \in Instances : target[d][i] \in { "FAILED", "BLOCKED" } }
       IN  CreateCampaign(c, again, Bounded(concurrency[d], again))

------------------------------------------------------------------------------
(* reconcileCampaign.                                                      *)

(* ListCampaignTargets, under the lock.                                    *)
Begin(c) ==
    /\ pc[c] = "idle" /\ Active(c) /\ pc' = [pc EXCEPT ![c] = "settle"]
    /\ mem' = [mem EXCEPT ![c] = target[c]] /\ todo' = [todo EXCEPT ![c] = Running(target[c])]
    /\ UNCHANGED <<op, concurrency, target, request, fresh, late, held>>

(* Mutant: the request of a target that failed stays.                      *)
FinishCampaignTarget_Leak(c, i, s) ==
    /\ UNCHANGED request
    /\ target' = [target EXCEPT ![c][i] = IF @ \in { "PENDING", "RUNNING" } THEN s ELSE @]
    /\ mem' = [mem EXCEPT ![c][i] = s]

(* FinishCampaignTarget: the request of a target that did not succeed is   *)
(* withdrawn, if it is still there.                                        *)
FinishCampaignTarget(c, i, s) ==
    /\ request' = IF /\ s # "SUCCEEDED" /\ mem[c][i] = "RUNNING" /\ request[i] = c
                     /\ target[c][i] \in { "PENDING", "RUNNING" }
                  THEN [request EXCEPT ![i] = "none"] ELSE request
    /\ target' = [target EXCEPT ![c][i] = IF @ \in { "PENDING", "RUNNING" } THEN s ELSE @]
    /\ mem' = [mem EXCEPT ![c][i] = s]

(* Answered, superseded by another request, timed out, or still waiting.   *)
Outcome(c, i) ==
    CASE request[i] = "none" /\ fresh[c][i] -> "SUCCEEDED"
      [] request[i] \notin { "none", c } -> "FAILED"
      [] request[i] \in { "none", c } /\ ~(request[i] = "none" /\ fresh[c][i]) /\ late[c][i] -> "FAILED"
      [] OTHER -> "RUNNING"

SettleOne(c) ==
    /\ pc[c] = "settle"
    /\ \E i \in todo[c] :
          /\ todo' = [todo EXCEPT ![c] = @ \ { i }]
          /\ IF Outcome(c, i) = "RUNNING" THEN UNCHANGED <<request, target, mem>>
             ELSE FinishCampaignTarget(c, i, Outcome(c, i))
    /\ UNCHANGED <<op, concurrency, fresh, late, held, pc>>

(* Mutant: targets that were blocked are not counted.                      *)
Ended_Blocked(list) == IF Has(list, { "FAILED" }) THEN "FAILED" ELSE "SUCCEEDED"

(* finishCampaign.                                                         *)
Ended(list) == IF Has(list, { "FAILED", "BLOCKED" }) THEN "FAILED" ELSE "SUCCEEDED"

(* UpdateControlPlaneOperation, with the result or with the progress.      *)
SetStatus(c) ==
    /\ op' = IF Active(c) THEN [op EXCEPT ![c] = IF Terminal(mem[c]) THEN Ended(mem[c]) ELSE "RUNNING"]
             ELSE op
    /\ pc' = [pc EXCEPT ![c] = "idle"]

Settled(c) ==
    /\ pc[c] = "settle" /\ todo[c] = {}
    /\ IF Terminal(mem[c]) THEN SetStatus(c) ELSE pc' = [pc EXCEPT ![c] = "queue"] /\ UNCHANGED op
    /\ UNCHANGED <<concurrency, target, request, fresh, late, held, mem, todo>>

(* Mutant: off by one.                                                     *)
Room_OneMore(c) == Cardinality(Running(mem[c])) <= concurrency[c] /\ Has(mem[c], { "PENDING" })

Room(c) == Cardinality(Running(mem[c])) < concurrency[c] /\ Has(mem[c], { "PENDING" })

(* StartCampaignObservation: the request and the target in one             *)
(* transaction; an instance has one request at most.                       *)
StartCampaignObservation(c, i) ==
    /\ request[i] = "none" /\ target[c][i] = "PENDING"
    /\ request' = [request EXCEPT ![i] = c] /\ target' = [target EXCEPT ![c][i] = "RUNNING"]
    /\ mem' = [mem EXCEPT ![c][i] = "RUNNING"]
    /\ fresh' = [fresh EXCEPT ![c][i] = FALSE] /\ late' = [late EXCEPT ![c][i] = FALSE]

(* queueCampaignTarget: the host is gone or outdated, the instance is not  *)
(* ready, another refresh is pending; the database fails; or it starts.    *)
QueueOne(c) ==
    /\ pc[c] = "queue" /\ Room(c)
    /\ LET i == CHOOSE j \in Instances :
                    mem[c][j] = "PENDING" /\ \A k \in Instances : mem[c][k] = "PENDING" => j <= k
       IN  \/ StartCampaignObservation(c, i)
           \/ (\E s \in { "BLOCKED", "FAILED" } : FinishCampaignTarget(c, i, s)) /\ UNCHANGED <<fresh, late>>
    /\ UNCHANGED <<op, concurrency, held, pc, todo>>

EndPass(c) ==
    /\ pc[c] = "queue" /\ ~Room(c) /\ SetStatus(c)
    /\ UNCHANGED <<concurrency, target, request, fresh, late, held, mem, todo>>

------------------------------------------------------------------------------
(* The agent reads its targets with their requests, and reports later.     *)
ReadTargets(i) ==
    /\ held[i] # request[i] /\ held' = [held EXCEPT ![i] = request[i]]
    /\ UNCHANGED <<op, concurrency, target, request, fresh, late, pc, mem, todo>>

(* RecordObservations: only the request the report names is cleared.       *)
RecordObservation(i) ==
    /\ fresh' = [c \in CampaignIds |-> [fresh[c] EXCEPT ![i] = TRUE]]
    /\ request' = IF held[i] # "none" /\ request[i] = held[i] THEN [request EXCEPT ![i] = "none"] ELSE request
    /\ UNCHANGED <<op, concurrency, target, late, held, pc, mem, todo>>

RequestObservation(i) ==
    /\ request[i] = "none" /\ request' = [request EXCEPT ![i] = "operator"]
    /\ UNCHANGED <<op, concurrency, target, fresh, late, held, pc, mem, todo>>

Elapse(c, i) ==
    /\ target[c][i] = "RUNNING" /\ ~late[c][i] /\ late' = [late EXCEPT ![c][i] = TRUE]
    /\ UNCHANGED <<op, concurrency, target, request, fresh, held, pc, mem, todo>>

Restart ==
    /\ pc' = [c \in CampaignIds |-> "idle"] /\ todo' = [c \in CampaignIds |-> {}]
    /\ UNCHANGED <<op, concurrency, target, request, fresh, late, held, mem>>

(* PrepareCleanHostRecovery, before the server starts on a restored        *)
(* database: active operations fail, their targets stay as they are, the   *)
(* observations and their requests are deleted.                            *)
PrepareCleanHostRecovery ==
    /\ op' = [c \in CampaignIds |-> IF Active(c) THEN "FAILED" ELSE op[c]]
    /\ request' = [i \in Instances |-> "none"] /\ fresh' = Never
    /\ pc' = [c \in CampaignIds |-> "idle"] /\ todo' = [c \in CampaignIds |-> {}]
    /\ UNCHANGED <<concurrency, target, late, held, mem>>

Pass(c) == Begin(c) \/ SettleOne(c) \/ Settled(c) \/ QueueOne(c) \/ EndPass(c)

Environment ==
    \/ \E i \in Instances : ReadTargets(i) \/ RecordObservation(i) \/ RequestObservation(i)
    \/ \E c \in CampaignIds : \E i \in Instances : Elapse(c, i)

Next ==
    \/ \E c \in CampaignIds : Create(c) \/ (\E d \in CampaignIds : Retry(c, d)) \/ Pass(c)
    \/ Environment \/ Restart \/ PrepareCleanHostRecovery

Spec == Init /\ [][Next]_vars

(* The background loop keeps running and time passes; no restarts.         *)
NextUp == (\E c \in CampaignIds : Create(c) \/ Pass(c)) \/ Environment
LiveSpec ==
    /\ Init /\ [][NextUp]_vars
    /\ \A c \in CampaignIds : WF_vars(Pass(c)) /\ \A i \in Instances : WF_vars(Elapse(c, i))

------------------------------------------------------------------------------
TypeOK ==
    /\ op \in [CampaignIds -> { "NONE", "PENDING", "RUNNING", "SUCCEEDED", "FAILED" }]
    /\ concurrency \in [CampaignIds -> 1 .. MaxConcurrency]
    /\ { target, mem } \subseteq [CampaignIds -> [Instances -> Statuses]]
    /\ { request, held } \subseteq [Instances -> CampaignIds \cup { "none", "operator" }]
    /\ { fresh, late } \subseteq [CampaignIds -> [Instances -> BOOLEAN]]
    /\ pc \in [CampaignIds -> { "idle", "settle", "queue" }] /\ todo \in [CampaignIds -> SUBSET Instances]

(* Never more targets of a campaign wait for an observation than its       *)
(* concurrency, through restarts in the middle of a pass.                  *)
ConcurrencyHeld == \A c \in CampaignIds : Cardinality(Running(target[c])) <= concurrency[c]

(* A target that has ended leaves no request behind: it would refuse every *)
(* later diagnostics refresh of the instance as busy.                      *)
NoRequestLeft ==
    \A c \in CampaignIds : \A i \in Instances : request[i] = c => target[c][i] = "RUNNING"

(* A campaign that succeeded has a fresh observation of each of its        *)
(* instances recorded, through restarts and timeouts racing reports.       *)
SuccessIsComplete ==
    \A c \in CampaignIds : op[c] = "SUCCEEDED" => \A i \in Members(c) : target[c][i] = "SUCCEEDED"

(* Every campaign ends, whether observations arrive or not.                *)
CampaignEnds == \A c \in CampaignIds : op[c] = "PENDING" ~> op[c] \in { "SUCCEEDED", "FAILED" }
==============================================================================
