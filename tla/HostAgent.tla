------------------------------- MODULE HostAgent -------------------------------
(***************************************************************************)
(* The Host Agent of one host composed with the job queue: workers that    *)
(* claim, acknowledge, execute and complete jobs, the renewal loop beside  *)
(* every execution, shutdown with its drain period, crash and restart.     *)
(* The control plane's half of a request is the action of JobStore with    *)
(* the same name; here its environment is this agent and not just any      *)
(* holder of a token.                                                      *)
(*                                                                         *)
(* A request takes effect at most once, while its client waits; it, or its *)
(* answer, may be lost.  Nobody waits longer than HttpTimeout.  All time   *)
(* is measured as durations, so one Tick serves both sides.  The executor  *)
(* stops when its context is canceled, with two exceptions: an MCP         *)
(* configuration and a restore onto a clean host roll back what they have  *)
(* changed in a context of their own, whatever has become of the lease.    *)
(***************************************************************************)
EXTENDS JobStore

CONSTANTS
    Workers,        \* JobConcurrency job loops
    HttpTimeout,    \* the HTTP client's timeout, in ticks
    RenewInterval,  \* LeaseRenewInterval
    RetryDelay,     \* pause after a failed renewal
    DetachedLimit,  \* detachedCompletionTimeout
    RollbackLimit,  \* timeout of a rollback outside the canceled context
    MaxCrashes      \* bound: shutdowns and crashes of the agent

ASSUME AgentAssumption ==
    /\ HttpTimeout \in Nat /\ RenewInterval \in Nat \ {0}
    /\ RetryDelay \in Nat /\ DetachedLimit \in Nat /\ RollbackLimit \in Nat /\ MaxCrashes \in Nat

(* None of these can be configured: a lease of 300 seconds, a renewal every  *)
(* 60, a client that waits 20.  A slow answer and a slow renewal together    *)
(* fit into the safety window, and a renewal falls due before it begins.     *)
ASSUME TimingAssumption ==
    /\ 2 * HttpTimeout <= RenewInterval /\ 2 * HttpTimeout <= LeaseTicks \div 5
    /\ RenewInterval + LeaseTicks \div 5 <= LeaseTicks

VARIABLES
    worker,   \* what each job loop is doing
    agent,    \* "up", or "draining" between a shutdown and its end
    crashes   \* shutdowns and crashes so far

agentVars == <<worker, agent, crashes>>
fleetVars == <<vars, agentVars>>

(* Mutant: renewal is tried until the very end of the lease.               *)
safetyWindow_None == 0

safetyWindow == IF RenewInterval > LeaseTicks \div 5 THEN LeaseTicks \div 5 ELSE RenewInterval

(* Jobs whose input is fetched under the lease before they are executed.   *)
InputTypes == ConfigTypes \cup { "recovery.restore", "chat.send" }

(* Jobs whose rollback does not end with the context of the execution.     *)
DetachedRollbackTypes == { "mcp.configure", "recovery.restore" }

IdleWorker ==
    [pc |-> "idle", job |-> 0, token |-> NoToken, req |-> "none", age |-> 0,
     renew |-> "none", renewAge |-> 0, timer |-> 0, deadline |-> 0,
     ok |-> FALSE, st |-> "", verified |-> FALSE]

Executing(w) == worker[w].pc \in { "fetching", "working" }
Undoing(w) == worker[w].pc = "undoing"
Renewing(w) == worker[w].pc \in { "fetching", "working", "completing" }
Waiting(w) == worker[w].req \in { "sent", "granted", "refused" }

Become(w, rec) == worker' = [worker EXCEPT ![w] = rec]
Sent(rec) == [rec EXCEPT !.req = "sent", !.age = 0]

FleetInit ==
    /\ Init
    /\ worker = [w \in Workers |-> IdleWorker]
    /\ agent = "up" /\ crashes = 0

------------------------------------------------------------------------------
(* runJobLoop and processNextWithExecutionContext up to the execution.     *)

Poll(w) ==
    /\ agent = "up" /\ worker[w].pc = "idle"
    /\ Become(w, Sent([IdleWorker EXCEPT !.pc = "claiming"]))
    /\ UNCHANGED <<vars, agent, crashes>>

ServeClaim(w, h) ==
    /\ worker[w].pc = "claiming" /\ worker[w].req = "sent"
    /\ \/ /\ ClaimJob(h)
          /\ \/ \E j \in JobIds :
                  /\ jobs'[j].attempts > jobs[j].attempts
                  /\ Become(w, [worker[w] EXCEPT !.req = "granted", !.job = j,
                                                 !.token = jobs'[j].token])
             \/ /\ \A j \in JobIds : jobs'[j].attempts = jobs[j].attempts
                /\ Become(w, [worker[w] EXCEPT !.req = "refused"])
       \/ /\ Candidates(h) = {}
          /\ Become(w, [worker[w] EXCEPT !.req = "refused"])
          /\ UNCHANGED vars
    /\ UNCHANGED <<agent, crashes>>

(* A decoded claim is not active work yet: shutdown drops it here.         *)
ReceiveClaim(w) ==
    /\ worker[w].pc = "claiming" /\ worker[w].req \in { "granted", "refused" }
    /\ IF worker[w].req = "granted" /\ agent = "up"
       THEN Become(w, Sent([worker[w] EXCEPT !.pc = "acking"]))
       ELSE Become(w, IdleWorker)
    /\ UNCHANGED <<vars, agent, crashes>>

ServeAck(w) ==
    LET j == worker[w].job
    IN /\ worker[w].pc = "acking" /\ worker[w].req = "sent"
       /\ \/ /\ AcknowledgeJob(j, worker[w].token)
             /\ Become(w, [worker[w] EXCEPT !.req = "granted"])
          \/ /\ ~(Holds(j, worker[w].token) /\ jobs[j].status = "LEASED")
             /\ Become(w, [worker[w] EXCEPT !.req = "refused"])
             /\ UNCHANGED vars
       /\ UNCHANGED <<agent, crashes>>

(* The renewal loop starts with a full lease on its own clock.             *)
ReceiveAck(w) ==
    /\ worker[w].pc = "acking" /\ worker[w].req \in { "granted", "refused" }
    /\ IF worker[w].req = "granted"
       THEN Become(w, [worker[w] EXCEPT
                !.pc = IF jobs[worker[w].job].type \in InputTypes THEN "fetching" ELSE "working",
                !.req = "none", !.age = 0, !.timer = RenewInterval, !.deadline = LeaseTicks])
       ELSE Become(w, IdleWorker)
    /\ UNCHANGED <<vars, agent, crashes>>

(* A claim or acknowledgement that fails, or is cut by shutdown, is not    *)
(* repeated: the lease runs out on the server.                             *)
ClaimFails(w) ==
    /\ worker[w].pc \in { "claiming", "acking" }
    /\ Become(w, IdleWorker)
    /\ UNCHANGED <<vars, agent, crashes>>

------------------------------------------------------------------------------
(* Execution and completion.                                               *)

(* The status sent when the input cannot be had.                           *)
InputFailureStatus(job) ==
    CASE job.type = "recovery.restore" -> "STOPPED"
      [] job.type \in ConfigTypes -> job.asked
      [] OTHER -> ""

(* downloadRecoveryPoint, downloadMessagingConfiguration and the like: the *)
(* control plane hands the input to the holder of the lease only.          *)
FetchInput(w) ==
    LET rec == worker[w]
    IN /\ rec.pc = "fetching"
       /\ \/ /\ Holds(rec.job, rec.token)
             /\ Become(w, [rec EXCEPT !.pc = "working"])
          \/ Become(w, [rec EXCEPT !.pc = "completing", !.ok = FALSE,
                                   !.st = InputFailureStatus(jobs[rec.job])])
       /\ UNCHANGED <<vars, agent, crashes>>

(* executeHermesUpdate has verified the target image on the host.          *)
InstallVerified(w) ==
    /\ worker[w].pc = "working" /\ jobs[worker[w].job].type = "hermes.update"
    /\ ~worker[w].verified
    /\ Become(w, [worker[w] EXCEPT !.verified = TRUE])
    /\ UNCHANGED <<vars, agent, crashes>>

ExecutionEnds(w, ok, st) ==
    LET job == jobs[worker[w].job]
    IN /\ worker[w].pc = "working"
       /\ IF ResultStatuses(job, ok) = {} THEN st = "" ELSE st \in ResultStatuses(job, ok)
       /\ job.type = "hermes.update" /\ ok => worker[w].verified
       /\ Become(w, [worker[w] EXCEPT !.pc = "completing", !.ok = ok, !.st = st])
       /\ UNCHANGED <<vars, agent, crashes>>

(* completeJob: sent again after every transient failure.                  *)
SendCompletion(w) ==
    /\ worker[w].pc \in { "completing", "detached" } /\ worker[w].req = "none"
    /\ Become(w, Sent(worker[w]))
    /\ UNCHANGED <<vars, agent, crashes>>

(* Mutant: a repeated completion is not recognised.                        *)
Answered_Forgotten(rec) == FALSE

(* The same result under the same token is answered again, not applied.    *)
Answered(rec) ==
    /\ jobs[rec.job].token = rec.token /\ jobs[rec.job].status \in TerminalStatuses
    /\ jobs[rec.job].result =
          [outcome |-> IF rec.ok THEN "SUCCESS" ELSE "FAILURE", status |-> rec.st]

ServeCompletion(w) ==
    LET rec == worker[w]
    IN /\ rec.pc \in { "completing", "detached" } /\ rec.req = "sent"
       /\ \/ /\ CompleteJob(rec.job, rec.token, rec.ok, rec.st)
             /\ Become(w, [rec EXCEPT !.req = "granted"])
          \/ /\ ~Completable(rec.job, rec.token)
             /\ Become(w, [rec EXCEPT !.req = IF Answered(rec) THEN "granted" ELSE "refused"])
             /\ UNCHANGED vars
       /\ UNCHANGED <<agent, crashes>>

ReceiveCompletion(w) ==
    /\ worker[w].pc \in { "completing", "detached" } /\ worker[w].req \in { "granted", "refused" }
    /\ Become(w, IdleWorker)
    /\ UNCHANGED <<vars, agent, crashes>>

CompletionFails(w) ==
    /\ worker[w].pc \in { "completing", "detached" } /\ Waiting(w)
    /\ Become(w, [worker[w] EXCEPT !.req = "none", !.age = 0])
    /\ UNCHANGED <<vars, agent, crashes>>

(* The detached report of a verified install has its own short limit.      *)
DetachedGivesUp(w) ==
    /\ worker[w].pc = "detached" /\ worker[w].deadline = 0
    /\ Become(w, IdleWorker)
    /\ UNCHANGED <<vars, agent, crashes>>

------------------------------------------------------------------------------
(* runLeaseRenewalLoop, and what a canceled execution leaves.               *)

(* Mutant: the loss of the lease does not reach the execution.             *)
Canceled_Ignored(rec, done) == [rec EXCEPT !.renew = "none", !.renewAge = 0, !.timer = RenewInterval]

(* Mutant: every rollback runs in a context of its own.                    *)
Canceled_RollsBack(rec, done) ==
    IF rec.pc = "working" /\ ~done
    THEN [rec EXCEPT !.pc = "undoing", !.renew = "none", !.renewAge = 0, !.timer = 0,
                     !.deadline = RollbackLimit]
    ELSE IdleWorker

(* What a canceled execution comes to.  The result of an update that had   *)
(* verified its target is still reported, outside the canceled context:    *)
(* done, or left stopped.  The rollback of an MCP configuration, or of a   *)
(* restore onto a clean host, goes on outside it too, if there is anything *)
(* to roll back, and is not reported.                                      *)
Canceled(rec, done) ==
    CASE rec.pc = "working" /\ rec.verified ->
           [rec EXCEPT !.pc = "detached", !.ok = done,
                       !.st = IF done THEN jobs[rec.job].asked ELSE "STOPPED",
                       !.req = "none", !.age = 0, !.renew = "none", !.renewAge = 0,
                       !.timer = 0, !.deadline = DetachedLimit]
      [] rec.pc = "working" /\ ~rec.verified /\ jobs[rec.job].type \in DetachedRollbackTypes /\ ~done ->
           [rec EXCEPT !.pc = "undoing", !.renew = "none", !.renewAge = 0, !.timer = 0,
                       !.deadline = RollbackLimit]
      [] OTHER -> IdleWorker

(* The rollback has ended, or its own timeout has ended it.                *)
RollbackEnds(w) ==
    /\ Undoing(w) /\ Become(w, IdleWorker)
    /\ UNCHANGED <<vars, agent, crashes>>

SendRenewal(w) ==
    /\ Renewing(w) /\ worker[w].renew = "none" /\ worker[w].timer = 0
    /\ Become(w, [worker[w] EXCEPT !.renew = "sent", !.renewAge = 0])
    /\ UNCHANGED <<vars, agent, crashes>>

ServeRenewal(w) ==
    LET rec == worker[w]
        ended == jobs[rec.job].status \in TerminalStatuses /\ jobs[rec.job].token = rec.token
    IN /\ rec.renew = "sent"
       /\ \/ /\ RenewJob(rec.job, rec.token)
             /\ Become(w, [rec EXCEPT !.renew = "granted"])
          \/ /\ ~(Holds(rec.job, rec.token) /\ jobs[rec.job].status = "RUNNING")
             /\ Become(w, [rec EXCEPT !.renew = IF ended THEN "granted" ELSE "refused"])
             /\ UNCHANGED vars
       /\ UNCHANGED <<agent, crashes>>

ReceiveRenewal(w) ==
    /\ worker[w].renew \in { "granted", "refused" }
    /\ IF worker[w].renew = "granted"
       THEN Become(w, [worker[w] EXCEPT !.renew = "none", !.renewAge = 0,
                                        !.timer = RenewInterval, !.deadline = LeaseTicks])
       ELSE \E done \in BOOLEAN : Become(w, Canceled(worker[w], done))
    /\ UNCHANGED <<vars, agent, crashes>>

(* A failed renewal is repeated until the safety window would be entered.  *)
RenewalFails(w) ==
    /\ worker[w].renew \in { "sent", "granted" }
    /\ IF RetryDelay > worker[w].deadline - safetyWindow
       THEN \E done \in BOOLEAN : Become(w, Canceled(worker[w], done))
       ELSE Become(w, [worker[w] EXCEPT !.renew = "none", !.renewAge = 0, !.timer = RetryDelay])
    /\ UNCHANGED <<vars, agent, crashes>>

------------------------------------------------------------------------------
(* Run: shutdown, drain and restart; a crash takes every goroutine along.  *)

Shutdown ==
    /\ agent = "up" /\ crashes < MaxCrashes
    /\ agent' = "draining" /\ crashes' = crashes + 1
    /\ UNCHANGED <<vars, worker>>

GracePeriodEnds ==
    /\ agent = "draining" /\ \E w \in Workers : Renewing(w)
    /\ \E done \in SUBSET Workers :
          worker' = [w \in Workers |->
                        IF Renewing(w) THEN Canceled(worker[w], w \in done) ELSE worker[w]]
    /\ UNCHANGED <<vars, agent, crashes>>

Restart ==
    /\ agent = "draining" /\ \A w \in Workers : worker[w].pc = "idle"
    /\ agent' = "up"
    /\ UNCHANGED <<vars, worker, crashes>>

Crash ==
    /\ crashes < MaxCrashes
    /\ crashes' = crashes + 1 /\ agent' = "up"
    /\ worker' = [w \in Workers |-> IdleWorker]
    /\ UNCHANGED vars

------------------------------------------------------------------------------
Down(n) == IF n > 0 THEN n - 1 ELSE 0

(* Time stands still for nobody, and no answer takes longer than allowed;  *)
(* due timers fire before it passes.                                       *)
FleetTick ==
    /\ \A w \in Workers : /\ Waiting(w) => worker[w].age < HttpTimeout
                          /\ worker[w].renew # "none" => worker[w].renewAge < HttpTimeout
                          /\ Renewing(w) /\ worker[w].renew = "none" => worker[w].timer > 0
                          /\ worker[w].pc \in { "detached", "undoing" } => worker[w].deadline > 0
    /\ worker' = [w \in Workers |->
            [worker[w] EXCEPT !.age = IF Waiting(w) THEN @ + 1 ELSE @,
                              !.renewAge = IF worker[w].renew = "none" THEN @ ELSE @ + 1,
                              !.timer = Down(@), !.deadline = Down(@)]]
    /\ \/ Tick
       \/ (~\E j \in JobIds : Live(j)) /\ UNCHANGED vars
    /\ UNCHANGED <<agent, crashes>>

(* What happens at the control plane without the agent.                    *)
ControlPlane == (QueueStep \/ OperatorStep \/ ServerStep) /\ UNCHANGED agentVars

WorkerStep(w) ==
    \/ Poll(w) \/ ReceiveClaim(w) \/ ServeAck(w) \/ ReceiveAck(w) \/ ClaimFails(w)
    \/ \E h \in Hosts : ServeClaim(w, h)
    \/ FetchInput(w) \/ InstallVerified(w)
    \/ \E ok \in BOOLEAN, st \in InstanceStatuses \cup { "" } : ExecutionEnds(w, ok, st)
    \/ SendCompletion(w) \/ ServeCompletion(w) \/ ReceiveCompletion(w)
    \/ CompletionFails(w) \/ DetachedGivesUp(w)
    \/ SendRenewal(w) \/ ServeRenewal(w) \/ ReceiveRenewal(w) \/ RenewalFails(w)
    \/ RollbackEnds(w)

FleetNext ==
    \/ ControlPlane
    \/ \E w \in Workers : WorkerStep(w)
    \/ Shutdown \/ GracePeriodEnds \/ Restart \/ Crash
    \/ FleetTick

FleetSpec == FleetInit /\ [][FleetNext]_fleetVars

------------------------------------------------------------------------------
(* Properties.                                                             *)

(* runLeaseRenewalLoop and the server's lease together: a worker that      *)
(* still acts on the instance of a lifecycle job holds its unexpired       *)
(* lease, through lost and slow answers, failed renewals, reclaims,        *)
(* shutdown and restart.  The exception is a rollback that outlasts its    *)
(* canceled context, of a job of one of two types.                         *)
ExecutesUnderLease ==
    \A w \in Workers : (Executing(w) \/ Undoing(w)) /\ Lifecycle(worker[w].job) =>
        \/ Live(worker[w].job) /\ jobs[worker[w].job].token = worker[w].token
        \/ Undoing(w) /\ jobs[worker[w].job].type \in DetachedRollbackTypes

(* The comment in executeHermesUpdate: every Docker step after the loss of *)
(* the lease must stop, so that two workers do not change the same instance. *)
NoTwoChangeAnInstance ==
    \A v, w \in Workers :
        LET job(u) == worker[u].job
            Changes(u) == (Executing(u) \/ Undoing(u)) /\ Lifecycle(job(u))
        IN v # w /\ Changes(v) /\ Changes(w) => jobs[job(v)].inst # jobs[job(w)].inst

(* completeJob is repeated after a lost answer: a worker whose result was  *)
(* stored is never told that it lost the lease, however often and however  *)
(* late within its lease it asks.                                          *)
OwnResultIsAnswered ==
    \A w \in Workers : worker[w].pc \in { "completing", "detached" } /\ worker[w].req = "refused" =>
        ~(/\ jobs[worker[w].job].status \in TerminalStatuses
          /\ jobs[worker[w].job].token = worker[w].token)

(* The abstract queue: the lifecycle jobs, the workers that execute them    *)
(* and those that still roll back a canceled execution.  A job that is      *)
(* replayed, given up or reported by this code is a step, or no step, of    *)
(* ExclusiveExecution; so is every step of the chats and inspections beside *)
(* them.                                                                    *)
Phase(j) ==
    CASE ~Lifecycle(j) -> "none" [] Lifecycle(j) /\ Active(j) -> "open" [] OTHER -> "ended"
Target(j) == IF Lifecycle(j) THEN jobs[j].inst ELSE NoOne
Lasting(j) == Lifecycle(j) /\ jobs[j].type \in DetachedRollbackTypes
Runners(j) == { w \in Workers : Executing(w) /\ worker[w].job = j /\ Lifecycle(j) }
Undoers(j) == { w \in Workers : Undoing(w) /\ worker[w].job = j /\ Lifecycle(j) }

Abstract == INSTANCE ExclusiveExecution WITH
    Jobs <- JobIds, Targets <- Instances, phase <- [j \in JobIds |-> Phase(j)],
    target <- [j \in JobIds |-> Target(j)], lasting <- [j \in JobIds |-> Lasting(j)],
    runner <- [j \in JobIds |-> Runners(j)], undoing <- [j \in JobIds |-> Undoers(j)]

(* Lifecycle jobs are executed exclusively, beside nothing but the rollback *)
(* of a canceled execution of one of two types, end once and only when no   *)
(* worker executes them, and are never taken up again.                      *)
ExecutionIsExclusive == Abstract!Spec
================================================================================
