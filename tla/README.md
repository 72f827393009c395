# TLA+ models of Hermes Fleet Manager

Fleet Manager runs Hermes instances (Docker Compose projects) on several hosts.
A **control plane** (Go, one SQLite database, an HTTP API, a web UI) keeps the
desired state; a **Host Agent** on each host polls it for typed jobs, executes
them and reports observations. This directory holds TLA+ modules for the parts
of that system whose correctness rests on the order of transactions, leases,
retries and failures, TLC runs over small instances, and TLAPS proofs for all
instances.

Run a model with `tlc -workers 2 -config MCJobs.cfg MCJobStore` and the proofs
of a component with `tlapm CampaignsProofs.tla` (one `...Proofs` module each;
`HostAgentProofs` has those of the queue as well), inside this directory. `PROJECT.json` maps every definition to the lines it
models and lists the hazards of the code with the properties that cover them.

## 1. Inventory

| component | state it keeps | operations | what is hard | what makes it correct | module |
|---|---|---|---|---|---|
| **Job queue** `store/store.go` | tables `instances`, `jobs`, `operations`, configuration tables | queue, `ClaimJob`, `AcknowledgeJob`, `RenewJob`, `CompleteJobWithHash`, `ReconcileExpiredJobs`, cancel, deletion | leases that run out under a live worker, results late or twice, several tables per outcome | one exclusive job per instance, status and job stand and fall together, ended jobs are final, every job ends | `JobStore` |
| **Chat** `store/chat.go`, `api/chat.go`, `chatartifacts` | sessions, messages, events; output manifests and files | send, stream events, upload, record, cancel, delete, reconcile | messages skip the active-job check; a lost lease must not be replayed; an answer is lost and its request repeated or handled late | order within a session, one terminal event, the recorded answer is the given one, a ready output is stored | `JobStore`, `ChatTurn` |
| **Observations and remediation** `store/store.go`, `api/server.go` | observations, `runtime_remediation_state` | validate, record, track, queue a repair, cancel | one HTTP request is four transactions; requests overlap | bounded attempts, a consistent ledger, cancellation that holds | `RuntimeRemediation` |
| **Host Agent** `agent/client.go` | the jobs it executes, lease deadlines, pending completions | job loops, renewal, completion retries, detached report, drain | renewal races expiry, a rollback outlasts its lease, restart between execution and report | executes only under its lease; an accepted result is answered | `HostAgent`, `ExclusiveExecution` |
| **Provisioner** `provisioner` | files, containers, image and volume of an instance | provision, start, stop, repair, reconcile, image repair, delete, configuration, restore, update, chat | a failure, cancellation or crash after any step, then a second attempt | recorded successes are true, data are kept, failures put things back | `HostWorkflows` with `RuntimeJobs`, `ConfigTransaction`, `RestorePoint`, `HermesUpdate`, `ChatTurn` |
| **Recovery points** `recovery/manager.go`, `api/server.go` | artifact and metadata files, reservations | reserve, upload, verify, fail, reset, delete, restore | crash between file and metadata; a late completion; retention under concurrency | files agree after every crash; a success has a verified artifact | `RecoveryPoints` |
| **Policies** `api/policies.go`, `store/policies.go` | rollout control state, targets | start, reconcile, pause, resume, cancel | the reconciler decides on what it read before it waited; restarts | canary first, nothing after a cancel, success is complete | `PolicyRollout` |
| **Campaigns** `api/campaigns.go`, `store/campaigns.go` | targets, the shared observation request | create, retry, pass, finish | requests shared with the operator and other campaigns; timeouts | bounded concurrency, own requests withdrawn | `Campaigns` |
| **Publishing** `cloudflare/routes.go`, `api/server.go` | DNS records, ingress rules, ownership ledger, observations, operations | publish, unpublish, reconcile, stale recovery, deletion cleanup | external calls fail midway; another hand edits the zone | what is shown is served, what was created is in the ledger, foreign records stay | `Publishing` |
| **Remote access** `remoteaccess`, `cloudflare/manager.go`, `api/server.go` | saved row, running configuration, token files, OAuth state | configure, disable, verify, renew, roll back, restore at the start | runtime and row are two steps; requests, the pass and the start interleave; a spent token | connectors run what the manager runs, which is the saved configuration; the authorization survives its renewals | `RemoteAccess` |
| **Runtime configuration reconciliation**, **backups**, **event hub**, release catalogue, reliability kit, scripts, web UI | | | | | not modelled, section 7 |

Interaction: the API handlers read an instance and call one store method, which
is one SQLite transaction; the Host Agents reach the same tables through
`claim`, `ack`, `renew`, `chat-events`, `complete` and `observations`; a
maintenance goroutine (`Server.Start`) runs `ReconcileExpiredJobs`, the stale
publications, pending deletions, rollouts, campaigns and the reconciliation of
chat artifacts. What is shared lives in the database and in files, so the
interleavings that matter are those of whole transactions and file operations,
together with what a handler or an agent remembers between two of them.

## 2. Modules

`FleetDomain <- JobStore <- HostAgent` extend one another, `HostAgent` refines
`ExclusiveExecution`, and `HostWorkflows` composes its five workflows by
`INSTANCE` over one shared execution. The other modules stand for themselves.

**FleetDomain** has no state. It holds the statuses, the job types and, per
type, the tables the code branches on: from which status a handler queues it,
the status written then, its priority, and where success, failure and a lost
lease leave the instance. `hermes.inspect` stands for the ten profile,
capability, skill and toolset jobs, which the store treats alike here.

**JobStore** has one variable per table and `reveals`, the credential requests
between the handler's check and the store call. Every store method is one
transaction and one action of the same name; an error return changes nothing.
A job's payload is reduced to the status it asks to return to and the revision
of a configuration. Time is relative: `left` is `lease_expires_at - now` in
ticks, cut at -1. A lease at exactly its end is neither usable nor reclaimable,
as in the code (`> now`, `< now`). A lease token is the number of its claim, and
the environment may present **any token ever issued** at any time, which covers
delayed, repeated and reordered requests as well as hung and restarted workers.

**RuntimeRemediation** models one instance and the requests of
`agentObservations`, each of which validates, records, tracks and queues in
separate transactions and may die between them.

**HostAgent** composes the job loops of one host with JobStore: here only this
agent presents tokens. A request takes effect at most once while its client
waits; it or its answer may be lost. The loss of the lease, or a shutdown, cancels
an execution, and what is left of it depends on the job (`Canceled`): nothing, the
detached report of a verified update, or a rollback. An MCP configuration rolls
back in a context without cancellation for up to 180 seconds
(provisioner.go:3096), a restore onto a clean host for up to five minutes (4746):
such a worker is `undoing` until the rollback ends, whatever becomes of the job.
`Phase`, `Target`, `Lasting`, `Runners` and `Undoers` are the refinement mapping to
**ExclusiveExecution**, the abstract promise of queue and agent for lifecycle jobs:
a job is submitted, executed by one worker at a time and beside no other lifecycle
job of its instance, and ended once. A worker that stops may leave a rollback
behind, of a *lasting* job only, and this rollback is all that may go on beside
the next execution.

**HostWorkflows** is `ExecuteWithProgress`: the type of the job selects a
workflow, the variables of the others are left alone.

* **RuntimeJobs**: the two managed files and the two containers, for one job
  after another. A container carries the image ID and the secrets it was
  created with.
* **ConfigTransaction**: `runtime.sync`, messaging and MCP as sequences of
  steps over the files and the readiness marker, with their rollbacks.
* **RestorePoint**: workspace and volume by the origin of their content, the
  rollback copies, the clean-host variant, the quarantine after a crash.
* **HermesUpdate**: the agent's update workflow, the installer with its
  rollback, the recovery point and what the control plane records.
* **ChatTurn**: the stream of one message (session, lock, frames, flushes),
  the outputs after it, and the control plane's event table, manifests and
  files. `requests` holds what is under way; the agent waits for the live one
  and repeats it, the others are handled late. The control plane may restart or
  reconcile its artifacts, the operator may cancel, delete an output or the
  session.

**RecoveryPoints**, **PolicyRollout**, **Campaigns**, **Publishing** and
**RemoteAccess** model one instance (or a few targets) with every file
operation, transaction or external call as a step of its own and a crash
possible between any two.

* In **PolicyRollout** the database calls of a caller may fail (`MaxFailures`). A
  cancel commits `CANCELING` and then blocks the pending targets; when the second
  call fails the handler returns, and `unblocked` records that it happened.
* In **RemoteAccess** requests, the reconciliation pass, the API calls that renew
  the authorization and the goroutine of the start interleave freely; the only
  locks are the mutex a pass shares with `Configure` and `Disable`, and the one
  around the token exchange. `lapses` is a history of what the code does not
  guard against: a write from an outdated copy or beside a request that is halfway
  (`"config"`), a saved copy with another credential than the row's (`"token"`), a
  renewal cut between the exchange and the save (`"renewal"`). The properties say
  what holds up to these.

The `...Proofs` modules extend their component with its inductive invariant, the
lemmas and the theorems; `HostAgentProofs` has three parts, the queue, its other
tables and the agent, each built on the one before. The `MC...` modules give the
constants; `RemoteAccess` needs none and is run as it is.
Definitions marked *Mutant* are deliberate mistakes; no specification uses one,
they show that each property can fail.

## 3. Runs

| run | instance | shows |
|---|---|---|
| `jobs` | 1 instance, 1 session, 4 jobs of all types, 2 claims, lease of 1 tick, 2 revisions, queue limit 2 | `TypeOK`, `OneExclusiveJob`, `LifecycleFence`, `ChatLifecycleExclusion`, `SessionInOrder`, `OperationAgrees`, `StreamEndsOnce`, `ConfigurationAgrees`, `LimitsHold`, `TerminalIsFinal`, `OwnedStatusReleasedByOwner` |
| `jobs_live` | the same with fair clocks, claims and maintenance | `JobsEnd` |
| `remediation` | 2 overlapping requests, 4 reports, operator | `LedgerAgrees`, `QueuedHasRepair`, `CancelHolds` |
| `agent` | 2 workers, a lease of 10 ticks, HTTP timeout and renewal, 1 crash | `ExecutesUnderLease`, `OwnResultIsAnswered` |
| `agent_exclusive` | 2 workers, 2 jobs (provisioning, then an update with its detached report or an MCP configuration), 2 claims, a lease of 5 ticks, rollbacks of 3 ticks | `ExecutionIsExclusive`: refines `ExclusiveExecution` |
| `workflows` | every job type, 3 claims (2 runtime jobs), all fault sets | `SuccessIsTrue`, `NothingLost`, `RunsOnItsFiles`, `RestoreRunsWhole`, `ConfigurationRestored`, `StoppedStays`, `FirstFailureIsTrue`, `JobsEnd` |
| `recovery` | 2 points, retention of 1, 2 claims, 1 crash | `StorageConsistent`, `SuccessHasBackup`, `RetentionHolds` |
| `rollout` | 2 targets, 3 control requests, restarts, 1 failing call | `SuccessIsComplete`, `CanceledStartsNothing`, `CanaryFirst` |
| `campaign` | 2 campaigns or 2 instances, concurrency up to 2 | `ConcurrencyHeld`, `NoRequestLeft`, `SuccessIsComplete` |
| `publish` | 1 instance, 2 operations, one edit, fault or crash | `VerifiedIsServed`, `ForeignKept` |
| `access` | 2 overlapping requests of 6 kinds, 3 tokens, 2 faults, 1 crash | `ConnectorsFollow`, `SavedIsActive`, `AuthorizationKept` |
| `remediation_overlap` | 2 overlapping requests, nothing but drift | violates `RepairsBounded` |

**Bounds.** Three jobs let one expire or fail, be followed by a second and by a
third that meets what both left behind; a fourth one in `jobs` adds two messages
to a lifecycle job and its predecessor. Two claims are the first attempt and the
one that finds its traces; `workflows` has the code's three. A lease of one tick
has all three phases (usable, at its end, reclaimable); the ten ticks of `agent`
leave room for the safety window, a hung renewal and a retry; in `agent_exclusive`
a canceled execution has two ticks of lease left, so that its rollback meets the
next claim. The constraint of
`jobs` keeps a behaviour within one mix of types (lifecycle, chat or
configuration): types of different mixes meet only through the counts and
statuses every mix exercises. `campaign` has two campaigns on one instance or
one campaign on two, since campaigns meet only in the request of a shared
instance. `publish` allows one trouble (edit, failing call or crash) in a
behaviour: every property is about what a single one leaves behind. A chat answer
has two frames (two pieces of text, or one and an activity, in either order) and
one file. The two requests of `access` meet each other, the pass, the goroutine of
the start and, with three tokens, two renewals; its two failures let one meet what
another left, though `SavedIsActive` promises something only of a single one.
Constraints
and symmetry are used only where no liveness is checked. Deadlock is not
checked: jobs, reports and requests are bounded, so a behaviour may come to
rest.

**Fairness.** `jobs_live`: clocks run, every Host Agent polls in a loop
(`runJobLoop`) and is restarted by its service manager, the maintenance goroutine
runs, and no execution renews for ever (the renewal loop ends with it). Nothing
is assumed of acknowledgements or completions. `workflows`: the agent goes on
with a job it executes, hosts poll and leases run out; an upload of a chat has
its two minutes, a request the agent no longer waits for ends, and an output
reported again and again is recorded in the end (strong fairness: otherwise the
control plane answers with an error for ever and the agent repeats for ever, as
the code does).

**Further configurations.** These pass as well and are run when their module
changes: `MCRecoveryLive` (`BackupSettles`: a reserved point becomes READY or
FAILED or goes away), `MCRolloutLive` (`RolloutEnds`), `MCCampaignLive`
(`CampaignEnds`), `MCPublishLive` (`ShownIsServed`, `OutcomeFinal`,
`OperationsEnd`, `DeletionIsClean`). Their fairness is that of the maintenance
loop, the goroutines of the operations and the ends of the child updates; where
two goroutines compete for a mutex it is strong, as Go's mutex is not starved.
`MCAgentUpdate` checks `ExecutionIsExclusive` with shutdowns and crashes in place
of second claims. The other configurations (`MCTwoLiveJobs`, `MCAgentTwoChange`,
`MCWorkflowsDocs`, `MCRecoveryRotate`, `MCRolloutCancel`, `MCRolloutDocs`,
`MCPublishDocs`, `MCAccessRotation`, `MCAccessDocs`) fail on purpose, see
section 5.

## 4. What the runs show

* *Queue.* Whatever worker, late request or operator acts, an instance has one
  exclusive job, its transitional status is released by the job that owns it,
  messages of a session run in order and at most once, and every stream ends
  with one terminal event.
* *Agent.* The safety window of the renewal loop is enough for all but two
  rollbacks: with slow answers, a hung renewal, a drain or a crash, no worker
  executes after the control plane may have given the job to another, and a lost
  answer to a completion does no harm. Exceptions are the rollbacks of a canceled
  MCP configuration and of a canceled restore onto a clean host, which are longer
  than the window and go on beside the next execution (section 5); nothing else
  does, which `ExclusiveExecution` states and agent and queue implement.
* *Host.* A job recorded as successful has done its work, also on the second or
  third attempt over the remains of a crashed one. An update touches nothing
  before its backup is verified, a restore cut off by a crash is quarantined,
  a failed configuration is put back, a stopped instance stays stopped. The
  text of a chat answer is recorded whole and once, and an output called ready
  is stored.
* *Control plane.* Recovery storage survives a crash at any file operation;
  rollouts and campaigns survive restarts without starting what they must not,
  unless a cancel could not block the pending targets (section 5); verified routes
  are served and foreign Cloudflare resources are kept.
* *Remote access.* Whoever interleaves, the connector tokens are those of the
  running configuration. A failed save is rolled back, so that one failure leaves
  the running configuration the saved one; two failures, or a write from an
  outdated copy, need not (section 5). The saved refresh token is one Cloudflare
  accepts, unless a renewal was cut before its save or an outdated copy was saved.

## 5. Disagreements between the documents and the code

Each of the following is a behaviour TLC finds. The run `remediation_overlap`:
`docs/architecture.md:261` says "Fleet permits
three attempts in each of three phases". That holds when observation requests do
not overlap. When they do, a request that recorded its report before the repair
was queued tracks it afterwards, finds the instance RESTARTING and deletes the
workflow with its counters; a slow request may also write older counters over
newer ones.

Each of the following properties is one TLC finds violated by the named
configuration; the trace shows how. A configuration with several of them is run
with `-continue`, or with the one `INVARIANT` or `PROPERTY` of interest left in.

| configuration | property | what the documents say | what the code does |
|---|---|---|---|
| `MCTwoLiveJobs` | `OneLiveJobPerInstance` | README.md:613 "one instance never receives two live jobs" | `QueueChatMessage` (chat.go:409) skips the active-job check and `ClaimJob` serialises a chat only within its session, so a chat is leased beside an inspection. Chats and lifecycle jobs do exclude each other; that is proved. |
| `MCAgentTwoChange` | `NoTwoChangeAnInstance` | client.go:326 an execution has "a lease-fenced child context that is canceled immediately when renewal proves the lease is no longer valid"; client.go:884, so that two workers do not change the same instance | The rollback of a canceled `configureMCP` runs under `context.WithoutCancel` for up to 180 seconds (provisioner.go:3096), longer than the safety window: the job is reclaimed and executed by another worker while the first still puts the old configuration back and restarts the containers. A restore onto a clean host has five minutes (4746). |
| `MCWorkflowsDocs` | `FailedUpdateHasOldData` | README.md:401 "A failed installation uses the verified pre-update archive for rollback" | A reclaimed attempt that fails before it holds the backup starts the old image (client.go:975) on data the target has run on. |
| `MCWorkflowsDocs` | `OnlySuccessRecordsTarget` | architecture.md:347 "Only successful lease-fenced completion records the new image reference" | A failed result that carries an image ID records it too (store.go:4144). |
| `MCWorkflowsDocs` | `OriginalRestored` | provisioner.go:4696 "original stopped state was restored" | `volumeMutated` is set after `clearVolume`; a clear that fails half-way is not rolled back. |
| `MCWorkflowsDocs` | `RestoreEndsWhole` | architecture.md:333 "an independent bounded context to roll back partial failure" | The rollback context derives from the execution's (provisioner.go:4675): a canceled restore is not rolled back. |
| `MCWorkflowsDocs` | `ConfigurationWhole` | architecture.md:178 "Any post-write failure restores the previous environment, manifest, and Hermes YAML before the job completes" | The same for `configureMessaging` and the runtime sync (provisioner.go:2767). |
| `MCWorkflowsDocs` | `FailureIsTrue` | the status a failed job returns is the state it restored | A crash after the stop of an image repair; the next attempt fails its checks and reports RUNNING for a stopped runtime. |
| `MCWorkflowsDocs` | `DeletedChatIsGone` | README.md:54 "Deleting a chat session deletes its artifact directory" | The rows go first. A restart or a failing removal in between, or a late `Record` of an event that was inserted before, leaves or recreates files nobody deletes. |
| `MCRecoveryRotate` | `ActiveRestoreKeepsPoint` | store.go:1398 "so deletion remains fenced after a control-plane restart" | The rotation inside `Reserve` (manager.go:281) does not ask for active references and may delete the point of a restore. |
| `MCRolloutCancel` | `CancelStopsRollout` | policies.go:359 "Canceled by Fleet admin; no new targets will start" | When blocking the pending targets fails after CANCELING has been committed (policies.go:371-376), the handler returns an error and gives up the lock; a pass that read the metadata before starts one of them. |
| `MCRolloutDocs` | `GateHolds` | policies.go:623 "Fleet stopped before the next wave" | A caller that waited for the lock decides on the metadata it read before (policies.go:531) and starts the next target after the gate closed; the same way a pause is overtaken. |
| `MCRolloutDocs` | `OneAtATime` | README.md:195 "One-at-a-time rollouts resume from durable target state" | The child is queued before its row says so (policies.go:679); after a restart and a resume two updates are active. |
| `MCPublishDocs` | `UnpublishedIsRemoved` | server.go:3627 "Fleet-owned DNS and ingress resources were removed" | A stale unpublication is settled from a state that startup sets before any pass has looked (manager.go:781). |
| `MCPublishDocs` | `DeletedLeavesNothing` | server.go:3506 "Runtime and Fleet-owned Cloudflare resources were removed" | The cleanup trusts the ledger while a pass that still wants the hostname creates its record; a later pass removes it. |
| `MCAccessRotation` | `AuthorizationRetained` | README.md:271 "retains renewable OAuth authorization for later instance route reconciliation" | The candidate of a publishing request carries the token its own verification has spent; it is given to the manager and saved over the new one (server.go:1123), without any failure or second request. |
| `MCAccessDocs` | `RotationKeepsTopology` | server.go:1232 "topology remains owned by the saved configuration" | `PersistCloudflareRuntimeConfig` writes back the whole row it read. |
| `MCAccessDocs` | `SavedAlways` | the saved configuration is the active one | Two overlapping requests: Configure A, Configure B, save B, save A (server.go:1214). The same with a disable, or the goroutine of the start (main.go:131), in between; no failure is needed. |
| `MCAccessDocs` | `FilesRemoved` | README.md:318 "Disabling the module removes local connector token files" | A crash between `Configure` and the save leaves the token files; the next start finds no row, and `Disable` of a manager that is not configured removes nothing. |

Two losses need only a crash or a failed write in between. A DNS record is created
before its ledger row (routes.go:399), so that no later pass accepts or removes it;
the invariant `LedgerComplete` is stated without failing calls and crashes. And a
refresh token is spent before the next one is saved (manager.go:1890), after which
the authorization is gone; `AuthorizationKept` excludes it as the lapse
`"renewal"`.

Besides, `configureRemoteAccess` builds its managed configuration without the
OAuth state of the saved one (server.go:1313). And a rollback of the remote
access configuration goes unheard when it fails: after a deletion of the row that
failed (server.go:1362), the runtime is off while a managed row remains, so that a
request for existing endpoints passes the mode check of `Manager.Configure`
(remoteaccess/manager.go:210); when its save fails, the same check refuses to
restore the managed row, and Fleet runs a configuration it never saved. The proof
of `SavedIsActive` led to this: it holds for one failure and without the lapse
`"config"`; with `faults <= 1` dropped from it, TLC shows this trace and the simpler
one of a rollback that fails.

## 6. Proofs

TLAPS proves every safety property of every passing run, invariants, action
properties and the refinement, for every value of the constants that satisfies the
named assumptions. Each module states an
inductive invariant, shows that `Init` implies it and that `[Next]_vars` keeps it
(one lemma per action or kind of step, split by conjunct), and derives the
properties from it.

| module | theorem | property |
|---|---|---|
| `HostAgentProofs`, part 1 | `Invariance` | `IInv`, the invariant of the queue |
| | `TypeCorrectness`, `ExclusiveJobs`, `LifecycleFenced`, `ChatExcluded` | `TypeOK`, `OneExclusiveJob`, `LifecycleFence`, `ChatLifecycleExclusion` |
| | `TerminalJobsFinal` | `TerminalIsFinal` |
| part 2 | `Tables` | `TableInv`, what hangs on a job agrees with it |
| | `SessionsInOrder`, `OperationsAgree`, `StreamsEndOnce`, `ConfigurationsAgree`, `LimitsKept` | `SessionInOrder`, `OperationAgrees`, `StreamEndsOnce`, `ConfigurationAgrees`, `LimitsHold` |
| | `OwnedStatusReleased` | `OwnedStatusReleasedByOwner` |
| part 3 | `FleetInvariance` | `FleetInv` |
| | `FleetUsesStore` | `FleetSpec => Spec` of JobStore: all theorems above hold beside the agent |
| | `ExecutionUnderLease`, `OwnResultAnswered` | `ExecutesUnderLease`, `OwnResultIsAnswered` |
| | `ExclusiveRefinement` | `ExecutionIsExclusive`: agent and queue implement `ExclusiveExecution`, lasting rollbacks included |
| `RuntimeRemediationProofs` | `RemediationInvariance`, `LedgerKept`, `QueuedIsUnderWay`, `CancelKept` | `LedgerAgrees`, `QueuedHasRepair`, `CancelHolds` |
| `RecoveryPointsProofs` | `RecoveryInvariance`, `RecoveryTypes`, `StorageAgrees`, `BackupKept`, `RetentionKept` | `StorageConsistent`, `SuccessHasBackup`, `RetentionHolds` |
| `PolicyRolloutProofs` | `RolloutInvariance`, `RolloutSuccess`, `CancelStartsNothing`, `CanaryGoesFirst` | `SuccessIsComplete`, `CanceledStartsNothing`, `CanaryFirst` |
| `CampaignsProofs` | `CampaignInvariance`, `ConcurrencyKept`, `RequestsWithdrawn`, `CampaignSuccess` | `ConcurrencyHeld`, `NoRequestLeft`, `SuccessIsComplete` |
| `PublishingProofs` | `PublishingInvariance`, `VerifiedRoutesServed`, `LedgerNamesAll`, `ForeignResourcesKept` | `VerifiedIsServed`, `LedgerComplete` (in no run: it is about behaviours without failure), `ForeignKept` |
| `HostWorkflowsProofs` | `WorkflowsInvariance` | `WorkflowsInv`, the invariants of the five workflows |
| | `SuccessesAreTrue`, `NothingIsLost`, `RuntimeOnItsFiles`, `RestoresRunWhole` | `SuccessIsTrue`, `NothingLost`, `RunsOnItsFiles`, `RestoreRunsWhole` |
| | `ConfigurationsRestored`, `StoppedInstancesStay`, `FirstFailuresAreTrue` | `ConfigurationRestored`, `StoppedStays`, `FirstFailureIsTrue` |
| `RemoteAccessProofs` | `AccessInvariance`, `ConnectorsFollowRuntime`, `SavedConfigurationRuns`, `AuthorizationSurvives` | `ConnectorsFollow`, `SavedIsActive`, `AuthorizationKept` |

**Assumptions.** Hosts and sessions have their owner; bounds are natural numbers,
those that must let something happen are positive; targets of rollouts and
campaigns are finite sets of numbers (the order in which the code takes them).
The one assumption about time is `TimingAssumption` of HostAgent: two HTTP
timeouts fit into the renewal interval and into a fifth of the lease (the smaller
of the two is the safety window), and both together fit into the lease. None of these can be
configured: the lease is 300 seconds (server.go:49), a renewal is due every 60,
and the client waits 20 (client.go:59, 133-137, 169, 1648-1710).

**Job queue.** None of the invariants is inductive alone. A completion writes a
status that must not be one owned by another job; an expiry writes FAILED even for
a Hermes inspection, which would break the fence of a lifecycle job active beside
it; a retried deletion cleanup writes DELETED long after its job has ended. `IInv`
therefore joins the types with `RowsOK` (what a row may carry: its instance, a
resting status to come back to, no claims before the first one, an open stream
with room for the closing event), `UnbornIdle` (an instance without a row has no
work), `InspectedRuns` (a Hermes inspection is unfinished only on a RUNNING
instance), `DeletedForGood` (after a successful delete job nothing owns the
instance any more) and the three invariants. With it, queueing is harmless because
it starts from an instance without exclusive work, expiry and completion because
the exclusive job they release is the only one, and chat because RUNNING is no
transitional status.

**Tables of the queue.** Every step does one of eight things to a row (`RowStep`:
untouched, queued, ended, claimed, leased, streamed, removed, cleaned up after a
deletion). The proofs bring each action into these forms once and argue the
invariants on the forms. `TableInv` adds that a message and its stream end with
the job, that an instance is deleted at most once, and that an unfinished
configuration job carries the revision its row waits for, so that its result
answers the right one.

**Host Agent.** `FleetInv` is `IInv` and, per worker, where its token stands: it was
issued for its job, which is of one of the two types when the worker is undoing it
(`ClaimOK`), nobody else has it (`TokensApart`), no answer is waited for beyond the
timeout (`ClocksOK`), a result stored under it is the worker's own (`ResultIsOwn`),
and `LeaseHeld`, for the workers that renew: the server's lease outlives the
worker's deadline less one HTTP timeout, and a renewal falls due early enough that
its answer or its timeout arrives before the window closes. `LeaseHeld` is the
reason for `TimingAssumption`. The refinement follows step by step: a claim or
expiry that would start a second worker finds the first one's lease run out, which
`LeaseHeld` excludes while it executes. A worker that is undoing has no lease to
speak of; it is no runner but an undoer, which bars no start.

**Remediation.** A request decides in one transaction and queues in another.
`PlansAgree` says that the plan it holds in between keeps the ledger whatever has
become of the row; `RowIsCurrent` and `StoppedIsCanceled` tie the row to the
revision and to the operator's stop, so that an old plan no longer fits it.

**Recovery points.** Under `Manager.mu` a call is a list of file operations that a
crash may cut anywhere. The invariant is about that list: every prefix leaves files
a restart makes clean (`FilesOK`, `PlanOK`), no operation undoes a deletion or
loses a verified archive, a new point is written last and only when the deletions
before it have made room (`RoomOK`), and a completion about to report success has
seen its point verified (`CompletionsOK`), though another claim may act between.

**Rollouts.** Callers read the metadata, wait for the lock and act on what they
read. `HoldsLock`, `ListAgrees` and `ChildrenAgree` say what the holder may still
believe; `AckIsResumed` and `CancelAgrees` what an operator's signal implies about
every caller that read before it: a cancel blocks the pending targets before it
gives the lock away, so a caller with old metadata finds none, unless the blocking
failed (`unblocked`).

**Campaigns.** `PassAgrees`: a pass runs only over an active campaign and what it
keeps in memory is what the table says, so the number of running targets it counts
is the true one, also after a restart dropped the pass.

**Publishing.** A pass reads the zone and the tunnel, writes to them, then to the
ledger, then to what Fleet shows. `RowsTrue` (a current row has a record),
`RulesTrue` (the rules a pass merges are the tunnel's unless it will find the
version moved), `PassOK` and `PassTrue` (what is ready in the pass's eyes is there
and recorded) and `LedgerTrue` (what Fleet made is recorded, or the pass is about
to) hold at each step of it. `RulesTrue` is what keeps foreign rules when somebody
edits the tunnel between read and write.

**Workflows of the host.** The job's type selects a workflow and the variables of
the others stay as they were, so `WorkflowsInv` is one invariant per workflow.

* *Update.* `BackupHeld`: behind the backup every stage has a verified point and
  the archive it staged, so each rollback has something to go back to;
  `TargetInstalled`: from the installation on the manifest and the image are the
  target's, so a result that names it is true; `FirstAttempt`: what a first
  attempt knows at each stage of the old runtime and its data.
* *Restore.* `WorkspacePlaced` and `ArchiveInPlace` say which of the workspaces is
  in place at each step, `BadArchiveRefused` that nothing behind the preflight is
  reached with a bad archive. `RestoredWhole` carries `RestoreRunsWhole`: between
  two mutations workspace and volume are of one state or what was set aside blocks
  the instance; during one, the two copies are.
* *Configuration.* The workflow is a list of steps still to do. `RunProgress` and
  `UndoProgress` say what the list means: a file whose step is no longer on it is
  new (on the way back: old), and files come before the containers that read them.
  `OneVersion` is the promise of the MCP job, whose rollback survives a
  cancellation: between attempts everything is of one version.
* *Runtime jobs.* `OnItsFiles` and `FilesWritten` bind containers and files to each
  other through open files and crashes, `DoneSeen` says what each kind of job has
  seen done when it is about to succeed.
* *Chat.* `StorageInv`, about outputs and files, holds whatever requests arrive in
  which order: an upload that is past its check holds the output's lock
  (`LockHeld`). `TurnInv` holds while the turn may still succeed: every event on
  record or under way is one the agent may have said at its place in the stream
  (`SaidWell`), and every piece it read is in one of them or still to be flushed
  (`ChunksSaid`); the same for the outcomes of the outputs. A repeated or late
  request can only say again what was said.

Two things in the chat model came from this proof. `Recorded` chose between
overlapping cases, so that an output already ready and reported ready again had no
definite entry; it is now the sequence of tests the code makes. And the recorded
answer is stated by the intervals its pieces cover, without sorting them, which TLC
finds equivalent to the concatenation.

**Remote access.** `AccessInv` has four parts, for any interleaving. `FollowInv`:
the token files are those of the running configuration, and a pass publishes the
tokens of the configuration that runs, since the mutex keeps `Configure` and
`Disable` out. `Candidate` says what the candidate of each kind of request is.
`SavedInv`, as long as nobody wrote from an outdated copy or beside a request that
is halfway: one request is halfway at a time, with its candidate running and the row
as it read it (`OneHalfway`), and with one failure at most a rollback is accepted
and leaves what is saved (`OneFault`). `TokenInv`: nobody knows a token that was not
issued; one caller holds the lock of the exchange, and the token it got is good
until it is saved (`CallOK`); the token of a sign-in is in nobody else's hands
(`Unheld`); so the stored token is accepted or its successor is about to be saved.
The first part has no exception but the ones its property names; the others have
the lapses of section 2.

**Only model-checked.** Liveness (`JobsEnd`, the `...Live` configurations), which
needs fairness and ENABLED. No module needs the value of a recursive definition.

## 7. Not modelled

* Encryption, validation, formatting and previews of payloads; authentication;
  metrics and logs; the UI; the scripts. They keep no protocol state of their own
  or are outside the program.
* *Runtime configuration reconciliation.* A report of runtime drift leaves
  `agentObservations` before it, and the job it queues is to `RuntimeRemediation`
  one of `OperatorAction`'s; its retry counters are left out.
* *Control-plane backups, reliability kit.* They run for one operator and share
  no state with the server; backups publish files the way recovery points do.
* *Event hub, release catalogue.* Wake-ups and caches; losing them costs a
  refresh.
* *In the job store:* clean-host recovery (modelled for campaigns only),
  credential rotation, port allocation, the repair of orphaned chat rows of
  older versions.
* *In the provisioner:* the read-only inspections, profiles, skills, toolsets and
  the Codex sign-in, each a command whose outcome is the result of its job.
* *In the chat turn:* quotas (an upload may be refused at any time); the 32-bit
  shift of sequence numbers by the attempt, since a message is claimed once; a
  manifest that cannot be rewritten when its content expires; expiry while the
  turn or its requests are under way, which the retention of at least an hour
  excludes.
* *In the provisioner's workflows:* attempts are serial. The rollback of a canceled
  MCP configuration or clean-host restore may still run when the next attempt
  begins (section 5); what the two do to the same files is not modelled.
* *Remote access:* the legacy provider-managed and local modes; the sign-in sessions
  themselves (ten minutes), which two requests may use one after the other.
