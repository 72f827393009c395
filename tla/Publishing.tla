----------------------------- MODULE Publishing -----------------------------
(***************************************************************************)
(* Dashboard publishing through Cloudflare.  An operator publishes or      *)
(* unpublishes the dashboard of an instance; the route reconciler makes    *)
(* the Cloudflare zone and tunnel agree with the wanted hostnames and      *)
(* records in the ownership ledger what Fleet created; deletions of        *)
(* instances wait for their ledger rows to disappear.                      *)
(*                                                                         *)
(* One hostname per instance (it is derived from the instance's name and   *)
(* unique), so records, rules, rows and observations are indexed by        *)
(* instance.  The reconciler holds its mutex for a whole pass, hence one   *)
(* pass at a time; between its Cloudflare calls everything else moves: the *)
(* operator, the operations' goroutines, the recovery of stale operations, *)
(* edits made in Cloudflare by other hands, and crashes.                   *)
(***************************************************************************)
EXTENDS Naturals, FiniteSets

CONSTANTS Instances,        \* instances, each with its own hostname
          Operations,       \* PUBLISH_DASHBOARD operations that may be created
          Responses,        \* how the public endpoint may answer a request
          Connectors,       \* states the connector's health check may report
          MaxEdits,         \* bound: changes made in Cloudflare by other hands
          MaxFaults,        \* bound: API or ledger calls that fail
          MaxCrashes        \* bound: restarts of the control plane

ASSUME PublishingBounds == /\ MaxEdits \in Nat /\ MaxFaults \in Nat /\ MaxCrashes \in Nat
                           /\ Responses \subseteq {"ok", "redirect", "access", "denied", "error", "unknown host"}
                           /\ Connectors \subseteq {"running", "starting", "down"}
                           /\ Instances \cap Operations = {}

VARIABLES
  wanted,    \* instances whose public_hostname is set
  inst,      \* "up" | "deleting" (job queued) | "cleaning" (runtime gone, still DELETING) | "deleted"
  dns,       \* the zone: "none" | "fleet" (as Fleet made it) | "edited" (Fleet's, changed) | "foreign"
  ing,       \* the tunnel: "none" | "fleet" | "other" (a rule for the hostname with another service)
  dnsRow,    \* ledger: "none" | "current" (names the record in the zone) | "gone" (names a vanished one)
  ingRow,    \* ledger: the ingress rule of the instance is recorded
  ops,       \* publication operations and their goroutines
  cleanup,   \* the deletion cleanup of each instance: "idle" | "waiting" | "passing" | "passed"
  pass,      \* the reconciliation pass in progress
  access,    \* the manager's memory: configured, state, synced, connector, routes
  obs,       \* its observation of each hostname
  bounds     \* edits, faults and crashes so far

cloud  == <<dns, ing>>
ledger == <<dnsRow, ingRow>>
vars == <<wanted, inst, dns, ing, dnsRow, ingRow, ops, cleanup, pass, access, obs, bounds>>

Active   == {"PENDING", "RUNNING"}
Terminal == {"SUCCEEDED", "FAILED"}

\* An observation before anything was checked.
pendingRouteObservations == [dns |-> "pending", ing |-> "pending", end |-> "unchecked", re |-> FALSE]

publicationRouteVerified(v) == v.dns = "ready" /\ v.ing = "ready" /\ v.end = "reachable"

NoPass == [pc |-> "idle", by |-> "loop", desired |-> {}, list |-> [i \in Instances |-> "none"],
           rules |-> [i \in Instances |-> "none"], moved |-> FALSE, at |-> "none",
           todo |-> {}, conflict |-> {}, gone |-> {}]

TypeOK ==
  /\ wanted \subseteq Instances
  /\ inst \in [Instances -> {"up", "deleting", "cleaning", "deleted"}]
  /\ dns \in [Instances -> {"none", "fleet", "edited", "foreign"}]
  /\ ing \in [Instances -> {"none", "fleet", "other"}]
  /\ dnsRow \in [Instances -> {"none", "current", "gone"}]
  /\ ingRow \in [Instances -> BOOLEAN]
  /\ ops \in [Operations -> [inst : Instances \cup {"none"}, publish : BOOLEAN, late : BOOLEAN,
                             status : {"none"} \cup Active \cup Terminal,
                             pc : {"none", "started", "waiting", "passing", "read", "ended", "dead"}]]
  /\ cleanup \in [Instances -> {"idle", "waiting", "passing", "passed"}]
  /\ pass.pc \in {"idle", "ids", "dns", "created", "ingress", "record", "verify", "check"}
  /\ access \in [configured : BOOLEAN, state : {"disabled", "synced", "syncing", "error", "degraded"},
                 synced : BOOLEAN, connector : {"unknown"} \cup Connectors, routes : SUBSET Instances]
  /\ obs \in [Instances -> [dns : {"pending", "ready", "conflict", "failed"},
                            ing : {"pending", "ready", "conflict", "failed"},
                            end : {"unchecked", "checking", "reachable", "protected", "propagating", "unavailable"}, re : BOOLEAN]]

Init ==
  /\ wanted = {}
  /\ inst = [i \in Instances |-> "up"]
  /\ dns = [i \in Instances |-> "none"] /\ ing = [i \in Instances |-> "none"]
  /\ dnsRow = [i \in Instances |-> "none"] /\ ingRow = [i \in Instances |-> FALSE]
  /\ ops = [o \in Operations |-> [inst |-> "none", publish |-> FALSE, late |-> FALSE,
                                  status |-> "none", pc |-> "none"]]
  /\ cleanup = [i \in Instances |-> "idle"]
  /\ pass = NoPass
  /\ access = [configured |-> TRUE, state |-> "synced", synced |-> TRUE, connector |-> "unknown", routes |-> {}]
  /\ obs = [i \in Instances |-> pendingRouteObservations]
  /\ bounds = [edits |-> 0, faults |-> 0, crashes |-> 0]

-----------------------------------------------------------------------------
(* What a caller of Reconcile gets back.                                   *)

UpdateControlPlaneOperation(o, status, pc, f) ==
  [f EXCEPT ![o].pc = pc, ![o].late = @ /\ pc # "ended",
            ![o].status = IF f[o].status \in Active \cup {status} THEN status ELSE @]

\* The pass returned to its caller: the loop logs, an unpublication is done,
\* a publication goes on to read its route, a cleanup re-reads the ledger.
Return(ok) ==
  /\ ops' = IF pass.by \notin Operations THEN ops
            ELSE IF ~ok THEN UpdateControlPlaneOperation(pass.by, "FAILED", "ended", ops)
            ELSE IF ops[pass.by].publish THEN [ops EXCEPT ![pass.by].pc = "read"]
            ELSE UpdateControlPlaneOperation(pass.by, "SUCCEEDED", "ended", ops)
  /\ cleanup' = IF pass.by \in Instances THEN [cleanup EXCEPT ![pass.by] = "passed"] ELSE cleanup
  /\ pass' = NoPass

fail(seen) ==
  /\ access' = [access EXCEPT !.state = "error", !.synced = FALSE]
  /\ obs' = seen
  /\ Return(FALSE)

failAutomatedRoutes ==
  [i \in Instances |-> IF i \in pass.desired THEN [pendingRouteObservations EXCEPT !.dns = "failed"]
                                             ELSE pendingRouteObservations]
failIngress ==
  [i \in Instances |-> IF i \in pass.desired THEN [obs[i] EXCEPT !.ing = "failed", !.end = "unchecked", !.re = FALSE]
                                             ELSE obs[i]]

Fault == bounds.faults < MaxFaults /\ bounds' = [bounds EXCEPT !.faults = @ + 1]

\* A call of the pass failed: an API error, a ledger write refused, or the
\* deadline of the operation whose context the pass runs under.
FaultFails(seen) == Fault /\ fail(seen) /\ UNCHANGED <<wanted, inst, cloud, ledger>>

-----------------------------------------------------------------------------
(* One reconciliation pass.                                                *)

instanceRoutes == {i \in wanted : inst[i] = "up"}

\* Mutant: a verified observation is kept for hostnames that are not wanted.
keepingRouteObservations(desired) ==
  [i \in Instances |-> IF publicationRouteVerified(obs[i]) /\ ~obs[i].re
                       THEN [obs[i] EXCEPT !.re = TRUE] ELSE pendingRouteObservations]

\* A fully verified route stays verified, marked as being revalidated; every
\* other observation starts over and those of unwanted hostnames are dropped.
revalidatingRouteObservations(desired) ==
  [i \in Instances |-> IF i \in desired /\ publicationRouteVerified(obs[i]) /\ ~obs[i].re
                       THEN [obs[i] EXCEPT !.re = TRUE] ELSE pendingRouteObservations]

setSyncing == [access EXCEPT !.state = IF @ = "synced" /\ access.synced THEN @ ELSE "syncing"]

\* Reconcile takes the mutex.  It refuses to run unconfigured, and under an
\* expired context its first database read fails.
Runs(expired) == access.configured /\ ~expired
BeginPass(by, expired) ==
  /\ pass.pc = "idle"
  /\ IF ~Runs(expired)
     THEN /\ access' = IF access.configured THEN [access EXCEPT !.state = "error", !.synced = FALSE] ELSE access
          /\ UNCHANGED <<pass, obs>>
     ELSE /\ access' = setSyncing
          /\ pass' = [NoPass EXCEPT !.pc = "ids", !.by = by, !.desired = instanceRoutes]
          /\ obs' = revalidatingRouteObservations(instanceRoutes)

ReconcileLoop ==
  access.configured /\ BeginPass("loop", FALSE) /\ UNCHANGED <<wanted, inst, cloud, ledger, ops, cleanup, bounds>>

\* What the listed zone holds for a hostname, in the ledger's eyes.
Listed(i) == CASE dns[i] = "none" -> "none"
               [] dnsRow[i] = "current" -> IF dns[i] = "fleet" THEN "mine" ELSE "changed"
               [] OTHER -> "alien"

\* instanceIDsByHostname reads the instances a second time: a hostname that
\* was unassigned in between fails the pass.  Then zone, ledger and records.
IdentifyOwners ==
  /\ pass.pc = "ids"
  /\ IF pass.desired \subseteq wanted
     THEN /\ pass' = [pass EXCEPT !.pc = "dns", !.list = [i \in Instances |-> Listed(i)],
                                  !.todo = pass.desired \cup {i \in Instances : dnsRow[i] # "none"}]
          /\ UNCHANGED <<access, obs, ops, cleanup>>
     ELSE fail(failAutomatedRoutes)
  /\ UNCHANGED <<wanted, inst, cloud, ledger, bounds>>

\* A wanted hostname: a record that is there is accepted or reported as a
\* conflict, never touched; a missing one is created (Cloudflare refuses a
\* second record for the hostname).
ensureOwnedDNS(i) ==
  /\ pass.pc = "dns" /\ i \in pass.todo \cap pass.desired
  /\ \/ /\ pass.list[i] # "none"
        /\ pass' = [pass EXCEPT !.todo = @ \ {i}, !.conflict = IF pass.list[i] = "mine" THEN @ ELSE @ \cup {i}]
        /\ UNCHANGED <<dns, bounds>>
     \/ /\ pass.list[i] = "none" /\ dns[i] = "none"
        /\ dns' = [dns EXCEPT ![i] = "fleet"]
        /\ pass' = [pass EXCEPT !.pc = "created", !.at = i]
        /\ UNCHANGED bounds
     \/ /\ pass.list[i] = "none"
        /\ (dns[i] # "none" /\ UNCHANGED bounds) \/ Fault
        /\ pass' = [pass EXCEPT !.todo = @ \ {i}, !.conflict = @ \cup {i}]
        /\ UNCHANGED dns
  /\ UNCHANGED <<wanted, inst, ing, ledger, ops, cleanup, access, obs>>

\* The ledger row of the record just created.
PutRemoteAccessResource ==
  /\ pass.pc = "created"
  /\ dnsRow' = [dnsRow EXCEPT ![pass.at] = IF dns[pass.at] \in {"fleet", "edited"} THEN "current" ELSE "gone"]
  /\ pass' = [pass EXCEPT !.pc = "dns", !.at = "none", !.todo = @ \ {pass.at}]
  /\ UNCHANGED <<wanted, inst, cloud, ingRow, ops, cleanup, access, obs, bounds>>

\* A recorded hostname that is no longer wanted: the record is deleted by the
\* identity in the ledger, if the list showed it unchanged.
removeStaleDNS(i) ==
  /\ pass.pc = "dns" /\ pass.todo \cap pass.desired = {} /\ i \in pass.todo
  /\ \/ /\ pass.list[i] \in {"none", "alien"}
        /\ pass' = [pass EXCEPT !.todo = @ \ {i}, !.gone = @ \cup {i}]
        /\ UNCHANGED <<dns, dnsRow, access, obs, ops, cleanup>>
     \/ /\ pass.list[i] = "mine" /\ dnsRow[i] = "current"
        /\ dns' = [dns EXCEPT ![i] = "none"]
        /\ dnsRow' = [dnsRow EXCEPT ![i] = "gone"]
        /\ pass' = [pass EXCEPT !.todo = @ \ {i}, !.gone = @ \cup {i}]
        /\ UNCHANGED <<access, obs, ops, cleanup>>
     \/ /\ pass.list[i] = "changed" \/ (pass.list[i] = "mine" /\ dnsRow[i] # "current")
        /\ fail(failAutomatedRoutes)
        /\ UNCHANGED <<dns, dnsRow>>
  /\ UNCHANGED <<wanted, inst, ing, ingRow, bounds>>

observedDNS ==
  [i \in Instances |->
     IF i \notin pass.desired THEN obs[i]
     ELSE IF i \in pass.conflict THEN [obs[i] EXCEPT !.dns = "conflict", !.re = FALSE]
     ELSE [obs[i] EXCEPT !.dns = "ready"]]

\* The DNS outcome is noted and the tunnel's rules are read with their version.
ReadIngress ==
  /\ pass.pc = "dns" /\ pass.todo = {}
  /\ obs' = observedDNS
  /\ pass' = [pass EXCEPT !.pc = "ingress", !.rules = ing, !.moved = FALSE,
                          !.list = NoPass.list, !.conflict = {}]
  /\ UNCHANGED <<wanted, inst, cloud, ledger, ops, cleanup, access, bounds>>

\* Rules that are not Fleet's by the ledger are kept as they are.
ingressConflicts == {i \in pass.desired : pass.rules[i] # "none" /\ (~ingRow[i] \/ pass.rules[i] # "fleet")}
\* Mutant: a wanted hostname's rule is rewritten whoever made it.
mergeWantedIngress ==
  [i \in Instances |-> IF i \in pass.desired THEN "fleet"
                       ELSE IF i \notin pass.desired /\ ingRow[i] THEN "none"
                       ELSE pass.rules[i]]
mergeOwnedIngress ==
  [i \in Instances |-> IF i \in pass.desired \ ingressConflicts THEN "fleet"
                       ELSE IF i \notin pass.desired /\ ingRow[i] THEN "none"
                       ELSE pass.rules[i]]
RefusesRemoval == \E i \in Instances \ pass.desired : ingRow[i] /\ pass.rules[i] = "other"

\* The merged rules replace the tunnel's, if they differ and the version that
\* was read is still the current one.
WriteIngress ==
  /\ pass.pc = "ingress"
  /\ IF RefusesRemoval \/ (mergeOwnedIngress # pass.rules /\ pass.moved)
     THEN fail(failIngress) /\ UNCHANGED ing
     ELSE /\ ing' = IF mergeOwnedIngress = pass.rules THEN ing ELSE mergeOwnedIngress
          /\ pass' = [pass EXCEPT !.pc = "record", !.conflict = ingressConflicts, !.rules = NoPass.rules,
                                  !.todo = pass.desired \ ingressConflicts]
          /\ UNCHANGED <<access, obs, ops, cleanup>>
  /\ UNCHANGED <<wanted, inst, dns, ledger, bounds>>

\* The ledger rows of the rules Fleet applied, one write each.
RecordIngress(i) ==
  /\ pass.pc = "record" /\ i \in pass.todo
  /\ ingRow' = [ingRow EXCEPT ![i] = TRUE]
  /\ pass' = [pass EXCEPT !.todo = @ \ {i}]
  /\ UNCHANGED <<wanted, inst, cloud, dnsRow, ops, cleanup, access, obs, bounds>>

\* The zone and the tunnel are read again.  A removed resource that is still
\* there fails the pass, after the rows of some of the others were deleted;
\* otherwise the rows go and the routes' states are settled.
dnsResourcePresent(i) == dns[i] \in {"fleet", "edited"}
removedIngress == {i \in Instances \ pass.desired : ingRow[i]}
observedIngress ==
  [i \in Instances |->
     IF i \notin pass.desired THEN obs[i]
     ELSE LET v == [obs[i] EXCEPT
                      !.ing = IF i \in pass.conflict THEN "conflict" ELSE IF ing[i] = "fleet" THEN "ready" ELSE "failed",
                      !.dns = IF @ = "ready" /\ dns[i] # "fleet" THEN "failed" ELSE @]
          IN IF v.dns = "ready" /\ v.ing = "ready" THEN [v EXCEPT !.end = IF v.re THEN @ ELSE "checking"]
             ELSE [v EXCEPT !.re = FALSE]]
VerifyRoutes ==
  /\ pass.pc = "record" /\ pass.todo = {}
  /\ LET staleDNS == {i \in pass.gone : dnsResourcePresent(i)}
         staleIng == {i \in removedIngress : ing[i] # "none"}
     IN \E D \in SUBSET (pass.gone \ staleDNS), R \in SUBSET (removedIngress \ staleIng) :
          /\ IF staleDNS # {} THEN D # pass.gone /\ R = {} ELSE D = pass.gone
          /\ staleDNS = {} /\ staleIng = {} => R = removedIngress
          /\ dnsRow' = [i \in Instances |-> IF i \in D THEN "none" ELSE dnsRow[i]]
          /\ ingRow' = [i \in Instances |-> ingRow[i] /\ i \notin R]
          /\ IF staleDNS = {} /\ staleIng = {}
             THEN /\ obs' = observedIngress
                  /\ pass' = [pass EXCEPT !.pc = "check", !.conflict = {}, !.gone = {},
                                !.todo = {i \in pass.desired : observedIngress[i].dns = "ready" /\ observedIngress[i].ing = "ready"}]
                  /\ UNCHANGED <<access, ops, cleanup>>
             ELSE fail(obs)
  /\ UNCHANGED <<wanted, inst, cloud, bounds>>

checkPublicEndpointOnce(response) ==
  CASE response \in {"ok", "redirect"} -> "reachable"
    [] response \in {"access", "denied"} -> "protected"
    [] response = "unknown host" -> "propagating"
    [] OTHER -> "unavailable"

\* The public endpoint of each route whose resources are in place (retried
\* inside the call for up to 30 seconds; only its last answer counts).
checkPublicEndpoint(i, response) ==
  /\ pass.pc = "check" /\ i \in pass.todo
  /\ obs' = [obs EXCEPT ![i].end = checkPublicEndpointOnce(response), ![i].re = FALSE]
  /\ pass' = [pass EXCEPT !.todo = @ \ {i}]
  /\ UNCHANGED <<wanted, inst, cloud, ledger, ops, cleanup, access, bounds>>

\* refreshConnectorHealth after the pass: a connector in transition or down
\* replaces the synced state.
refreshConnectorHealth(c) == CASE c = "running" -> "synced" [] c = "starting" -> "syncing" [] OTHER -> "degraded"

FinishPass(c) ==
  /\ pass.pc = "check" /\ pass.todo = {}
  /\ access' = [access EXCEPT !.state = refreshConnectorHealth(c), !.synced = TRUE, !.connector = c,
                              !.routes = {i \in pass.desired : publicationRouteVerified(obs[i])}]
  /\ Return(TRUE)
  /\ UNCHANGED <<wanted, inst, cloud, ledger, obs, bounds>>

\* The pass returns an error from one of its calls.
PassFault ==
  \/ pass.pc \in {"ids", "dns", "created"} /\ FaultFails(failAutomatedRoutes)
  \/ pass.pc = "ingress" /\ FaultFails(failIngress)
  \/ pass.pc = "record" /\ pass.todo # {} /\ FaultFails(obs)
  \/ pass.pc = "record" /\ pass.todo = {} /\ (FaultFails(failIngress) \/ FaultFails(failAutomatedRoutes))

ReconcilePass ==
  \/ IdentifyOwners \/ PutRemoteAccessResource \/ ReadIngress \/ WriteIngress \/ VerifyRoutes
  \/ \E i \in Instances : ensureOwnedDNS(i) \/ removeStaleDNS(i) \/ RecordIngress(i)
  \/ \E i \in Instances, r \in Responses : checkPublicEndpoint(i, r)
  \/ \E c \in Connectors : FinishPass(c)

-----------------------------------------------------------------------------
(* Publication operations.                                                 *)

\* The hostname and the operation are stored in one transaction.
StartInstancePublishing(o, i, publish) ==
  /\ ops[o].status = "none" /\ inst[i] = "up"
  /\ wanted' = IF publish THEN wanted \cup {i} ELSE wanted \ {i}
  /\ ops' = [ops EXCEPT ![o] = [inst |-> i, publish |-> publish, late |-> FALSE, status |-> "PENDING", pc |-> "started"]]
  /\ UNCHANGED <<inst, cloud, ledger, cleanup, pass, access, obs, bounds>>

\* Publishing needs the connected instance boundary, unpublishing does not.
publishInstanceDashboard(o, i, publish) ==
  /\ publish => access.configured
  /\ StartInstancePublishing(o, i, publish)

runPublishInstanceDashboard(o) ==
  /\ ops[o].pc = "started"
  /\ ops' = UpdateControlPlaneOperation(o, "RUNNING", "waiting", ops)
  /\ UNCHANGED <<wanted, inst, cloud, ledger, cleanup, pass, access, obs, bounds>>

\* The goroutine's own pass, once it holds the mutex; its deadline does not
\* interrupt the wait for the mutex, only the calls made afterwards.
ReconcileForOperation(o) ==
  /\ ops[o].pc = "waiting"
  /\ BeginPass(o, ops[o].late)
  /\ ops' = IF Runs(ops[o].late) THEN [ops EXCEPT ![o].pc = "passing"]
                                 ELSE UpdateControlPlaneOperation(o, "FAILED", "ended", ops)
  /\ UNCHANGED <<wanted, inst, cloud, ledger, cleanup, bounds>>

\* Two minutes after the start the context of the goroutine expires.
OperationDeadline(o) ==
  /\ ops[o].pc \in {"waiting", "passing", "read"} /\ ~ops[o].late
  /\ ops' = [ops EXCEPT ![o].late = TRUE]
  /\ UNCHANGED <<wanted, inst, cloud, ledger, cleanup, pass, access, obs, bounds>>

\* After its pass the goroutine looks its route up among the live instances.
\* A hostname still propagating is tried again until the deadline.
publishedRoute(i) == IF i \in wanted THEN obs[i] ELSE pendingRouteObservations
JudgePublication(o) ==
  /\ ops[o].pc = "read"
  /\ LET i == ops[o].inst
         outcome == IF inst[i] # "up" THEN <<"FAILED", "ended">>
                    ELSE IF publicationRouteVerified(publishedRoute(i)) THEN <<"SUCCEEDED", "ended">>
                    ELSE IF publishedRoute(i).end = "propagating" /\ ~ops[o].late THEN <<"RUNNING", "waiting">>
                    ELSE <<"FAILED", "ended">>
     IN ops' = UpdateControlPlaneOperation(o, outcome[1], outcome[2], ops)
  /\ UNCHANGED <<wanted, inst, cloud, ledger, cleanup, pass, access, obs, bounds>>

\* Every 30 seconds: operations without progress for the deadline and a grace
\* period, their goroutine gone or still waiting for the mutex, are settled
\* from the manager's memory.
stalePublicationOutcome(o) ==
  LET i == ops[o].inst
      listed == inst[i] = "up"
      hostname == listed /\ i \in wanted
  IN IF ~ops[o].publish
     THEN IF access.state = "synced" /\ ~hostname THEN "SUCCEEDED" ELSE "FAILED"
     ELSE IF hostname /\ publicationRouteVerified(obs[i]) THEN "SUCCEEDED" ELSE "FAILED"
ListStalePublishingOperations == {o \in Operations : ops[o].status \in Active /\ (ops[o].pc = "dead" \/ ops[o].late)}
reconcileStalePublicationOperations(o) ==
  /\ access.configured /\ access.state # "syncing"
  /\ o \in ListStalePublishingOperations
  /\ ops' = [ops EXCEPT ![o].status = stalePublicationOutcome(o)]
  /\ UNCHANGED <<wanted, inst, cloud, ledger, cleanup, pass, access, obs, bounds>>

-----------------------------------------------------------------------------
(* Deletion of an instance.                                                *)

QueueDeletion(i) ==
  /\ inst[i] = "up"
  /\ inst' = [inst EXCEPT ![i] = "deleting"]
  /\ UNCHANGED <<wanted, cloud, ledger, ops, cleanup, pass, access, obs, bounds>>

\* The instance.delete job ends: the runtime is gone, or the instance is back.
CompleteDeletion(i) ==
  /\ inst[i] = "deleting"
  /\ \E s \in {"cleaning", "up"} : inst' = [inst EXCEPT ![i] = s]
  /\ UNCHANGED <<wanted, cloud, ledger, ops, cleanup, pass, access, obs, bounds>>

resourcesForInstance(i) == dnsRow[i] # "none" \/ ingRow[i]

\* Started by the completion, the 30 second ticker or the operator's retry,
\* one at a time for an instance.  Without ledger rows no pass is needed.
ListPendingInstanceDeletions == {i \in Instances : inst[i] = "cleaning"}
runInstanceDeletionCleanup(i) ==
  /\ i \in ListPendingInstanceDeletions /\ cleanup[i] = "idle"
  /\ cleanup' = [cleanup EXCEPT ![i] = IF resourcesForInstance(i) THEN "waiting" ELSE "passed"]
  /\ UNCHANGED <<wanted, inst, cloud, ledger, ops, pass, access, obs, bounds>>

ReconcileForCleanup(i) ==
  /\ cleanup[i] = "waiting"
  /\ BeginPass(i, FALSE)
  /\ cleanup' = [cleanup EXCEPT ![i] = IF Runs(FALSE) THEN "passing" ELSE "passed"]
  /\ UNCHANGED <<wanted, inst, cloud, ledger, ops, bounds>>

\* Whatever the pass returned, the ledger decides: rows left fail the
\* cleanup (to be retried), none finish the deletion.
UpdateInstanceDeletionCleanup(i) ==
  /\ cleanup[i] = "passed"
  /\ cleanup' = [cleanup EXCEPT ![i] = "idle"]
  /\ inst' = [inst EXCEPT ![i] = IF resourcesForInstance(i) THEN @ ELSE "deleted"]
  /\ UNCHANGED <<wanted, cloud, ledger, ops, pass, access, obs, bounds>>

-----------------------------------------------------------------------------
(* The world around.                                                       *)

\* Somebody else edits the zone or the tunnel (external).
OutsideEdit(i) ==
  /\ bounds.edits < MaxEdits
  /\ bounds' = [bounds EXCEPT !.edits = @ + 1]
  /\ \/ /\ \E d \in {"none", "edited", "foreign"} :
             /\ d # dns[i]
             /\ d = "foreign" => dns[i] = "none"
             /\ d = "edited" => dns[i] = "fleet"
             /\ dns' = [dns EXCEPT ![i] = d]
             /\ dnsRow' = [dnsRow EXCEPT ![i] = IF d = "none" /\ @ = "current" THEN "gone" ELSE @]
        /\ UNCHANGED <<ing, pass>>
     \/ /\ \E g \in {"none", "other"} \ {ing[i]} : ing' = [ing EXCEPT ![i] = g]
        /\ pass' = [pass EXCEPT !.moved = pass.pc = "ingress"]
        /\ UNCHANGED <<dns, dnsRow>>
  /\ UNCHANGED <<wanted, inst, ingRow, ops, cleanup, access, obs>>

\* The control plane stops: the pass, the goroutines and the memory are lost.
Crash ==
  /\ bounds.crashes < MaxCrashes
  /\ bounds' = [bounds EXCEPT !.crashes = @ + 1]
  /\ pass' = NoPass
  /\ ops' = [o \in Operations |-> IF ops[o].pc \in {"none", "ended"} THEN ops[o] ELSE [ops[o] EXCEPT !.pc = "dead", !.late = FALSE]]
  /\ cleanup' = [i \in Instances |-> "idle"]
  /\ access' = [configured |-> FALSE, state |-> "disabled", synced |-> FALSE, connector |-> "unknown", routes |-> {}]
  /\ obs' = [i \in Instances |-> pendingRouteObservations]
  /\ UNCHANGED <<wanted, inst, cloud, ledger>>

\* At the start the stored configuration is applied to the connectors; the
\* state is synced before the first pass, or an error that a pass may clear.
configureTokens ==
  /\ ~access.configured
  /\ \/ access' = [access EXCEPT !.configured = TRUE, !.state = "synced", !.synced = TRUE]
     \/ access' = [access EXCEPT !.configured = TRUE, !.state = "error"]
  /\ UNCHANGED <<wanted, inst, cloud, ledger, ops, cleanup, pass, obs, bounds>>

Next ==
  \/ ReconcileLoop \/ ReconcilePass \/ PassFault \/ Crash \/ configureTokens
  \/ \E o \in Operations : \/ \E i \in Instances, b \in BOOLEAN : publishInstanceDashboard(o, i, b)
                           \/ runPublishInstanceDashboard(o) \/ ReconcileForOperation(o)
                           \/ OperationDeadline(o) \/ JudgePublication(o)
                           \/ reconcileStalePublicationOperations(o)
  \/ \E i \in Instances : \/ QueueDeletion(i) \/ CompleteDeletion(i) \/ runInstanceDeletionCleanup(i)
                          \/ ReconcileForCleanup(i) \/ UpdateInstanceDeletionCleanup(i) \/ OutsideEdit(i)

Spec == Init /\ [][Next]_vars

-----------------------------------------------------------------------------
\* PublicDashboardURL: the address the UI links to.
PublicDashboardURL(i) ==
  /\ access.synced /\ access.connector \in {"unknown", "running"}
  /\ i \in wanted \cap access.routes

\* Records and rules that Fleet did not make survive every pass, publication
\* and deletion: only another hand removes or replaces them.
ForeignKept ==
  [][\A i \in Instances :
       (dns[i] = "foreign" /\ dns'[i] # "foreign") \/ (ing[i] = "other" /\ ing'[i] # "other")
         => bounds'.edits > bounds.edits]_vars

\* A route shown as verified (so every publication reported as succeeded, and
\* every route kept while it is revalidated) has Fleet's record and rule in
\* place and recorded, as long as nobody else edits Cloudflare.
VerifiedIsServed ==
  \A i \in Instances : publicationRouteVerified(obs[i]) /\ bounds.edits = 0
    => dns[i] = "fleet" /\ ing[i] = "fleet" /\ dnsRow[i] = "current" /\ ingRow[i]

\* A dashboard address is offered only for a route that is served, between
\* passes.
ShownIsServed ==
  \A i \in Instances : PublicDashboardURL(i) /\ pass.pc = "idle" /\ bounds.edits = 0
    => dns[i] = "fleet" /\ ing[i] = "fleet"

\* An operation that ended keeps its outcome although its goroutine and the
\* recovery of stale operations both settle it.
OutcomeFinal ==
  [][\A o \in Operations : ops[o].status \in Terminal => ops'[o].status = ops[o].status]_vars

\* Without failing calls and crashes the ledger names everything Fleet made,
\* whenever no pass is running.
LedgerComplete ==
  \A i \in Instances : pass.pc = "idle" /\ bounds.faults = 0 /\ bounds.crashes = 0
    => /\ dns[i] \in {"fleet", "edited"} => dnsRow[i] = "current"
       /\ ing[i] = "fleet" => ingRow[i]

\* "Fleet-owned DNS and ingress resources were removed" when an unpublication
\* is reported as succeeded.
UnpublishedIsRemoved ==
  [][\A o \in Operations :
       ~ops[o].publish /\ ops[o].status \in Active /\ ops'[o].status = "SUCCEEDED"
         => LET i == ops[o].inst IN dns'[i] # "fleet" /\ ing'[i] # "fleet"]_vars

\* "Runtime and Fleet-owned Cloudflare resources were removed" once an
\* instance is deleted.
DeletedLeavesNothing ==
  \A i \in Instances : inst[i] = "deleted" => dns[i] \notin {"fleet", "edited"} /\ ing[i] # "fleet"

-----------------------------------------------------------------------------
(* Fairness: the passes, goroutines and tickers run; Go's mutex hands over *)
(* to a starving waiter, so whoever waits for a pass gets it.              *)

FairSpec ==
  /\ Spec
  /\ WF_vars(ReconcilePass) /\ WF_vars(ReconcileLoop) /\ WF_vars(configureTokens)
  /\ \A o \in Operations : /\ WF_vars(runPublishInstanceDashboard(o)) /\ SF_vars(ReconcileForOperation(o))
                           /\ WF_vars(JudgePublication(o)) /\ WF_vars(OperationDeadline(o))
                           /\ SF_vars(reconcileStalePublicationOperations(o))
  /\ \A i \in Instances : /\ WF_vars(CompleteDeletion(i)) /\ WF_vars(runInstanceDeletionCleanup(i))
                          /\ SF_vars(ReconcileForCleanup(i)) /\ WF_vars(UpdateInstanceDeletionCleanup(i))

\* Every publication operation is settled, also one whose goroutine died.
OperationsEnd == \A o \in Operations : ops[o].status \in Active ~> ops[o].status \in Terminal

\* When nothing fails or is edited, a deleted instance ends without a record
\* or a rule, also when a pass that began before the deletion created them.
DeletionIsClean ==
  \A i \in Instances :
    inst[i] = "cleaning" ~> (inst[i] = "deleted" /\ dns[i] = "none" /\ ing[i] = "none") \/ bounds.crashes > 0
=============================================================================
