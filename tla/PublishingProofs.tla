--------------------------- MODULE PublishingProofs ---------------------------
(***************************************************************************)
(* Proofs about Publishing for every set of instances and operations and   *)
(* any number of edits, failing calls and crashes.                         *)
(***************************************************************************)
EXTENDS Publishing, TLAPS

DNS == { "none", "fleet", "edited", "foreign" }
Rules == { "none", "fleet", "other" }
Observations ==
    [ dns : { "pending", "ready", "conflict", "failed" },
      ing : { "pending", "ready", "conflict", "failed" },
      end : { "unchecked", "checking", "reachable", "protected", "propagating", "unavailable" },
      re : BOOLEAN ]
Passes ==
    [ pc : { "idle", "ids", "dns", "created", "ingress", "record", "check" },
      by : { "loop" } \cup Operations \cup Instances, desired : SUBSET Instances,
      list : [Instances -> { "none", "mine", "changed", "alien" }],
      rules : [Instances -> Rules], moved : BOOLEAN, at : Instances \cup { "none" },
      todo : SUBSET Instances, conflict : SUBSET Instances, gone : SUBSET Instances ]

Typed ==
    /\ wanted \in SUBSET Instances
    /\ dns \in [Instances -> DNS] /\ ing \in [Instances -> Rules]
    /\ dnsRow \in [Instances -> { "none", "current", "gone" }] /\ ingRow \in [Instances -> BOOLEAN]
    /\ obs \in [Instances -> Observations] /\ pass \in Passes
    /\ bounds \in [edits : Nat, faults : Nat, crashes : Nat]

Working == pass.pc # "idle"
Early == pass.pc \in { "ids", "dns", "created" }
Late == pass.pc \in { "ingress", "record", "check" }
Untouched == bounds.edits = 0
Faultless == bounds.faults = 0 /\ bounds.crashes = 0

Recorded(i) == dns[i] = "fleet" /\ dnsRow[i] = "current"
Routed(i) == ing[i] = "fleet" /\ ingRow[i]

(* The ledger calls a record current only while Fleet's is in the zone.     *)
RowsTrue == \A i \in Instances : dnsRow[i] = "current" => dns[i] \in { "fleet", "edited" }

(* The rules a pass merges are the tunnel's, unless it will find the version *)
(* moved.                                                                   *)
RulesTrue ==
    /\ pass.pc = "ingress" /\ ~pass.moved => pass.rules = ing
    /\ Untouched => ~pass.moved

(* What a pass has to do, and what it still shows while it works.           *)
PassOK ==
    /\ Working => /\ pass.gone \cap pass.desired = {}
                  /\ \A i \in Instances \ pass.desired : obs[i] = pendingRouteObservations
    /\ Early => \A i \in Instances : obs[i].end = "reachable" => publicationRouteVerified(obs[i])
    /\ pass.pc = "created" => pass.at \in pass.desired \cap pass.todo /\ pass.list[pass.at] = "none"
    /\ pass.pc = "record" => \A i \in pass.desired : i \in pass.todo \/ i \in pass.conflict \/ ingRow[i]
    /\ pass.pc = "check" => \A i \in pass.todo : i \in pass.desired /\ obs[i].dns = "ready" /\ obs[i].ing = "ready"

(* What a pass has accepted or made is there, if no other hand touched it.  *)
PassTrue ==
    Untouched =>
      /\ pass.pc = "created" => dns[pass.at] = "fleet"
      /\ pass.pc \in { "dns", "created" } =>
            \A i \in pass.desired : pass.list[i] = "mine" \/ i \notin pass.todo \cup pass.conflict => Recorded(i)
      /\ Late => \A i \in pass.desired : obs[i].dns = "ready" => Recorded(i)
      /\ pass.pc = "check" => \A i \in pass.desired : obs[i].ing = "ready" => Routed(i)

(* What Fleet made is in the ledger, or about to be.                        *)
LedgerTrue ==
    Faultless =>
      \A i \in Instances :
        /\ dns[i] \in { "fleet", "edited" } => dnsRow[i] = "current" \/ (pass.pc = "created" /\ pass.at = i)
        /\ ing[i] = "fleet" => ingRow[i] \/ (pass.pc = "record" /\ i \in pass.todo)

PublishingInv == Typed /\ RowsTrue /\ RulesTrue /\ PassOK /\ PassTrue /\ LedgerTrue /\ VerifiedIsServed

------------------------------------------------------------------------------
(* Passes, observations and rows.                                          *)

(* No pass is one, and has nothing to do.                                   *)
LEMMA NoPassTyped ==
    NoPass \in Passes /\ NoPass.pc = "idle" /\ ~NoPass.moved
BY DEF NoPass, Passes, Rules

(* An observation before anything was checked shows nothing as verified.    *)
LEMMA PendingTyped ==
    /\ pendingRouteObservations \in Observations
    /\ pendingRouteObservations.end = "unchecked"
    /\ ~publicationRouteVerified(pendingRouteObservations)
BY DEF pendingRouteObservations, Observations, publicationRouteVerified

(* What the operator, the operations and the cleanups do beside a pass.     *)
LEMMA Beside ==
    ASSUME PublishingInv, wanted' \in SUBSET Instances,
           UNCHANGED <<dns, ing, dnsRow, ingRow, obs, pass, bounds>>
    PROVE  PublishingInv'
<1>1. Typed'
  BY DEF PublishingInv, Typed
<1>2. RowsTrue' /\ RulesTrue'
  BY DEF PublishingInv, RowsTrue, RulesTrue, Untouched
<1>3. PassOK'
  BY DEF PublishingInv, PassOK, Working, Early
<1>4. PassTrue' /\ LedgerTrue'
  BY DEF PublishingInv, PassTrue, LedgerTrue, Untouched, Faultless, Late, Recorded, Routed
<1>5. VerifiedIsServed'
  BY DEF PublishingInv, VerifiedIsServed
<1> QED
  BY <1>1, <1>2, <1>3, <1>4, <1>5 DEF PublishingInv

(* A failing call.                                                          *)
LEMMA FaultCounts ==
    ASSUME Typed, Fault
    PROVE  /\ bounds' \in [edits : Nat, faults : Nat, crashes : Nat]
           /\ bounds'.edits = bounds.edits /\ ~Faultless'
<1>1. bounds \in [edits : Nat, faults : Nat, crashes : Nat]
  BY DEF Typed
<1>2. bounds.faults + 1 \in Nat /\ bounds.faults + 1 # 0
  BY <1>1
<1>3. bounds' = [bounds EXCEPT !.faults = bounds.faults + 1]
  BY DEF Fault
<1>4. /\ bounds' \in [edits : Nat, faults : Nat, crashes : Nat]
      /\ bounds'.edits = bounds.edits /\ bounds'.faults = bounds.faults + 1
  BY <1>1, <1>2, <1>3
<1> QED
  BY <1>2, <1>4 DEF Faultless

(* A row disappears only with what it names.                                *)
RowsKept ==
    /\ dnsRow' \in [Instances -> { "none", "current", "gone" }] /\ ingRow' \in [Instances -> BOOLEAN]
    /\ \A i \in Instances :
          /\ dnsRow'[i] = dnsRow[i] \/ (dnsRow'[i] = "none" /\ dns[i] \notin { "fleet", "edited" })
          /\ ingRow'[i] = ingRow[i] \/ (~ingRow'[i] /\ ing[i] # "fleet")

(* A pass ends: nothing it leaves is shown that was not shown before, and,  *)
(* unless a call failed, nothing it made is left without a row.             *)
LEMMA PassEnds ==
    ASSUME PublishingInv, pass' = NoPass, UNCHANGED <<wanted, dns, ing>>, RowsKept,
           bounds' \in [edits : Nat, faults : Nat, crashes : Nat], bounds'.edits = bounds.edits,
           Faultless' => Faultless /\ pass.pc # "created" /\ (pass.pc = "record" => pass.todo = {}),
           obs' \in [Instances -> Observations],
           \A i \in Instances : publicationRouteVerified(obs'[i]) => publicationRouteVerified(obs[i])
    PROVE  PublishingInv'
<1>1. pass' \in Passes /\ pass'.pc = "idle" /\ ~pass'.moved
  BY NoPassTyped
<1>2. Typed'
  BY <1>1 DEF PublishingInv, Typed, RowsKept
<1>3. RowsTrue' /\ RulesTrue'
  BY <1>1 DEF PublishingInv, RowsTrue, RulesTrue, RowsKept
<1>4. PassOK' /\ PassTrue'
  BY <1>1 DEF PassOK, PassTrue, Working, Early, Late
<1>5. LedgerTrue'
  BY DEF PublishingInv, LedgerTrue, RowsKept
<1>6. VerifiedIsServed'
  BY DEF PublishingInv, VerifiedIsServed, RowsKept
<1> QED
  BY <1>2, <1>3, <1>4, <1>5, <1>6 DEF PublishingInv

(* Rows that stay.                                                          *)
LEMMA SameRows ==
    ASSUME Typed, UNCHANGED <<dnsRow, ingRow>>
    PROVE  RowsKept
BY DEF Typed, RowsKept

(* A pass that fails shows less than before.                                *)
LEMMA FailedShows ==
    ASSUME Typed
    PROVE  /\ failAutomatedRoutes \in [Instances -> Observations]
           /\ \A i \in Instances : ~publicationRouteVerified(failAutomatedRoutes[i])
           /\ failIngress \in [Instances -> Observations]
           /\ \A i \in Instances : publicationRouteVerified(failIngress[i]) =>
                                      publicationRouteVerified(obs[i])
<1>1. obs \in [Instances -> Observations] /\ pendingRouteObservations \in Observations
  BY PendingTyped DEF Typed
<1>2. [pendingRouteObservations EXCEPT !.dns = "failed"] \in Observations
      /\ [pendingRouteObservations EXCEPT !.dns = "failed"].dns = "failed"
  BY <1>1 DEF Observations
<1>3. \A i \in Instances :
        /\ [obs[i] EXCEPT !.ing = "failed", !.end = "unchecked", !.re = FALSE] \in Observations
        /\ [obs[i] EXCEPT !.ing = "failed", !.end = "unchecked", !.re = FALSE].ing = "failed"
  BY <1>1 DEF Observations
<1>4. failAutomatedRoutes \in [Instances -> Observations]
  BY <1>1, <1>2 DEF failAutomatedRoutes
<1>5. \A i \in Instances : ~publicationRouteVerified(failAutomatedRoutes[i])
  BY <1>2, PendingTyped DEF failAutomatedRoutes, publicationRouteVerified
<1>6. failIngress \in [Instances -> Observations]
  BY <1>1, <1>3 DEF failIngress
<1>7. \A i \in Instances : publicationRouteVerified(failIngress[i]) => publicationRouteVerified(obs[i])
  BY <1>3 DEF failIngress, publicationRouteVerified
<1> QED
  BY <1>4, <1>5, <1>6, <1>7

(* A pass that fails of itself, and one that a failing call ends.           *)
LEMMA PassFails ==
    ASSUME PublishingInv, NEW seen, fail(seen), UNCHANGED <<wanted, dns, ing, dnsRow, ingRow>>,
           seen \in { obs, failAutomatedRoutes, failIngress },
           \/ /\ UNCHANGED bounds /\ pass.pc # "created" /\ (pass.pc = "record" => pass.todo = {})
           \/ Fault
    PROVE  PublishingInv'
<1>1. Typed
  BY DEF PublishingInv
<1>2. pass' = NoPass /\ obs' = seen
  BY DEF fail, Return
<1>3. /\ obs' \in [Instances -> Observations]
      /\ \A i \in Instances : publicationRouteVerified(obs'[i]) => publicationRouteVerified(obs[i])
  BY <1>1, <1>2, FailedShows DEF Typed
<1>4. /\ bounds' \in [edits : Nat, faults : Nat, crashes : Nat] /\ bounds'.edits = bounds.edits
      /\ Faultless' => Faultless /\ pass.pc # "created" /\ (pass.pc = "record" => pass.todo = {})
  <2>1. CASE Fault
    BY <1>1, <2>1, FaultCounts
  <2>2. CASE UNCHANGED bounds /\ pass.pc # "created" /\ (pass.pc = "record" => pass.todo = {})
    BY <1>1, <2>2 DEF Typed, Faultless
  <2> QED
    BY <2>1, <2>2
<1> QED
  BY <1>1, <1>2, <1>3, <1>4, SameRows, PassEnds

------------------------------------------------------------------------------
(* The steps of a pass.                                                    *)

(* Reconcile begins: verified routes stay shown, all others start over.     *)
LEMMA BeginStep ==
    ASSUME PublishingInv, NEW by \in { "loop" } \cup Operations \cup Instances, NEW expired,
           BeginPass(by, expired), UNCHANGED <<wanted, dns, ing, dnsRow, ingRow, bounds>>
    PROVE  PublishingInv'
<1>1. Typed /\ obs \in [Instances -> Observations] /\ wanted \in SUBSET Instances
  BY DEF PublishingInv, Typed
<1>2. CASE ~Runs(expired)
  BY <1>1, <1>2, Beside DEF BeginPass
<1>3. CASE Runs(expired)
  <2> DEFINE D == instanceRoutes
  <2>1. /\ pass' = [NoPass EXCEPT !.pc = "ids", !.by = by, !.desired = D]
        /\ obs' = revalidatingRouteObservations(D)
    BY <1>3 DEF BeginPass
  <2>2. D \in SUBSET Instances
    BY <1>1 DEF instanceRoutes
  <2> HIDE DEF D
  <2>3. /\ pass' \in Passes /\ pass'.pc = "ids" /\ pass'.desired = D /\ ~pass'.moved
        /\ pass'.gone = {}
    BY <2>1, <2>2, NoPassTyped DEF Passes, NoPass
  <2>4. \A i \in Instances :
           \/ /\ i \in D /\ publicationRouteVerified(obs[i]) /\ obs'[i] = [obs[i] EXCEPT !.re = TRUE]
           \/ obs'[i] = pendingRouteObservations
    BY <2>1 DEF revalidatingRouteObservations
  <2>5. \A i \in Instances :
           \/ /\ i \in D /\ publicationRouteVerified(obs[i]) /\ publicationRouteVerified(obs'[i])
              /\ obs'[i] \in Observations
           \/ obs'[i] = pendingRouteObservations /\ obs'[i] \in Observations
    <3> TAKE i \in Instances
    <3>1. CASE i \in D /\ publicationRouteVerified(obs[i]) /\ obs'[i] = [obs[i] EXCEPT !.re = TRUE]
      <4>1. obs[i] \in Observations
        BY <1>1
      <4>2. /\ obs'[i] \in Observations /\ obs'[i].dns = obs[i].dns /\ obs'[i].ing = obs[i].ing
            /\ obs'[i].end = obs[i].end
        BY <3>1, <4>1 DEF Observations
      <4> QED
        BY <3>1, <4>2 DEF publicationRouteVerified
    <3>2. CASE obs'[i] = pendingRouteObservations
      BY <3>2, PendingTyped
    <3> QED
      BY <2>4, <3>1, <3>2
  <2>6. obs' \in [Instances -> Observations]
    <3>1. obs' = [i \in Instances |-> obs'[i]]
      BY <2>1 DEF revalidatingRouteObservations
    <3> QED
      BY <2>5, <3>1
  <2>7. Typed'
    BY <1>1, <2>3, <2>6 DEF Typed
  <2>8. RowsTrue' /\ RulesTrue'
    BY <2>3 DEF PublishingInv, RowsTrue, RulesTrue
  <2>9. PassOK'
    BY <2>3, <2>5, PendingTyped DEF PassOK, Working, Early
  <2>10. PassTrue'
    BY <2>3 DEF PassTrue, Late
  <2>11. LedgerTrue'
    <3>1. pass.pc = "idle"
      BY DEF BeginPass
    <3> QED
      BY <3>1 DEF PublishingInv, LedgerTrue, Faultless
  <2>12. VerifiedIsServed'
    BY <2>5, PendingTyped DEF PublishingInv, VerifiedIsServed
  <2> QED
    BY <2>7, <2>8, <2>9, <2>10, <2>11, <2>12 DEF PublishingInv
<1> QED
  BY <1>2, <1>3

(* The zone is listed.                                                      *)
LEMMA IdentifyStep ==
    ASSUME PublishingInv, IdentifyOwners
    PROVE  PublishingInv'
<1>1. Typed /\ pass \in Passes /\ pass.pc = "ids"
  BY DEF PublishingInv, Typed, IdentifyOwners
<1>2. UNCHANGED <<wanted, dns, ing, dnsRow, ingRow, bounds>>
  BY DEF IdentifyOwners, cloud, ledger
<1>3. CASE ~(pass.desired \subseteq wanted)
  <2>1. fail(failAutomatedRoutes)
    BY <1>3 DEF IdentifyOwners
  <2> QED
    BY <1>1, <1>2, <2>1, PassFails
<1>4. CASE pass.desired \subseteq wanted
  <2> DEFINE L == [i \in Instances |-> Listed(i)]
             T == pass.desired \cup { i \in Instances : dnsRow[i] # "none" }
  <2>1. pass' = [pass EXCEPT !.pc = "dns", !.list = L, !.todo = T] /\ UNCHANGED obs
    BY <1>4 DEF IdentifyOwners
  <2>2. \A i \in Instances : Listed(i) \in { "none", "mine", "changed", "alien" }
    BY DEF Listed
  <2>3. L \in [Instances -> { "none", "mine", "changed", "alien" }]
    BY <2>2
  <2>4. T \in SUBSET Instances /\ pass.desired \subseteq T
    BY <1>1 DEF Passes
  <2>5. \A i \in Instances : L[i] = "mine" => Recorded(i)
    BY DEF Listed, Recorded
  <2> HIDE DEF L, T
  <2>6. /\ pass' \in Passes /\ pass'.pc = "dns" /\ pass'.desired = pass.desired /\ pass'.list = L
        /\ pass'.todo = T /\ pass'.moved = pass.moved /\ pass'.gone = pass.gone
    BY <1>1, <2>1, <2>3, <2>4 DEF Passes
  <2>7. Typed'
    BY <1>1, <1>2, <2>1, <2>6 DEF Typed
  <2>8. RowsTrue' /\ RulesTrue'
    BY <1>2, <2>6 DEF PublishingInv, RowsTrue, RulesTrue, Untouched
  <2>9. PassOK'
    BY <1>1, <2>1, <2>6 DEF PublishingInv, PassOK, Working, Early
  <2>10. PassTrue'
    <3>1. \A i \in pass.desired : i \in Instances /\ i \in T
      BY <1>1, <2>4 DEF Passes
    <3> QED
      BY <1>2, <2>5, <2>6, <3>1 DEF PassTrue, Late, Recorded
  <2>11. LedgerTrue'
    BY <1>1, <1>2, <2>6 DEF PublishingInv, LedgerTrue, Faultless
  <2>12. VerifiedIsServed'
    BY <1>2, <2>1 DEF PublishingInv, VerifiedIsServed
  <2> QED
    BY <2>7, <2>8, <2>9, <2>10, <2>11, <2>12 DEF PublishingInv
<1> QED
  BY <1>3, <1>4

(* A wanted record is accepted, found in the way, or created.               *)
LEMMA EnsureStep ==
    ASSUME PublishingInv, NEW i \in Instances, ensureOwnedDNS(i)
    PROVE  PublishingInv'
<1>1. Typed /\ pass \in Passes /\ pass.pc = "dns" /\ i \in pass.todo /\ i \in pass.desired
  BY DEF PublishingInv, Typed, ensureOwnedDNS
<1>2. UNCHANGED <<wanted, ing, dnsRow, ingRow, obs>>
  BY DEF ensureOwnedDNS, ledger
<1>3. ASSUME NEW C \in SUBSET Instances, pass' = [pass EXCEPT !.todo = @ \ {i}, !.conflict = C],
             pass.conflict \subseteq C, pass.list[i] = "mine" \/ i \in C, UNCHANGED dns,
             UNCHANGED bounds \/ Fault
      PROVE  PublishingInv'
  <2>1. /\ pass' \in Passes /\ pass'.pc = "dns" /\ pass'.desired = pass.desired
        /\ pass'.list = pass.list /\ pass'.todo = pass.todo \ {i} /\ pass'.conflict = C
        /\ pass'.moved = pass.moved /\ pass'.gone = pass.gone
    BY <1>1, <1>3 DEF Passes
  <2>2. /\ bounds' \in [edits : Nat, faults : Nat, crashes : Nat] /\ bounds'.edits = bounds.edits
        /\ Faultless' => Faultless
    <3>1. CASE Fault
      BY <1>1, <3>1, FaultCounts
    <3>2. CASE UNCHANGED bounds
      BY <1>1, <3>2 DEF Typed, Faultless
    <3> QED
      BY <1>3, <3>1, <3>2
  <2>3. Typed'
    BY <1>1, <1>2, <1>3, <2>1, <2>2 DEF Typed
  <2>4. RowsTrue' /\ RulesTrue'
    BY <1>2, <1>3, <2>1, <2>2 DEF PublishingInv, RowsTrue, RulesTrue, Untouched
  <2>5. PassOK'
    BY <1>1, <1>2, <2>1 DEF PublishingInv, PassOK, Working, Early
  <2>6. PassTrue'
    BY <1>1, <1>2, <1>3, <2>1, <2>2 DEF PublishingInv, PassTrue, Late, Recorded, Untouched
  <2>7. LedgerTrue'
    BY <1>1, <1>2, <1>3, <2>1, <2>2 DEF PublishingInv, LedgerTrue
  <2>8. VerifiedIsServed'
    BY <1>2, <1>3, <2>2 DEF PublishingInv, VerifiedIsServed
  <2> QED
    BY <2>3, <2>4, <2>5, <2>6, <2>7, <2>8 DEF PublishingInv
<1>4. CASE /\ pass.list[i] # "none"
           /\ pass' = [pass EXCEPT !.todo = @ \ {i},
                                   !.conflict = IF pass.list[i] = "mine" THEN @ ELSE @ \cup {i}]
           /\ UNCHANGED <<dns, bounds>>
  <2> DEFINE C == IF pass.list[i] = "mine" THEN pass.conflict ELSE pass.conflict \cup {i}
  <2>1. /\ C \in SUBSET Instances /\ pass.conflict \subseteq C /\ (pass.list[i] = "mine" \/ i \in C)
    BY <1>1 DEF Passes
  <2>2. pass' = [pass EXCEPT !.todo = @ \ {i}, !.conflict = C]
    BY <1>4
  <2> HIDE DEF C
  <2> QED
    BY <1>3, <1>4, <2>1, <2>2
<1>5. CASE /\ pass.list[i] = "none"
           /\ (dns[i] # "none" /\ UNCHANGED bounds) \/ Fault
           /\ pass' = [pass EXCEPT !.todo = @ \ {i}, !.conflict = @ \cup {i}]
           /\ UNCHANGED dns
  <2> DEFINE C == pass.conflict \cup {i}
  <2>1. C \in SUBSET Instances /\ pass.conflict \subseteq C /\ i \in C
    BY <1>1 DEF Passes
  <2>2. pass' = [pass EXCEPT !.todo = @ \ {i}, !.conflict = C]
    BY <1>5
  <2> HIDE DEF C
  <2> QED
    BY <1>3, <1>5, <2>1, <2>2
<1>6. CASE /\ pass.list[i] = "none" /\ dns[i] = "none"
           /\ dns' = [dns EXCEPT ![i] = "fleet"]
           /\ pass' = [pass EXCEPT !.pc = "created", !.at = i]
           /\ UNCHANGED bounds
  <2>1. /\ pass' \in Passes /\ pass'.pc = "created" /\ pass'.desired = pass.desired
        /\ pass'.list = pass.list /\ pass'.todo = pass.todo /\ pass'.conflict = pass.conflict
        /\ pass'.moved = pass.moved /\ pass'.gone = pass.gone /\ pass'.at = i
    BY <1>1, <1>6 DEF Passes
  <2>2. /\ dns' \in [Instances -> DNS] /\ dns'[i] = "fleet" /\ dns[i] = "none"
        /\ \A j \in Instances : j # i => dns'[j] = dns[j]
    BY <1>1, <1>6 DEF Typed, DNS
  <2>3. Typed'
    BY <1>1, <1>2, <1>6, <2>1, <2>2 DEF Typed
  <2>4. RowsTrue' /\ RulesTrue'
    BY <1>2, <1>6, <2>1, <2>2 DEF PublishingInv, RowsTrue, RulesTrue, Untouched
  <2>5. PassOK'
    BY <1>1, <1>2, <1>6, <2>1 DEF PublishingInv, PassOK, Working, Early
  <2>6. PassTrue'
    <3>1. pass.desired \subseteq Instances
      BY <1>1 DEF Passes
    <3> QED
      BY <1>1, <1>2, <1>6, <2>1, <2>2, <3>1 DEF PublishingInv, PassTrue, Late, Recorded, Untouched
  <2>7. LedgerTrue'
    BY <1>1, <1>2, <1>6, <2>1, <2>2 DEF PublishingInv, LedgerTrue, Faultless
  <2>8. VerifiedIsServed'
    BY <1>2, <1>6, <2>2 DEF PublishingInv, VerifiedIsServed
  <2> QED
    BY <2>3, <2>4, <2>5, <2>6, <2>7, <2>8 DEF PublishingInv
<1> QED
  BY <1>4, <1>5, <1>6 DEF ensureOwnedDNS

(* The record just created is written into the ledger.                      *)
LEMMA PutStep ==
    ASSUME PublishingInv, PutRemoteAccessResource
    PROVE  PublishingInv'
<1> DEFINE a == pass.at
           row == IF dns[a] \in { "fleet", "edited" } THEN "current" ELSE "gone"
<1>1. Typed /\ pass \in Passes /\ pass.pc = "created"
  BY DEF PublishingInv, Typed, PutRemoteAccessResource
<1>2. UNCHANGED <<wanted, dns, ing, ingRow, obs, bounds>>
  BY DEF PutRemoteAccessResource, cloud
<1>3. a \in pass.desired /\ a \in pass.todo /\ pass.list[a] = "none" /\ a \in Instances
  BY <1>1 DEF PublishingInv, PassOK, Passes
<1>4. dnsRow' = [dnsRow EXCEPT ![a] = row]
      /\ pass' = [pass EXCEPT !.pc = "dns", !.at = "none", !.todo = @ \ {a}]
  BY DEF PutRemoteAccessResource
<1>5. row \in { "current", "gone" } /\ (row = "current" <=> dns[a] \in { "fleet", "edited" })
  OBVIOUS
<1> HIDE DEF row, a
<1>6. /\ dnsRow' \in [Instances -> { "none", "current", "gone" }] /\ dnsRow'[a] = row
      /\ \A j \in Instances : j # a => dnsRow'[j] = dnsRow[j]
  BY <1>1, <1>3, <1>4, <1>5 DEF Typed
<1>7. /\ pass' \in Passes /\ pass'.pc = "dns" /\ pass'.desired = pass.desired
      /\ pass'.list = pass.list /\ pass'.todo = pass.todo \ {a} /\ pass'.conflict = pass.conflict
      /\ pass'.moved = pass.moved /\ pass'.gone = pass.gone
  BY <1>1, <1>4 DEF Passes
<1>8. Typed'
  BY <1>1, <1>2, <1>6, <1>7 DEF Typed
<1>9. RowsTrue' /\ RulesTrue'
  BY <1>2, <1>5, <1>6, <1>7 DEF PublishingInv, RowsTrue, RulesTrue, Untouched
<1>10. PassOK'
  BY <1>1, <1>2, <1>7 DEF PublishingInv, PassOK, Working, Early
<1>11. PassTrue'
  <2>1. pass.desired \subseteq Instances
    BY <1>1 DEF Passes
  <2>2. Untouched => dns[a] = "fleet"
    BY <1>1 DEF PublishingInv, PassTrue, a
  <2> QED
    BY <1>1, <1>2, <1>5, <1>6, <1>7, <2>1, <2>2 DEF PublishingInv, PassTrue, Late, Recorded, Untouched
<1>12. LedgerTrue'
  BY <1>1, <1>2, <1>5, <1>6, <1>7 DEF PublishingInv, LedgerTrue, Faultless, a
<1>13. VerifiedIsServed'
  BY <1>2, <1>5, <1>6 DEF PublishingInv, VerifiedIsServed
<1> QED
  BY <1>8, <1>9, <1>10, <1>11, <1>12, <1>13 DEF PublishingInv

(* A record that is no longer wanted goes by the identity in the ledger.    *)
LEMMA RemoveStep ==
    ASSUME PublishingInv, NEW i \in Instances, removeStaleDNS(i)
    PROVE  PublishingInv'
<1>1. /\ Typed /\ pass \in Passes /\ pass.pc = "dns" /\ i \in pass.todo
      /\ pass.todo \cap pass.desired = {} /\ i \notin pass.desired
  BY DEF PublishingInv, Typed, removeStaleDNS
<1>2. UNCHANGED <<wanted, ing, ingRow, bounds>>
  BY DEF removeStaleDNS
<1>3. CASE /\ pass' = [pass EXCEPT !.todo = @ \ {i}, !.gone = @ \cup {i}]
           /\ \/ UNCHANGED <<dns, dnsRow>>
              \/ dns' = [dns EXCEPT ![i] = "none"] /\ dnsRow' = [dnsRow EXCEPT ![i] = "gone"]
           /\ UNCHANGED obs
  <2>1. /\ pass' \in Passes /\ pass'.pc = "dns" /\ pass'.desired = pass.desired
        /\ pass'.list = pass.list /\ pass'.todo = pass.todo \ {i} /\ pass'.conflict = pass.conflict
        /\ pass'.moved = pass.moved /\ pass'.gone = pass.gone \cup {i}
    BY <1>1, <1>3 DEF Passes
  <2>2. /\ dns' \in [Instances -> DNS] /\ dnsRow' \in [Instances -> { "none", "current", "gone" }]
        /\ \A j \in Instances : j # i => dns'[j] = dns[j] /\ dnsRow'[j] = dnsRow[j]
        /\ \/ dns'[i] = dns[i] /\ dnsRow'[i] = dnsRow[i]
           \/ dns'[i] = "none" /\ dnsRow'[i] = "gone"
    BY <1>1, <1>3 DEF Typed, DNS
  <2>3. Typed'
    BY <1>1, <1>2, <1>3, <2>1, <2>2 DEF Typed
  <2>4. RowsTrue' /\ RulesTrue'
    BY <1>2, <2>1, <2>2 DEF PublishingInv, RowsTrue, RulesTrue, Untouched
  <2>5. PassOK'
    BY <1>1, <1>3, <2>1 DEF PublishingInv, PassOK, Working, Early
  <2>6. PassTrue'
    <3>1. pass.desired \subseteq Instances
      BY <1>1 DEF Passes
    <3> QED
      BY <1>1, <1>2, <2>1, <2>2, <3>1 DEF PublishingInv, PassTrue, Late, Recorded, Untouched
  <2>7. LedgerTrue'
    BY <1>1, <1>2, <2>1, <2>2 DEF PublishingInv, LedgerTrue, Faultless
  <2>8. VerifiedIsServed'
    <3>1. ~publicationRouteVerified(obs[i])
      BY <1>1, PendingTyped DEF PublishingInv, PassOK, Working
    <3> QED
      BY <1>2, <1>3, <2>2, <3>1 DEF PublishingInv, VerifiedIsServed
  <2> QED
    BY <2>3, <2>4, <2>5, <2>6, <2>7, <2>8 DEF PublishingInv
<1>4. CASE fail(failAutomatedRoutes) /\ UNCHANGED <<dns, dnsRow>>
  BY <1>1, <1>2, <1>4, PassFails
<1> QED
  BY <1>3, <1>4 DEF removeStaleDNS

(* The outcome for the records is noted, the rules are read.                *)
LEMMA ReadStep ==
    ASSUME PublishingInv, ReadIngress
    PROVE  PublishingInv'
<1>1. /\ Typed /\ pass \in Passes /\ pass.pc = "dns" /\ pass.todo = {}
      /\ obs \in [Instances -> Observations] /\ ing \in [Instances -> Rules]
      /\ pass.desired \subseteq Instances
  BY DEF PublishingInv, Typed, ReadIngress, Passes
<1>2. UNCHANGED <<wanted, dns, ing, dnsRow, ingRow, bounds>>
  BY DEF ReadIngress, cloud, ledger
<1>3. /\ obs' = observedDNS
      /\ pass' = [pass EXCEPT !.pc = "ingress", !.rules = ing, !.moved = FALSE,
                              !.list = NoPass.list, !.conflict = {}]
  BY DEF ReadIngress
<1>4. NoPass.list \in [Instances -> { "none", "mine", "changed", "alien" }]
  BY DEF NoPass
<1>5. /\ pass' \in Passes /\ pass'.pc = "ingress" /\ pass'.desired = pass.desired
      /\ pass'.rules = ing /\ ~pass'.moved /\ pass'.gone = pass.gone /\ pass'.todo = {}
  BY <1>1, <1>3, <1>4 DEF Passes
<1>6. \A i \in Instances :
         /\ obs'[i] \in Observations /\ obs'[i].end = obs[i].end
         /\ i \notin pass.desired => obs'[i] = obs[i]
         /\ i \in pass.desired /\ obs'[i].dns = "ready" => i \notin pass.conflict
  <2> TAKE i \in Instances
  <2>1. obs[i] \in Observations
    BY <1>1
  <2>2. /\ [obs[i] EXCEPT !.dns = "conflict", !.re = FALSE] \in Observations
        /\ [obs[i] EXCEPT !.dns = "conflict", !.re = FALSE].dns = "conflict"
        /\ [obs[i] EXCEPT !.dns = "conflict", !.re = FALSE].end = obs[i].end
        /\ [obs[i] EXCEPT !.dns = "ready"] \in Observations
        /\ [obs[i] EXCEPT !.dns = "ready"].end = obs[i].end
    BY <2>1 DEF Observations
  <2> QED
    BY <1>3, <2>1, <2>2 DEF observedDNS
<1>7. obs' \in [Instances -> Observations]
  <2>1. obs' = [i \in Instances |-> obs'[i]]
    BY <1>3 DEF observedDNS
  <2> QED
    BY <1>6, <2>1
<1>8. Typed'
  BY <1>1, <1>2, <1>5, <1>7 DEF Typed
<1>9. RowsTrue' /\ RulesTrue'
  BY <1>2, <1>5 DEF PublishingInv, RowsTrue, RulesTrue
<1>10. PassOK'
  BY <1>1, <1>5, <1>6 DEF PublishingInv, PassOK, Working, Early
<1>11. PassTrue'
  BY <1>1, <1>2, <1>5, <1>6 DEF PublishingInv, PassTrue, Late, Recorded, Untouched
<1>12. LedgerTrue'
  BY <1>1, <1>2, <1>5 DEF PublishingInv, LedgerTrue, Faultless
<1>13. VerifiedIsServed'
  <2>1. \A i \in Instances : publicationRouteVerified(obs'[i]) => publicationRouteVerified(obs[i])
    BY <1>1, <1>6 DEF PublishingInv, PassOK, Early, publicationRouteVerified
  <2> QED
    BY <1>2, <2>1 DEF PublishingInv, VerifiedIsServed
<1> QED
  BY <1>8, <1>9, <1>10, <1>11, <1>12, <1>13 DEF PublishingInv

(* What the merged rules are for each hostname.                             *)
LEMMA Merged ==
    ASSUME Typed
    PROVE  /\ mergeOwnedIngress \in [Instances -> Rules]
           /\ \A i \in Instances :
                /\ i \in pass.desired /\ i \notin ingressConflicts => mergeOwnedIngress[i] = "fleet"
                /\ i \in ingressConflicts => mergeOwnedIngress[i] = pass.rules[i]
                /\ i \notin pass.desired /\ ingRow[i] => mergeOwnedIngress[i] = "none"
                /\ i \notin pass.desired /\ ~ingRow[i] => mergeOwnedIngress[i] = pass.rules[i]
<1>1. pass.rules \in [Instances -> Rules]
  BY DEF Typed, Passes
<1>2. \A j \in Instances : pass.rules[j] \in Rules /\ "none" \in Rules /\ "fleet" \in Rules
  BY <1>1 DEF Rules
<1>3. mergeOwnedIngress \in [Instances -> Rules]
  BY <1>2 DEF mergeOwnedIngress
<1>4. \A i \in Instances :
         mergeOwnedIngress[i] = IF i \in pass.desired \ ingressConflicts THEN "fleet"
                                ELSE IF i \notin pass.desired /\ ingRow[i] THEN "none" ELSE pass.rules[i]
  BY DEF mergeOwnedIngress
<1>5. ingressConflicts \subseteq pass.desired
  BY DEF ingressConflicts
<1> QED
  BY <1>3, <1>4, <1>5

(* The rules of the tunnel are replaced only by a merge of what it holds.   *)
LEMMA WriteStep ==
    ASSUME PublishingInv, WriteIngress
    PROVE  PublishingInv'
<1>1. /\ Typed /\ pass \in Passes /\ pass.pc = "ingress" /\ pass.desired \subseteq Instances
  BY DEF PublishingInv, Typed, WriteIngress, Passes
<1>2. UNCHANGED <<wanted, dns, dnsRow, ingRow, bounds>>
  BY DEF WriteIngress, ledger
<1> DEFINE M == mergeOwnedIngress
           stops == RefusesRemoval \/ (M # pass.rules /\ pass.moved)
<1>3. CASE stops
  <2>1. fail(failIngress) /\ UNCHANGED ing
    BY <1>3 DEF WriteIngress
  <2> QED
    BY <1>1, <1>2, <2>1, PassFails
<1>4. CASE ~stops
  <2> DEFINE C == ingressConflicts
             T == pass.desired \ ingressConflicts
  <2>1. /\ ing' = (IF M = pass.rules THEN ing ELSE M)
        /\ pass' = [pass EXCEPT !.pc = "record", !.conflict = C, !.rules = NoPass.rules, !.todo = T]
        /\ UNCHANGED obs
    BY <1>4 DEF WriteIngress
  <2>2. C \in SUBSET Instances /\ T \in SUBSET Instances /\ pass.desired \subseteq T \cup C
    BY <1>1 DEF ingressConflicts
  <2>3. NoPass.rules \in [Instances -> Rules]
    BY DEF NoPass, Rules
  <2>4. \A i \in Instances :
           /\ i \in pass.desired /\ i \notin C => M[i] = "fleet"
           /\ i \in C => M[i] = pass.rules[i]
           /\ i \notin pass.desired /\ ingRow[i] => M[i] = "none"
           /\ i \notin pass.desired /\ ~ingRow[i] => M[i] = pass.rules[i]
    BY <1>1, Merged
  <2>5. M \in [Instances -> Rules]
    BY <1>1, Merged
  <2>6. \A i \in C : pass.rules[i] # "none" /\ (~ingRow[i] \/ pass.rules[i] # "fleet")
    BY DEF ingressConflicts
  <2>7. \A i \in T : i \in pass.desired /\ i \notin C
    OBVIOUS
  <2>8. M # pass.rules => pass.rules = ing
    BY <1>1, <1>4 DEF PublishingInv, RulesTrue
  <2>9. Untouched => pass.rules = ing
    BY <1>1 DEF PublishingInv, RulesTrue
  <2> HIDE DEF M, C, T
  <2>11. ing' \in [Instances -> Rules]
    BY <1>1, <2>1, <2>5 DEF Typed
  <2>12. /\ pass' \in Passes /\ pass'.pc = "record" /\ pass'.desired = pass.desired
         /\ pass'.conflict = C /\ pass'.todo = T /\ pass'.moved = pass.moved /\ pass'.gone = pass.gone
    BY <1>1, <2>1, <2>2, <2>3 DEF Passes
  <2>13. Typed'
    BY <1>1, <1>2, <2>1, <2>11, <2>12 DEF Typed
  <2>14. RowsTrue' /\ RulesTrue'
    BY <1>2, <2>12 DEF PublishingInv, RowsTrue, RulesTrue, Untouched
  <2>15. PassOK'
    BY <1>1, <2>1, <2>2, <2>12 DEF PublishingInv, PassOK, Working, Early
  <2>16. PassTrue'
    BY <1>1, <1>2, <2>1, <2>12 DEF PublishingInv, PassTrue, Late, Recorded, Untouched
  <2>17. LedgerTrue'
    <3> SUFFICES ASSUME Faultless, NEW i \in Instances
                 PROVE  /\ dns[i] \in { "fleet", "edited" } => dnsRow[i] = "current"
                        /\ ing'[i] = "fleet" => ingRow[i] \/ i \in T
      BY <1>2, <2>12 DEF LedgerTrue, Faultless
    <3>1. dns[i] \in { "fleet", "edited" } => dnsRow[i] = "current"
      BY <1>1 DEF PublishingInv, LedgerTrue
    <3>2. ing[i] = "fleet" => ingRow[i]
      BY <1>1 DEF PublishingInv, LedgerTrue
    <3>3. CASE M = pass.rules
      BY <2>1, <3>1, <3>2, <3>3
    <3>4. CASE M # pass.rules
      <4>1. ing'[i] = M[i] /\ pass.rules[i] = ing[i]
        BY <2>1, <2>8, <3>4
      <4>2. CASE i \in C
        BY <2>4, <2>6, <3>1, <3>2, <4>1, <4>2
      <4>3. CASE i \notin C /\ i \in pass.desired
        BY <2>2, <3>1, <4>3
      <4>4. CASE i \notin C /\ i \notin pass.desired
        BY <2>4, <3>1, <3>2, <4>1, <4>4
      <4> QED
        BY <4>2, <4>3, <4>4
    <3> QED
      BY <3>3, <3>4
  <2>18. VerifiedIsServed'
    <3> SUFFICES ASSUME NEW i \in Instances, publicationRouteVerified(obs[i]), Untouched
                 PROVE  dns[i] = "fleet" /\ ing'[i] = "fleet" /\ dnsRow[i] = "current" /\ ingRow[i]
      BY <1>2, <2>1 DEF VerifiedIsServed, Untouched
    <3>1. dns[i] = "fleet" /\ ing[i] = "fleet" /\ dnsRow[i] = "current" /\ ingRow[i]
      BY DEF PublishingInv, VerifiedIsServed, Untouched
    <3>2. i \in pass.desired
      BY <1>1, PendingTyped DEF PublishingInv, PassOK, Working
    <3>3. pass.rules[i] = "fleet"
      BY <2>9, <3>1
    <3>4. i \notin C
      BY <2>6, <3>1, <3>3
    <3>5. M[i] = "fleet"
      BY <2>4, <3>2, <3>4
    <3> QED
      BY <2>1, <3>1, <3>5
  <2> QED
    BY <2>13, <2>14, <2>15, <2>16, <2>17, <2>18 DEF PublishingInv
<1> QED
  BY <1>3, <1>4

(* The rules applied are written into the ledger.                           *)
LEMMA RecordStep ==
    ASSUME PublishingInv, NEW i \in Instances, RecordIngress(i)
    PROVE  PublishingInv'
<1>1. Typed /\ pass \in Passes /\ pass.pc = "record" /\ pass.desired \subseteq Instances
  BY DEF PublishingInv, Typed, RecordIngress, Passes
<1>2. UNCHANGED <<wanted, dns, ing, dnsRow, obs, bounds>>
  BY DEF RecordIngress, cloud
<1>3. /\ ingRow' \in [Instances -> BOOLEAN] /\ ingRow'[i]
      /\ \A j \in Instances : j # i => ingRow'[j] = ingRow[j]
  BY <1>1 DEF Typed, RecordIngress
<1>4. /\ pass' \in Passes /\ pass'.pc = "record" /\ pass'.desired = pass.desired
      /\ pass'.conflict = pass.conflict /\ pass'.todo = pass.todo \ {i}
      /\ pass'.moved = pass.moved /\ pass'.gone = pass.gone
  BY <1>1 DEF Passes, RecordIngress
<1>5. Typed'
  BY <1>1, <1>2, <1>3, <1>4 DEF Typed
<1>6. RowsTrue' /\ RulesTrue'
  BY <1>2, <1>4 DEF PublishingInv, RowsTrue, RulesTrue, Untouched
<1>7. PassOK'
  BY <1>1, <1>2, <1>3, <1>4 DEF PublishingInv, PassOK, Working, Early
<1>8. PassTrue'
  BY <1>1, <1>2, <1>4 DEF PublishingInv, PassTrue, Late, Recorded, Untouched
<1>9. LedgerTrue'
  BY <1>1, <1>2, <1>3, <1>4 DEF PublishingInv, LedgerTrue, Faultless
<1>10. VerifiedIsServed'
  BY <1>2, <1>3 DEF PublishingInv, VerifiedIsServed
<1> QED
  BY <1>5, <1>6, <1>7, <1>8, <1>9, <1>10 DEF PublishingInv

(* Zone and tunnel are read again: what is called ready was seen.           *)
LEMMA ObservedIngress ==
    ASSUME Typed
    PROVE  /\ observedIngress \in [Instances -> Observations]
           /\ \A i \in Instances :
                /\ i \notin pass.desired => observedIngress[i] = obs[i]
                /\ i \in pass.desired =>
                     /\ observedIngress[i].dns = "ready" => obs[i].dns = "ready"
                     /\ observedIngress[i].ing = "ready" => i \notin pass.conflict /\ ing[i] = "fleet"
<1>1. obs \in [Instances -> Observations]
  BY DEF Typed
<1> DEFINE v(i) == [obs[i] EXCEPT
                      !.ing = IF i \in pass.conflict THEN "conflict"
                              ELSE IF ing[i] = "fleet" THEN "ready" ELSE "failed",
                      !.dns = IF @ = "ready" /\ dns[i] # "fleet" THEN "failed" ELSE @]
           w(i) == IF v(i).dns = "ready" /\ v(i).ing = "ready"
                   THEN [v(i) EXCEPT !.end = IF v(i).re THEN @ ELSE "checking"]
                   ELSE [v(i) EXCEPT !.re = FALSE]
<1>2. \A i \in Instances :
         /\ v(i) \in Observations
         /\ v(i).dns = "ready" => obs[i].dns = "ready"
         /\ v(i).ing = "ready" => i \notin pass.conflict /\ ing[i] = "fleet"
  BY <1>1 DEF Observations
<1>3. \A i \in Instances : i \in pass.desired => observedIngress[i] = w(i)
  BY DEF observedIngress
<1>4. \A i \in Instances : i \notin pass.desired => observedIngress[i] = obs[i]
  BY DEF observedIngress
<1> HIDE DEF v
<1>5. \A i \in Instances : w(i) \in Observations /\ w(i).dns = v(i).dns /\ w(i).ing = v(i).ing
  BY <1>2 DEF Observations
<1> HIDE DEF w
<1>6. \A i \in Instances : observedIngress[i] \in Observations
  BY <1>1, <1>3, <1>4, <1>5
<1>7. observedIngress = [i \in Instances |-> observedIngress[i]]
  BY DEF observedIngress
<1>8. observedIngress \in [Instances -> Observations]
  BY <1>6, <1>7
<1> QED
  BY <1>2, <1>3, <1>4, <1>5, <1>8

(* Rows go with what they named; a route is ready when both parts are seen. *)
LEMMA VerifyStep ==
    ASSUME PublishingInv, VerifyRoutes
    PROVE  PublishingInv'
<1>1. /\ Typed /\ pass \in Passes /\ pass.pc = "record" /\ pass.todo = {}
      /\ pass.desired \subseteq Instances
  BY DEF PublishingInv, Typed, VerifyRoutes, Passes
<1>2. UNCHANGED <<wanted, dns, ing, bounds>>
  BY DEF VerifyRoutes, cloud
<1> DEFINE staleDNS == { i \in pass.gone : dnsResourcePresent(i) }
           staleIng == { i \in removedIngress : ing[i] # "none" }
<1>3. PICK D \in SUBSET (pass.gone \ staleDNS), R \in SUBSET (removedIngress \ staleIng) :
          /\ dnsRow' = [i \in Instances |-> IF i \in D THEN "none" ELSE dnsRow[i]]
          /\ ingRow' = [i \in Instances |-> ingRow[i] /\ i \notin R]
          /\ IF staleDNS = {} /\ staleIng = {}
             THEN /\ obs' = observedIngress
                  /\ pass' = [pass EXCEPT !.pc = "check", !.conflict = {}, !.gone = {},
                                !.todo = { i \in pass.desired : observedIngress[i].dns = "ready"
                                                                /\ observedIngress[i].ing = "ready" }]
                  /\ UNCHANGED <<access, ops, cleanup>>
             ELSE fail(obs)
  BY DEF VerifyRoutes
<1>4. /\ \A i \in D : dns[i] \notin { "fleet", "edited" } /\ i \notin pass.desired
      /\ \A i \in R : ing[i] # "fleet" /\ i \notin pass.desired
  <2>1. pass.gone \cap pass.desired = {}
    BY <1>1 DEF PublishingInv, PassOK, Working
  <2> QED
    BY <1>3, <2>1 DEF dnsResourcePresent, removedIngress
<1>5. RowsKept
  BY <1>1, <1>3, <1>4 DEF RowsKept, Typed
<1>6. \A i \in pass.desired : dnsRow'[i] = dnsRow[i] /\ ingRow'[i] = ingRow[i]
  BY <1>1, <1>3, <1>4 DEF Typed
<1>7. CASE ~(staleDNS = {} /\ staleIng = {})
  <2>1. pass' = NoPass /\ UNCHANGED obs
    BY <1>3, <1>7 DEF fail, Return
  <2>2. /\ obs' \in [Instances -> Observations]
        /\ bounds' \in [edits : Nat, faults : Nat, crashes : Nat]
    BY <1>1, <1>2, <2>1 DEF Typed
  <2> QED
    BY <1>1, <1>2, <1>5, <2>1, <2>2, PassEnds DEF Faultless
<1>8. CASE staleDNS = {} /\ staleIng = {}
  <2> DEFINE O == observedIngress
             T == { i \in pass.desired : O[i].dns = "ready" /\ O[i].ing = "ready" }
  <2>1. /\ obs' = O
        /\ pass' = [pass EXCEPT !.pc = "check", !.conflict = {}, !.gone = {}, !.todo = T]
    BY <1>3, <1>8
  <2>2. /\ O \in [Instances -> Observations]
        /\ \A i \in Instances :
                /\ i \notin pass.desired => O[i] = obs[i]
                /\ i \in pass.desired =>
                     /\ O[i].dns = "ready" => obs[i].dns = "ready"
                     /\ O[i].ing = "ready" => i \notin pass.conflict /\ ing[i] = "fleet"
    BY <1>1, ObservedIngress
  <2>3. T \in SUBSET Instances /\ \A i \in T : i \in pass.desired /\ O[i].dns = "ready" /\ O[i].ing = "ready"
    BY <1>1
  <2> HIDE DEF O, T, staleDNS, staleIng
  <2>4. /\ pass' \in Passes /\ pass'.pc = "check" /\ pass'.desired = pass.desired
        /\ pass'.todo = T /\ pass'.moved = pass.moved /\ pass'.gone = {}
    BY <1>1, <2>1, <2>3 DEF Passes
  <2>5. Typed'
    BY <1>1, <1>2, <1>5, <2>1, <2>2, <2>4 DEF Typed, RowsKept
  <2>6. RowsTrue' /\ RulesTrue'
    BY <1>2, <1>5, <2>4 DEF PublishingInv, RowsTrue, RulesTrue, Untouched, RowsKept
  <2>7. PassOK'
    BY <1>1, <2>1, <2>2, <2>3, <2>4 DEF PublishingInv, PassOK, Working, Early
  <2>8. \A i \in pass.desired : Untouched /\ O[i].dns = "ready" => Recorded(i)
    BY <1>1, <2>2 DEF PublishingInv, PassTrue, Late
  <2>9. \A i \in pass.desired : O[i].ing = "ready" => Routed(i)
    BY <1>1, <2>2 DEF PublishingInv, PassOK, Routed
  <2>10. PassTrue'
    BY <1>1, <1>2, <1>6, <2>1, <2>4, <2>8, <2>9 DEF PassTrue, Late, Recorded, Routed, Untouched
  <2>11. LedgerTrue'
    BY <1>1, <1>2, <1>5, <2>4 DEF PublishingInv, LedgerTrue, Faultless, RowsKept
  <2>12. VerifiedIsServed'
    <3> SUFFICES ASSUME NEW i \in Instances, publicationRouteVerified(O[i]), Untouched
                 PROVE  dns[i] = "fleet" /\ ing[i] = "fleet" /\ dnsRow'[i] = "current" /\ ingRow'[i]
      BY <1>2, <2>1 DEF VerifiedIsServed, Untouched
    <3>1. i \in pass.desired
      BY <1>1, <2>2, PendingTyped DEF PublishingInv, PassOK, Working
    <3>2. Recorded(i) /\ Routed(i)
      BY <2>8, <2>9, <3>1 DEF publicationRouteVerified
    <3> QED
      BY <1>6, <3>1, <3>2 DEF Recorded, Routed
  <2> QED
    BY <2>5, <2>6, <2>7, <2>10, <2>11, <2>12 DEF PublishingInv
<1> QED
  BY <1>7, <1>8

(* The public endpoint of a route whose parts are in place.                 *)
LEMMA CheckStep ==
    ASSUME PublishingInv, NEW i \in Instances, NEW r \in Responses, checkPublicEndpoint(i, r)
    PROVE  PublishingInv'
<1>1. /\ Typed /\ pass \in Passes /\ pass.pc = "check" /\ i \in pass.todo
      /\ pass.desired \subseteq Instances /\ obs \in [Instances -> Observations]
  BY DEF PublishingInv, Typed, checkPublicEndpoint, Passes
<1>2. UNCHANGED <<wanted, dns, ing, dnsRow, ingRow, bounds>>
  BY DEF checkPublicEndpoint, cloud, ledger
<1> DEFINE e == checkPublicEndpointOnce(r)
           v == [obs[i] EXCEPT !.end = e, !.re = FALSE]
<1>3. e \in { "reachable", "protected", "propagating", "unavailable" }
  BY DEF checkPublicEndpointOnce
<1>4. obs' = [obs EXCEPT ![i] = v] /\ pass' = [pass EXCEPT !.todo = @ \ {i}]
  BY DEF checkPublicEndpoint
<1> HIDE DEF e
<1>5. v \in Observations /\ v.dns = obs[i].dns /\ v.ing = obs[i].ing
  BY <1>1, <1>3 DEF Observations
<1> HIDE DEF v
<1>6. /\ obs' \in [Instances -> Observations] /\ obs'[i] = v
      /\ \A j \in Instances : j # i => obs'[j] = obs[j]
  BY <1>1, <1>4, <1>5
<1>7. /\ pass' \in Passes /\ pass'.pc = "check" /\ pass'.desired = pass.desired
      /\ pass'.todo = pass.todo \ {i} /\ pass'.moved = pass.moved /\ pass'.gone = pass.gone
  BY <1>1, <1>4 DEF Passes
<1>8. i \in pass.desired /\ obs[i].dns = "ready" /\ obs[i].ing = "ready"
  BY <1>1 DEF PublishingInv, PassOK
<1>9. \A j \in Instances : obs'[j].dns = obs[j].dns /\ obs'[j].ing = obs[j].ing
  BY <1>5, <1>6
<1>10. Typed'
  BY <1>1, <1>2, <1>6, <1>7 DEF Typed
<1>11. RowsTrue' /\ RulesTrue'
  BY <1>2, <1>7 DEF PublishingInv, RowsTrue, RulesTrue, Untouched
<1>12. PassOK'
  BY <1>1, <1>6, <1>7, <1>8, <1>9 DEF PublishingInv, PassOK, Working, Early
<1>13. PassTrue'
  BY <1>1, <1>2, <1>7, <1>9 DEF PublishingInv, PassTrue, Late, Recorded, Routed, Untouched
<1>14. LedgerTrue'
  BY <1>1, <1>2, <1>7 DEF PublishingInv, LedgerTrue, Faultless
<1>15. VerifiedIsServed'
  <2>1. Untouched => Recorded(i) /\ Routed(i)
    BY <1>1, <1>8 DEF PublishingInv, PassTrue, Late
  <2> QED
    BY <1>2, <1>6, <2>1 DEF PublishingInv, VerifiedIsServed, Recorded, Routed, Untouched
<1> QED
  BY <1>10, <1>11, <1>12, <1>13, <1>14, <1>15 DEF PublishingInv

(* A pass comes to its end, or one of its calls fails.                      *)
LEMMA EndSteps ==
    ASSUME PublishingInv, PassFault \/ \E c \in Connectors : FinishPass(c)
    PROVE  PublishingInv'
<1>1. Typed
  BY DEF PublishingInv
<1>2. ASSUME NEW c \in Connectors, FinishPass(c)
      PROVE  PublishingInv'
  <2>1. /\ pass' = NoPass /\ pass.pc = "check"
        /\ UNCHANGED <<wanted, dns, ing, dnsRow, ingRow, obs, bounds>>
    BY <1>2 DEF FinishPass, Return, cloud, ledger
  <2>2. /\ obs' \in [Instances -> Observations]
        /\ bounds' \in [edits : Nat, faults : Nat, crashes : Nat]
    BY <1>1, <2>1 DEF Typed
  <2> QED
    BY <1>1, <2>1, <2>2, SameRows, PassEnds DEF Faultless
<1>3. CASE PassFault
  <2>1. PICK seen \in { obs, failAutomatedRoutes, failIngress } : FaultFails(seen)
    BY <1>3 DEF PassFault
  <2> QED
    BY <2>1, PassFails DEF FaultFails, cloud, ledger
<1> QED
  BY <1>2, <1>3

------------------------------------------------------------------------------
(* The world around.                                                       *)

(* Another hand edits the zone or the tunnel: from now on only what the     *)
(* ledger says of Fleet's own work is promised.                             *)
LEMMA EditStep ==
    ASSUME PublishingInv, NEW i \in Instances, OutsideEdit(i)
    PROVE  PublishingInv'
<1>1. Typed /\ pass \in Passes
  BY DEF PublishingInv, Typed
<1>2. UNCHANGED <<wanted, ingRow, obs>>
  BY DEF OutsideEdit
<1>3. /\ bounds' \in [edits : Nat, faults : Nat, crashes : Nat] /\ bounds'.edits # 0
      /\ bounds'.faults = bounds.faults /\ bounds'.crashes = bounds.crashes
  <2>1. bounds \in [edits : Nat, faults : Nat, crashes : Nat]
    BY <1>1 DEF Typed
  <2>2. bounds.edits + 1 \in Nat /\ bounds.edits + 1 # 0
    BY <2>1
  <2>3. bounds' = [bounds EXCEPT !.edits = bounds.edits + 1]
    BY DEF OutsideEdit
  <2> QED
    BY <2>1, <2>2, <2>3
<1>4. ~Untouched'
  BY <1>3 DEF Untouched
<1>5. PassTrue' /\ VerifiedIsServed'
  BY <1>3, <1>4 DEF PassTrue, VerifiedIsServed
<1>6. CASE /\ \E d \in { "none", "edited", "foreign" } :
                 /\ d # dns[i]
                 /\ d = "foreign" => dns[i] = "none"
                 /\ d = "edited" => dns[i] = "fleet"
                 /\ dns' = [dns EXCEPT ![i] = d]
                 /\ dnsRow' = [dnsRow EXCEPT ![i] = IF d = "none" /\ @ = "current" THEN "gone" ELSE @]
           /\ UNCHANGED <<ing, pass>>
  <2>1. PICK d \in { "none", "edited", "foreign" } :
                 /\ d = "foreign" => dns[i] = "none"
                 /\ d = "edited" => dns[i] = "fleet"
                 /\ dns' = [dns EXCEPT ![i] = d]
                 /\ dnsRow' = [dnsRow EXCEPT ![i] = IF d = "none" /\ @ = "current" THEN "gone" ELSE @]
    BY <1>6
  <2>2. /\ dns' \in [Instances -> DNS] /\ dns'[i] = d
        /\ \A j \in Instances : j # i => dns'[j] = dns[j] /\ dnsRow'[j] = dnsRow[j]
    BY <1>1, <2>1 DEF Typed, DNS
  <2>3. /\ dnsRow' \in [Instances -> { "none", "current", "gone" }]
        /\ dnsRow'[i] = IF d = "none" /\ dnsRow[i] = "current" THEN "gone" ELSE dnsRow[i]
    BY <1>1, <2>1 DEF Typed
  <2>4. Typed'
    BY <1>1, <1>2, <1>3, <1>6, <2>2, <2>3 DEF Typed
  <2>5. RowsTrue'
    BY <2>1, <2>2, <2>3 DEF PublishingInv, RowsTrue
  <2>6. RulesTrue'
    BY <1>4, <1>6 DEF PublishingInv, RulesTrue
  <2>7. PassOK'
    BY <1>2, <1>6 DEF PublishingInv, PassOK, Working, Early
  <2>8. LedgerTrue'
    BY <1>2, <1>3, <1>6, <2>1, <2>2, <2>3 DEF PublishingInv, LedgerTrue, Faultless
  <2> QED
    BY <1>5, <2>4, <2>5, <2>6, <2>7, <2>8 DEF PublishingInv
<1>7. CASE /\ \E g \in { "none", "other" } \ { ing[i] } : ing' = [ing EXCEPT ![i] = g]
           /\ pass' = [pass EXCEPT !.moved = pass.pc = "ingress"]
           /\ UNCHANGED <<dns, dnsRow>>
  <2>1. PICK g \in { "none", "other" } : ing' = [ing EXCEPT ![i] = g]
    BY <1>7
  <2>2. /\ ing' \in [Instances -> Rules] /\ ing'[i] # "fleet"
        /\ \A j \in Instances : j # i => ing'[j] = ing[j]
    BY <1>1, <2>1 DEF Typed, Rules
  <2> DEFINE m == pass.pc = "ingress"
  <2>3. m \in BOOLEAN /\ pass' = [pass EXCEPT !.moved = m] /\ (pass.pc = "ingress" => m)
    BY <1>7
  <2> HIDE DEF m
  <2>4. /\ pass' \in Passes /\ pass'.moved = m /\ pass'.pc = pass.pc /\ pass'.desired = pass.desired
        /\ pass'.list = pass.list /\ pass'.at = pass.at /\ pass'.todo = pass.todo
        /\ pass'.conflict = pass.conflict /\ pass'.gone = pass.gone
    BY <1>1, <2>3 DEF Passes
  <2>5. Typed'
    BY <1>1, <1>2, <1>3, <1>7, <2>2, <2>4 DEF Typed
  <2>6. RowsTrue'
    BY <1>7 DEF PublishingInv, RowsTrue
  <2>7. RulesTrue'
    BY <1>4, <2>3, <2>4 DEF RulesTrue
  <2>8. PassOK'
    BY <1>2, <2>4 DEF PublishingInv, PassOK, Working, Early
  <2>9. LedgerTrue'
    BY <1>2, <1>3, <1>7, <2>2, <2>4 DEF PublishingInv, LedgerTrue, Faultless
  <2> QED
    BY <1>5, <2>5, <2>6, <2>7, <2>8, <2>9 DEF PublishingInv
<1> QED
  BY <1>6, <1>7 DEF OutsideEdit

(* The control plane stops in the middle of whatever it did.                *)
LEMMA CrashStep ==
    ASSUME PublishingInv, Crash
    PROVE  PublishingInv'
<1>1. Typed
  BY DEF PublishingInv
<1>2. /\ bounds' \in [edits : Nat, faults : Nat, crashes : Nat]
      /\ bounds'.edits = bounds.edits /\ ~Faultless'
  <2>1. bounds \in [edits : Nat, faults : Nat, crashes : Nat]
    BY <1>1 DEF Typed
  <2>2. bounds.crashes + 1 \in Nat /\ bounds.crashes + 1 # 0
    BY <2>1
  <2>3. bounds' = [bounds EXCEPT !.crashes = bounds.crashes + 1]
    BY DEF Crash
  <2> QED
    BY <2>1, <2>2, <2>3 DEF Faultless
<1>3. /\ obs' \in [Instances -> Observations]
      /\ \A i \in Instances : ~publicationRouteVerified(obs'[i])
  BY PendingTyped DEF Crash
<1>4. pass' = NoPass /\ UNCHANGED <<wanted, dns, ing, dnsRow, ingRow>>
  BY DEF Crash, cloud, ledger
<1> QED
  BY <1>1, <1>2, <1>3, <1>4, SameRows, PassEnds

(* At first nothing is published.                                           *)
LEMMA InitPublishing ==
    ASSUME Init
    PROVE  PublishingInv
<1>1. Typed
  BY NoPassTyped, PendingTyped DEF Init, Typed, DNS, Rules
<1>2. RowsTrue
  BY DEF Init, RowsTrue
<1>3. pass.pc = "idle" /\ ~pass.moved
  BY NoPassTyped DEF Init
<1>4. RulesTrue /\ PassOK /\ PassTrue
  BY <1>3 DEF RulesTrue, PassOK, PassTrue, Working, Early, Late
<1>5. LedgerTrue
  BY DEF Init, LedgerTrue
<1>6. VerifiedIsServed
  BY PendingTyped DEF Init, VerifiedIsServed
<1> QED
  BY <1>1, <1>2, <1>4, <1>5, <1>6 DEF PublishingInv

(* Every step keeps the invariant.                                          *)
LEMMA NextPublishing ==
    ASSUME PublishingInv, [Next]_vars
    PROVE  PublishingInv'
<1>1. wanted \in SUBSET Instances
  BY DEF PublishingInv, Typed
<1>2. CASE UNCHANGED vars
  BY <1>1, <1>2, Beside DEF vars
<1>3. CASE ReconcileLoop
  BY <1>3, BeginStep DEF ReconcileLoop, cloud, ledger
<1>4. CASE ReconcilePass
  BY <1>4, IdentifyStep, PutStep, ReadStep, WriteStep, VerifyStep, EnsureStep, RemoveStep, RecordStep,
     CheckStep, EndSteps DEF ReconcilePass
<1>5. CASE PassFault
  BY <1>5, EndSteps
<1>6. CASE Crash
  BY <1>6, CrashStep
<1>7. CASE configureTokens
  BY <1>1, <1>7, Beside DEF configureTokens, cloud, ledger
<1>8. ASSUME NEW o \in Operations,
             \/ \E i \in Instances, b \in BOOLEAN : publishInstanceDashboard(o, i, b)
             \/ runPublishInstanceDashboard(o) \/ ReconcileForOperation(o)
             \/ OperationDeadline(o) \/ JudgePublication(o)
             \/ reconcileStalePublicationOperations(o)
      PROVE  PublishingInv'
  <2>1. ASSUME NEW i \in Instances, NEW b \in BOOLEAN, publishInstanceDashboard(o, i, b)
        PROVE  PublishingInv'
    <3>1. wanted' \in SUBSET Instances
      BY <1>1, <2>1 DEF publishInstanceDashboard, StartInstancePublishing
    <3> QED
      BY <2>1, <3>1, Beside DEF publishInstanceDashboard, StartInstancePublishing, cloud, ledger
  <2>2. CASE ReconcileForOperation(o)
    BY <2>2, BeginStep DEF ReconcileForOperation, cloud, ledger
  <2>3. CASE \/ runPublishInstanceDashboard(o) \/ OperationDeadline(o) \/ JudgePublication(o)
             \/ reconcileStalePublicationOperations(o)
    <3>1. UNCHANGED <<wanted, dns, ing, dnsRow, ingRow, obs, pass, bounds>>
      BY <2>3 DEF runPublishInstanceDashboard, OperationDeadline, JudgePublication,
                  reconcileStalePublicationOperations, cloud, ledger
    <3> QED
      BY <1>1, <3>1, Beside
  <2> QED
    BY <1>8, <2>1, <2>2, <2>3
<1>9. ASSUME NEW i \in Instances,
             \/ QueueDeletion(i) \/ CompleteDeletion(i) \/ runInstanceDeletionCleanup(i)
             \/ ReconcileForCleanup(i) \/ UpdateInstanceDeletionCleanup(i) \/ OutsideEdit(i)
      PROVE  PublishingInv'
  <2>1. CASE ReconcileForCleanup(i)
    BY <2>1, BeginStep DEF ReconcileForCleanup, cloud, ledger
  <2>2. CASE OutsideEdit(i)
    BY <2>2, EditStep
  <2>3. CASE \/ QueueDeletion(i) \/ CompleteDeletion(i) \/ runInstanceDeletionCleanup(i)
             \/ UpdateInstanceDeletionCleanup(i)
    <3>1. UNCHANGED <<wanted, dns, ing, dnsRow, ingRow, obs, pass, bounds>>
      BY <2>3 DEF QueueDeletion, CompleteDeletion, runInstanceDeletionCleanup,
                  UpdateInstanceDeletionCleanup, cloud, ledger
    <3> QED
      BY <1>1, <3>1, Beside
  <2> QED
    BY <1>9, <2>1, <2>2, <2>3
<1> QED
  BY <1>2, <1>3, <1>4, <1>5, <1>6, <1>7, <1>8, <1>9 DEF Next

(* Who changes a record or a rule that is not Fleet's is another hand.      *)
LEMMA ForeignStep ==
    ASSUME PublishingInv, [Next]_vars, NEW i \in Instances,
           (dns[i] = "foreign" /\ dns'[i] # "foreign") \/ (ing[i] = "other" /\ ing'[i] # "other")
    PROVE  bounds'.edits > bounds.edits
<1>1. Typed
  BY DEF PublishingInv
<1>2. ASSUME NEW j \in Instances, OutsideEdit(j)
      PROVE  bounds'.edits > bounds.edits
  <2>1. bounds \in [edits : Nat, faults : Nat, crashes : Nat] /\ bounds.edits \in Nat
    BY <1>1 DEF Typed
  <2>2. bounds' = [bounds EXCEPT !.edits = bounds.edits + 1]
    BY <1>2 DEF OutsideEdit
  <2>3. bounds'.edits = bounds.edits + 1
    BY <2>1, <2>2
  <2> QED
    BY <2>1, <2>3
<1>3. ASSUME NEW j \in Instances, ensureOwnedDNS(j)
      PROVE  FALSE
  <2>1. UNCHANGED ing /\ (UNCHANGED dns \/ (dns[j] = "none" /\ dns' = [dns EXCEPT ![j] = "fleet"]))
    BY <1>3 DEF ensureOwnedDNS
  <2> QED
    BY <1>1, <2>1 DEF Typed
<1>4. ASSUME NEW j \in Instances, removeStaleDNS(j)
      PROVE  FALSE
  <2>1. UNCHANGED ing /\ (UNCHANGED dns \/ (dnsRow[j] = "current" /\ dns' = [dns EXCEPT ![j] = "none"]))
    BY <1>4 DEF removeStaleDNS
  <2>2. dnsRow[j] = "current" => dns[j] # "foreign"
    BY DEF PublishingInv, RowsTrue
  <2> QED
    BY <1>1, <2>1, <2>2 DEF Typed
<1>5. CASE WriteIngress
  <2> DEFINE M == mergeOwnedIngress
  <2>1. UNCHANGED dns /\ pass.pc = "ingress"
    BY <1>5 DEF WriteIngress
  <2>2. ing[i] = "other" /\ ing'[i] # "other"
    BY <2>1
  <2>3. ~RefusesRemoval /\ M # pass.rules /\ ~pass.moved /\ ing' = M
    BY <1>5, <2>2 DEF WriteIngress
  <2>4. pass.rules[i] = "other"
    BY <2>1, <2>2, <2>3 DEF PublishingInv, RulesTrue
  <2>5. /\ i \in pass.desired /\ i \notin ingressConflicts => M[i] = "fleet"
        /\ i \in ingressConflicts => M[i] = pass.rules[i]
        /\ i \notin pass.desired /\ ingRow[i] => M[i] = "none"
        /\ i \notin pass.desired /\ ~ingRow[i] => M[i] = pass.rules[i]
    BY <1>1, Merged
  <2>6. i \in pass.desired => i \in ingressConflicts
    BY <2>4 DEF ingressConflicts
  <2>7. i \notin pass.desired => ~ingRow[i]
    BY <2>3, <2>4 DEF RefusesRemoval
  <2> QED
    BY <2>2, <2>3, <2>4, <2>5, <2>6, <2>7
<1>6. CASE UNCHANGED <<dns, ing>>
  BY <1>6
<1>7. CASE UNCHANGED vars
  BY <1>6, <1>7 DEF vars
<1>8. CASE ReconcileLoop \/ PassFault \/ Crash \/ configureTokens
  BY <1>6, <1>8 DEF ReconcileLoop, PassFault, FaultFails, Crash, configureTokens, cloud
<1>9. CASE ReconcilePass
  <2>1. CASE IdentifyOwners \/ PutRemoteAccessResource \/ ReadIngress \/ VerifyRoutes
    BY <1>6, <2>1 DEF IdentifyOwners, PutRemoteAccessResource, ReadIngress, VerifyRoutes, cloud
  <2>2. CASE \E j \in Instances : RecordIngress(j)
    BY <1>6, <2>2 DEF RecordIngress, cloud
  <2>3. CASE \E j \in Instances, r \in Responses : checkPublicEndpoint(j, r)
    BY <1>6, <2>3 DEF checkPublicEndpoint, cloud
  <2>4. CASE \E c \in Connectors : FinishPass(c)
    BY <1>6, <2>4 DEF FinishPass, cloud
  <2> QED
    BY <1>3, <1>4, <1>5, <1>9, <2>1, <2>2, <2>3, <2>4 DEF ReconcilePass
<1>10. ASSUME NEW o \in Operations,
             \/ \E j \in Instances, b \in BOOLEAN : publishInstanceDashboard(o, j, b)
             \/ runPublishInstanceDashboard(o) \/ ReconcileForOperation(o)
             \/ OperationDeadline(o) \/ JudgePublication(o)
             \/ reconcileStalePublicationOperations(o)
      PROVE  bounds'.edits > bounds.edits
  BY <1>6, <1>10 DEF publishInstanceDashboard, StartInstancePublishing, runPublishInstanceDashboard,
     ReconcileForOperation, OperationDeadline, JudgePublication, reconcileStalePublicationOperations, cloud
<1>11. ASSUME NEW j \in Instances,
             \/ QueueDeletion(j) \/ CompleteDeletion(j) \/ runInstanceDeletionCleanup(j)
             \/ ReconcileForCleanup(j) \/ UpdateInstanceDeletionCleanup(j)
      PROVE  bounds'.edits > bounds.edits
  BY <1>6, <1>11 DEF QueueDeletion, CompleteDeletion, runInstanceDeletionCleanup,
     ReconcileForCleanup, UpdateInstanceDeletionCleanup, cloud
<1> QED
  BY <1>2, <1>7, <1>8, <1>9, <1>10, <1>11 DEF Next

------------------------------------------------------------------------------
(* The theorems.                                                           *)

(* The inductive invariant: what the ledger, the pass and the observations  *)
(* say of the zone and the tunnel, at every step of a pass.                 *)
THEOREM PublishingInvariance == Spec => []PublishingInv
<1>1. Init => PublishingInv
  BY InitPublishing
<1>2. PublishingInv /\ [Next]_vars => PublishingInv'
  BY NextPublishing
<1> QED
  BY <1>1, <1>2, PTL DEF Spec

(* publicationRouteVerified: a route shown as verified has Fleet's record   *)
(* and rule in place and recorded, as long as nobody else edits Cloudflare. *)
THEOREM VerifiedRoutesServed == Spec => []VerifiedIsServed
<1>1. PublishingInv => VerifiedIsServed
  BY DEF PublishingInv
<1> QED
  BY <1>1, PublishingInvariance, PTL

(* putRemoteAccessResource: without failing calls and crashes the ledger    *)
(* names everything Fleet made, whenever no pass is running.                *)
THEOREM LedgerNamesAll == Spec => []LedgerComplete
<1>1. PublishingInv => LedgerComplete
  BY DEF PublishingInv, LedgerTrue, LedgerComplete, Faultless
<1> QED
  BY <1>1, PublishingInvariance, PTL

(* removeStaleDNS and mergeOwnedIngress: no pass, publication or deletion   *)
(* removes or replaces a record or a rule that Fleet did not make.          *)
THEOREM ForeignResourcesKept == Spec => ForeignKept
<1>1. PublishingInv /\ [Next]_vars =>
         [\A i \in Instances :
            (dns[i] = "foreign" /\ dns'[i] # "foreign") \/ (ing[i] = "other" /\ ing'[i] # "other")
              => bounds'.edits > bounds.edits]_vars
  BY ForeignStep
<1> QED
  BY <1>1, PublishingInvariance, PTL DEF Spec, ForeignKept

================================================================================
