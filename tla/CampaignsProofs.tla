--------------------------- MODULE CampaignsProofs ---------------------------
(***************************************************************************)
(* Proofs about Campaigns for every set of instances and campaigns and     *)
(* every concurrency.                                                      *)
(***************************************************************************)
EXTENDS Campaigns, FiniteSetTheorems, WellFoundedInduction, TLAPS

(* A pass runs over an active campaign only, and what it keeps in memory is *)
(* what the table says: no other transaction touches the campaign's rows.   *)
PassAgrees ==
    \A c \in CampaignIds : pc[c] # "idle" =>
        /\ Active(c) /\ mem[c] = target[c]
        /\ pc[c] = "settle" => todo[c] \subseteq Running(target[c])

(* A campaign that does not exist has no targets.                           *)
UnbornEmpty == \A c \in CampaignIds : op[c] = "NONE" => \A i \in Instances : target[c][i] = "NONE"

IInv ==
    /\ TypeOK /\ PassAgrees /\ UnbornEmpty
    /\ ConcurrencyHeld /\ NoRequestLeft /\ SuccessIsComplete

Ends == { "SUCCEEDED", "FAILED", "BLOCKED" }

------------------------------------------------------------------------------
(* Numbers and sets.                                                       *)

(* A non-empty set of names has a first one: the target the pass picks.     *)
LEMMA FirstName ==
    ASSUME NEW S \in SUBSET Nat, S # {}
    PROVE  \E m \in S : \A y \in S : m <= y
<1>1. PICK m \in S : \A y \in S : <<y, m>> \notin OpToRel(<, Nat)
  BY NatLessThanWellFounded, WFMin
<1>2. \A y \in S : m <= y
  <2> TAKE y \in S
  <2>1. y \in Nat /\ m \in Nat
    OBVIOUS
  <2>2. ~(y < m)
    BY <1>1, <2>1 DEF OpToRel
  <2> QED
    BY <2>1, <2>2
<1> QED
  BY <1>2

(* Counting the targets that wait.                                          *)
LEMMA WaitingCount ==
    ASSUME NEW S \in SUBSET Instances
    PROVE  /\ IsFiniteSet(S) /\ Cardinality(S) \in Nat
           /\ \A T \in SUBSET S : Cardinality(T) <= Cardinality(S)
           /\ \A x : Cardinality(S \cup { x }) <= Cardinality(S) + 1
<1>1. IsFiniteSet(S)
  BY FS_Subset, CampaignAssumption
<1>2. Cardinality(S) \in Nat
  BY <1>1, FS_CardinalityType
<1>3. \A T \in SUBSET S : Cardinality(T) <= Cardinality(S)
  BY <1>1, FS_Subset
<1>4. ASSUME NEW x
      PROVE  Cardinality(S \cup { x }) <= Cardinality(S) + 1
  <2>1. Cardinality(S \cup { x }) = IF x \in S THEN Cardinality(S) ELSE Cardinality(S) + 1
    BY <1>1, FS_AddElement
  <2> QED
    BY <1>2, <2>1
<1> QED
  BY <1>1, <1>2, <1>3, <1>4

(* normalizeCampaignRequest keeps the concurrency between one and what was   *)
(* asked for.                                                                *)
LEMMA BoundedConcurrency ==
    ASSUME NEW set \in SUBSET Instances, set # {}, NEW n \in 1 .. MaxConcurrency
    PROVE  Bounded(n, set) \in 1 .. MaxConcurrency
<1>1. IsFiniteSet(set) /\ Cardinality(set) \in Nat
  BY WaitingCount
<1>2. Cardinality(set) # 0
  BY <1>1, FS_EmptySet
<1> QED
  BY <1>1, <1>2, CampaignAssumption DEF Bounded

------------------------------------------------------------------------------
(* What a step does to the rows of a campaign.                             *)

(* TypeOK, variable by variable.                                             *)
Typed ==
    /\ op \in [CampaignIds -> { "NONE", "PENDING", "RUNNING", "SUCCEEDED", "FAILED" }]
    /\ concurrency \in [CampaignIds -> 1 .. MaxConcurrency]
    /\ target \in [CampaignIds -> [Instances -> Statuses]]
    /\ mem \in [CampaignIds -> [Instances -> Statuses]]
    /\ request \in [Instances -> CampaignIds \cup { "none", "operator" }]
    /\ held \in [Instances -> CampaignIds \cup { "none", "operator" }]
    /\ fresh \in [CampaignIds -> [Instances -> BOOLEAN]]
    /\ late \in [CampaignIds -> [Instances -> BOOLEAN]]
    /\ pc \in [CampaignIds -> { "idle", "settle", "queue" }]
    /\ todo \in [CampaignIds -> SUBSET Instances]

(* Both say the same.                                                        *)
LEMMA TypedIsTypeOK == TypeOK <=> Typed
BY DEF TypeOK, Typed

Safe == PassAgrees /\ UnbornEmpty /\ ConcurrencyHeld /\ NoRequestLeft /\ SuccessIsComplete

(* A campaign whose targets do not start waiting stays within its limit.     *)
LEMMA FewerWait ==
    ASSUME Typed, ConcurrencyHeld, NEW c \in CampaignIds, concurrency'[c] = concurrency[c],
           Running(target'[c]) \subseteq Running(target[c])
    PROVE  Cardinality(Running(target'[c])) <= concurrency'[c]
<1>1. Running(target[c]) \in SUBSET Instances /\ Running(target'[c]) \in SUBSET Instances
  BY DEF Running
<1>2. /\ Cardinality(Running(target'[c])) <= Cardinality(Running(target[c]))
      /\ Cardinality(Running(target[c])) \in Nat /\ Cardinality(Running(target'[c])) \in Nat
  BY <1>1, WaitingCount
<1>3. Cardinality(Running(target[c])) <= concurrency[c] /\ concurrency[c] \in Nat
  BY CampaignAssumption DEF ConcurrencyHeld, Typed
<1> QED
  BY <1>2, <1>3

(* Creating a campaign: its rows are fresh, all others stay.                 *)
LEMMA CreateStep ==
    ASSUME Typed, Safe, NEW c \in CampaignIds, NEW set \in SUBSET Instances,
           NEW n \in 1 .. MaxConcurrency, CreateCampaign(c, set, n)
    PROVE  Typed' /\ Safe'
<1> DEFINE rows == [i \in Instances |-> IF i \in set THEN "PENDING" ELSE "NONE"]
<1>1. /\ op' = [op EXCEPT ![c] = "PENDING"] /\ concurrency' = [concurrency EXCEPT ![c] = n]
      /\ target' = [target EXCEPT ![c] = rows]
      /\ UNCHANGED <<request, fresh, late, held, pc, mem, todo>>
  BY DEF CreateCampaign
<1>2. rows \in [Instances -> Statuses] /\ \A i \in Instances : rows[i] # "RUNNING"
  BY DEF Statuses
<1> HIDE DEF rows
<1>3. Typed'
  BY <1>1, <1>2 DEF Typed
<1>4. /\ target'[c] = rows /\ op'[c] = "PENDING"
      /\ \A d \in CampaignIds \ {c} : target'[d] = target[d] /\ op'[d] = op[d]
                                      /\ concurrency'[d] = concurrency[d]
  BY <1>1 DEF Typed
<1>5. op[c] = "NONE" /\ pc[c] = "idle" /\ \A i \in Instances : request[i] # c
  <2>1. op[c] = "NONE"
    BY DEF CreateCampaign
  <2>2. \A i \in Instances : target[c][i] # "RUNNING"
    BY <2>1 DEF Safe, UnbornEmpty
  <2> QED
    BY <2>1, <2>2 DEF Safe, PassAgrees, Active, NoRequestLeft
<1>6. PassAgrees' /\ UnbornEmpty' /\ SuccessIsComplete'
  BY <1>1, <1>4, <1>5 DEF Safe, PassAgrees, UnbornEmpty, SuccessIsComplete, Active, Members
<1>7. NoRequestLeft'
  BY <1>1, <1>4, <1>5 DEF Safe, NoRequestLeft
<1>8. ConcurrencyHeld'
  <2>1. Cardinality(Running(target'[c])) <= concurrency'[c]
    <3>1. Running(target'[c]) = {} /\ concurrency'[c] = n
      BY <1>1, <1>2, <1>4 DEF Running, Typed
    <3> QED
      BY <3>1, FS_EmptySet
  <2>2. ASSUME NEW d \in CampaignIds \ {c}
        PROVE  Cardinality(Running(target'[d])) <= concurrency'[d]
    BY <1>4, FewerWait DEF Safe
  <2> QED
    BY <2>1, <2>2 DEF ConcurrencyHeld
<1> QED
  BY <1>3, <1>6, <1>7, <1>8 DEF Safe

(* The transactions of a pass that only look, and the end of the pass: a     *)
(* campaign succeeds only if nothing in memory, hence in the table, failed.  *)
LEMMA BoundaryStep ==
    ASSUME Typed, Safe, NEW c \in CampaignIds, Begin(c) \/ Settled(c) \/ EndPass(c)
    PROVE  Typed' /\ Safe'
<1>1. UNCHANGED <<concurrency, target, request, fresh, late, held>>
  BY DEF Begin, Settled, EndPass
<1>2. NoRequestLeft' /\ ConcurrencyHeld'
  BY <1>1 DEF Safe, NoRequestLeft, ConcurrencyHeld, Running
<1>3. CASE Begin(c)
  <2>1. Typed'
    BY <1>3 DEF Begin, Typed, Running
  <2>2. PassAgrees' /\ UnbornEmpty' /\ SuccessIsComplete'
    BY <1>1, <1>3 DEF Begin, Typed, Safe, PassAgrees, UnbornEmpty, SuccessIsComplete, Active, Members
  <2> QED
    BY <1>2, <2>1, <2>2 DEF Safe
<1>4. ASSUME pc[c] # "idle", SetStatus(c), UNCHANGED <<mem, todo>>
      PROVE  Typed' /\ Safe'
  <2>1. Active(c) /\ mem[c] = target[c]
    BY <1>4 DEF Safe, PassAgrees
  <2> DEFINE s == IF Terminal(mem[c]) THEN Ended(mem[c]) ELSE "RUNNING"
  <2>2. op' = [op EXCEPT ![c] = s] /\ pc' = [pc EXCEPT ![c] = "idle"]
    BY <1>4, <2>1 DEF SetStatus
  <2>3. /\ s \in { "RUNNING", "SUCCEEDED", "FAILED" }
        /\ s = "SUCCEEDED" => \A i \in Instances : target[c][i] \in { "NONE", "SUCCEEDED" }
    BY <2>1 DEF Ended, Terminal, Has, Typed, Statuses
  <2> HIDE DEF s
  <2>4. Typed'
    BY <1>1, <1>4, <2>2, <2>3 DEF Typed
  <2>5. PassAgrees' /\ UnbornEmpty' /\ SuccessIsComplete'
    BY <1>1, <1>4, <2>2, <2>3
       DEF Typed, Safe, PassAgrees, UnbornEmpty, SuccessIsComplete, Active, Members
  <2> QED
    BY <1>2, <2>4, <2>5 DEF Safe
<1>5. ASSUME pc[c] = "settle", pc' = [pc EXCEPT ![c] = "queue"], UNCHANGED <<op, mem, todo>>
      PROVE  Typed' /\ Safe'
  <2>1. Typed'
    BY <1>1, <1>5 DEF Typed
  <2>2. PassAgrees' /\ UnbornEmpty' /\ SuccessIsComplete'
    BY <1>1, <1>5 DEF Typed, Safe, PassAgrees, UnbornEmpty, SuccessIsComplete, Active, Members
  <2> QED
    BY <1>2, <2>1, <2>2 DEF Safe
<1> QED
  BY <1>3, <1>4, <1>5 DEF Settled, EndPass

(* One row of the campaign changes, in the table and in memory alike.        *)
LEMMA RowStep ==
    ASSUME Typed, Safe, NEW c \in CampaignIds, NEW i \in Instances, NEW s \in Statuses \ { "NONE" },
           pc[c] # "idle", UNCHANGED <<op, concurrency, pc, held>>,
           target' = [target EXCEPT ![c][i] = s], mem' = [mem EXCEPT ![c][i] = s],
           todo' \in [CampaignIds -> SUBSET Instances],
           \A d \in CampaignIds \ {c} : todo'[d] = todo[d],
           pc[c] = "settle" => todo'[c] \subseteq todo[c] \ { i },
           request' \in [Instances -> CampaignIds \cup { "none", "operator" }],
           \A k \in Instances \ {i} : request'[k] = request[k],
           request'[i] \in { request[i], "none", c }, request'[i] = c => s = "RUNNING",
           fresh' \in [CampaignIds -> [Instances -> BOOLEAN]],
           late' \in [CampaignIds -> [Instances -> BOOLEAN]],
           s = "RUNNING" => Cardinality(Running(target[c])) < concurrency[c]
    PROVE  Typed' /\ Safe'
<1>1. Active(c) /\ mem[c] = target[c] /\ op[c] \notin { "NONE", "SUCCEEDED" }
  BY DEF Safe, PassAgrees, Active
<1>2. Typed'
  BY DEF Typed
<1>3. /\ target'[c] = [target[c] EXCEPT ![i] = s] /\ mem'[c] = target'[c]
      /\ \A d \in CampaignIds \ {c} : target'[d] = target[d] /\ mem'[d] = mem[d]
  BY <1>1 DEF Typed
<1>4. target'[c][i] = s /\ \A k \in Instances \ {i} : target'[c][k] = target[c][k]
  BY <1>3 DEF Typed
<1>5. PassAgrees'
  <2>1. ASSUME NEW d \in CampaignIds \ {c}, pc[d] # "idle"
        PROVE  /\ op[d] \in { "PENDING", "RUNNING" } /\ mem'[d] = target'[d]
               /\ pc[d] = "settle" => todo'[d] \subseteq Running(target'[d])
    <3>1. target'[d] = target[d] /\ mem'[d] = mem[d] /\ todo'[d] = todo[d]
      BY <1>3
    <3> QED
      BY <2>1, <3>1 DEF Safe, PassAgrees, Active
  <2>2. pc[c] = "settle" => todo'[c] \subseteq Running(target'[c])
    <3> SUFFICES ASSUME pc[c] = "settle", NEW k \in todo'[c]
                 PROVE  k \in Running(target'[c])
      OBVIOUS
    <3>1. k \in todo[c] /\ k # i
      OBVIOUS
    <3>2. k \in Instances /\ target[c][k] = "RUNNING"
      BY <3>1 DEF Safe, PassAgrees, Running
    <3> QED
      BY <1>4, <3>1, <3>2 DEF Running
  <2> QED
    BY <1>1, <1>3, <2>1, <2>2 DEF PassAgrees, Active
<1>6. UnbornEmpty' /\ SuccessIsComplete'
  BY <1>1, <1>3 DEF Safe, UnbornEmpty, SuccessIsComplete, Members
<1>7. NoRequestLeft'
  BY <1>3, <1>4, CampaignAssumption DEF Safe, NoRequestLeft
<1>8. Cardinality(Running(target'[c])) <= concurrency'[c]
  <2>1. CASE s # "RUNNING"
    <3>1. Running(target'[c]) \subseteq Running(target[c])
      BY <1>4, <2>1 DEF Running
    <3> QED
      BY <3>1, FewerWait DEF Safe
  <2>2. CASE s = "RUNNING"
    <3>1. Running(target'[c]) \subseteq Running(target[c]) \cup { i }
      BY <1>4 DEF Running
    <3>2. /\ Running(target[c]) \in SUBSET Instances
          /\ Running(target[c]) \cup { i } \in SUBSET Instances
          /\ Running(target'[c]) \in SUBSET Instances
      BY DEF Running
    <3>3. /\ Cardinality(Running(target'[c])) <= Cardinality(Running(target[c]) \cup { i })
          /\ Cardinality(Running(target[c]) \cup { i }) <= Cardinality(Running(target[c])) + 1
      BY <3>1, <3>2, WaitingCount
    <3>4. /\ Cardinality(Running(target'[c])) \in Nat /\ Cardinality(Running(target[c])) \in Nat
          /\ Cardinality(Running(target[c]) \cup { i }) \in Nat
      BY <3>2, WaitingCount
    <3>5. concurrency'[c] = concurrency[c] /\ concurrency[c] \in Nat
      BY CampaignAssumption DEF Typed
    <3> QED
      BY <2>2, <3>3, <3>4, <3>5
  <2> QED
    BY <2>1, <2>2
<1>9. ConcurrencyHeld'
  <2>1. ASSUME NEW d \in CampaignIds \ {c}
        PROVE  Cardinality(Running(target'[d])) <= concurrency'[d]
    BY <1>3, FewerWait DEF Safe
  <2> QED
    BY <1>8, <2>1 DEF ConcurrencyHeld
<1> QED
  BY <1>2, <1>5, <1>6, <1>7, <1>9 DEF Safe

(* What FinishCampaignTarget does to a target that has not ended: it ends,   *)
(* and its request is gone.                                                  *)
LEMMA FinishForm ==
    ASSUME Typed, Safe, NEW c \in CampaignIds, NEW i \in Instances, NEW s \in Ends,
           pc[c] # "idle", target[c][i] \in { "PENDING", "RUNNING" },
           s = "SUCCEEDED" => request[i] = "none", FinishCampaignTarget(c, i, s)
    PROVE  /\ target' = [target EXCEPT ![c][i] = s] /\ mem' = [mem EXCEPT ![c][i] = s]
           /\ request' \in [Instances -> CampaignIds \cup { "none", "operator" }]
           /\ \A k \in Instances \ {i} : request'[k] = request[k]
           /\ request'[i] \in { request[i], "none" } /\ request'[i] # c
<1>1. mem[c] = target[c]
  BY DEF Safe, PassAgrees
<1>2. request[i] = c => target[c][i] = "RUNNING" /\ mem[c][i] = "RUNNING" /\ s # "SUCCEEDED"
  BY <1>1, CampaignAssumption DEF Safe, NoRequestLeft
<1>3. target' = [target EXCEPT ![c][i] = s] /\ mem' = [mem EXCEPT ![c][i] = s]
  BY DEF FinishCampaignTarget, Typed
<1>4. /\ request' \in [Instances -> CampaignIds \cup { "none", "operator" }]
      /\ \A k \in Instances \ {i} : request'[k] = request[k]
      /\ request'[i] \in { request[i], "none" }
  BY DEF FinishCampaignTarget, Typed
<1>5. request'[i] # c
  BY <1>2, CampaignAssumption DEF FinishCampaignTarget, Typed
<1> QED
  BY <1>3, <1>4, <1>5

(* Settling a target that was running.                                       *)
LEMMA SettleStep ==
    ASSUME Typed, Safe, NEW c \in CampaignIds, SettleOne(c)
    PROVE  Typed' /\ Safe'
<1>1. PICK i \in todo[c] :
        /\ todo' = [todo EXCEPT ![c] = @ \ { i }]
        /\ IF Outcome(c, i) = "RUNNING" THEN UNCHANGED <<request, target, mem>>
           ELSE FinishCampaignTarget(c, i, Outcome(c, i))
  BY DEF SettleOne
<1>2. pc[c] = "settle" /\ UNCHANGED <<op, concurrency, fresh, late, held, pc>>
  BY DEF SettleOne
<1>3. i \in Instances /\ target[c][i] = "RUNNING"
  BY <1>2 DEF Safe, PassAgrees, Running, Typed
<1>4. /\ todo' \in [CampaignIds -> SUBSET Instances] /\ todo'[c] = todo[c] \ { i }
      /\ \A d \in CampaignIds \ {c} : todo'[d] = todo[d]
  BY <1>1 DEF Typed
<1>5. /\ Outcome(c, i) \in { "SUCCEEDED", "FAILED", "RUNNING" }
      /\ Outcome(c, i) = "SUCCEEDED" => request[i] = "none"
  BY DEF Outcome
<1>6. CASE Outcome(c, i) = "RUNNING"
  <2>1. UNCHANGED <<request, target, mem>>
    BY <1>1, <1>6
  <2>2. Typed'
    BY <1>2, <1>4, <2>1 DEF Typed
  <2>3. PassAgrees'
    BY <1>2, <1>4, <2>1 DEF Safe, PassAgrees, Active
  <2> QED
    BY <1>2, <2>1, <2>2, <2>3 DEF Safe, UnbornEmpty, ConcurrencyHeld, NoRequestLeft,
       SuccessIsComplete, Members, Running
<1>7. CASE Outcome(c, i) # "RUNNING"
  <2>1. Outcome(c, i) \in Ends /\ FinishCampaignTarget(c, i, Outcome(c, i))
    BY <1>1, <1>5, <1>7 DEF Ends
  <2>2. PICK s \in Ends : s = Outcome(c, i)
    BY <2>1
  <2>3. FinishCampaignTarget(c, i, s) /\ (s = "SUCCEEDED" => request[i] = "none")
    BY <1>5, <2>1, <2>2
  <2>4. /\ target' = [target EXCEPT ![c][i] = s] /\ mem' = [mem EXCEPT ![c][i] = s]
        /\ request' \in [Instances -> CampaignIds \cup { "none", "operator" }]
        /\ \A k \in Instances \ {i} : request'[k] = request[k]
        /\ request'[i] \in { request[i], "none" } /\ request'[i] # c
    BY <1>2, <1>3, <2>3, FinishForm
  <2>5. s \in Statuses \ { "NONE" } /\ s # "RUNNING"
    BY DEF Ends, Statuses
  <2>6. /\ fresh' \in [CampaignIds -> [Instances -> BOOLEAN]]
        /\ late' \in [CampaignIds -> [Instances -> BOOLEAN]]
    BY <1>2 DEF Typed
  <2> QED
    BY <1>2, <1>3, <1>4, <2>4, <2>5, <2>6, RowStep
<1> QED
  BY <1>6, <1>7

(* Queueing the first pending target: a request within the limit, or an end. *)
LEMMA QueueStep ==
    ASSUME Typed, Safe, NEW c \in CampaignIds, QueueOne(c)
    PROVE  Typed' /\ Safe'
<1> DEFINE i == CHOOSE j \in Instances :
                    mem[c][j] = "PENDING" /\ \A k \in Instances : mem[c][k] = "PENDING" => j <= k
<1>1. /\ pc[c] = "queue" /\ Room(c) /\ UNCHANGED <<op, concurrency, held, pc, todo>>
      /\ \/ StartCampaignObservation(c, i)
         \/ (\E s \in { "BLOCKED", "FAILED" } : FinishCampaignTarget(c, i, s)) /\ UNCHANGED <<fresh, late>>
  BY DEF QueueOne
<1>2. mem[c] = target[c]
  BY <1>1 DEF Safe, PassAgrees
<1>3. i \in Instances /\ mem[c][i] = "PENDING"
  <2> DEFINE S == { j \in Instances : mem[c][j] = "PENDING" }
  <2>1. S \in SUBSET Nat /\ S # {}
    BY <1>1, CampaignAssumption DEF Room, Has
  <2>2. \E j \in Instances : mem[c][j] = "PENDING" /\ \A k \in Instances : mem[c][k] = "PENDING" => j <= k
    BY <2>1, FirstName
  <2> QED
    BY <2>2
<1> HIDE DEF i
<1>4. target[c][i] = "PENDING" /\ Cardinality(Running(target[c])) < concurrency[c]
  BY <1>1, <1>2, <1>3 DEF Room
<1>5. todo' \in [CampaignIds -> SUBSET Instances] /\ (\A d \in CampaignIds : todo'[d] = todo[d])
      /\ "none" \notin CampaignIds /\ pc[c] # "idle" /\ pc[c] # "settle"
  BY <1>1, CampaignAssumption DEF Typed
<1>6. CASE StartCampaignObservation(c, i)
  <2>1. /\ target' = [target EXCEPT ![c][i] = "RUNNING"] /\ mem' = [mem EXCEPT ![c][i] = "RUNNING"]
        /\ request' = [request EXCEPT ![i] = c]
        /\ fresh' = [fresh EXCEPT ![c][i] = FALSE] /\ late' = [late EXCEPT ![c][i] = FALSE]
    BY <1>6 DEF StartCampaignObservation
  <2>2. /\ request' \in [Instances -> CampaignIds \cup { "none", "operator" }]
        /\ (\A k \in Instances \ {i} : request'[k] = request[k]) /\ request'[i] = c
        /\ fresh' \in [CampaignIds -> [Instances -> BOOLEAN]]
        /\ late' \in [CampaignIds -> [Instances -> BOOLEAN]]
    BY <1>3, <2>1 DEF Typed
  <2>3. "RUNNING" \in Statuses \ { "NONE" }
    BY DEF Statuses
  <2> QED
    BY <1>1, <1>3, <1>4, <1>5, <2>1, <2>2, <2>3, RowStep
<1>7. ASSUME NEW s \in { "BLOCKED", "FAILED" }, FinishCampaignTarget(c, i, s), UNCHANGED <<fresh, late>>
      PROVE  Typed' /\ Safe'
  <2>1. s \in Ends /\ s # "SUCCEEDED" /\ s # "RUNNING" /\ s \in Statuses \ { "NONE" }
    BY DEF Ends, Statuses
  <2>2. /\ target' = [target EXCEPT ![c][i] = s] /\ mem' = [mem EXCEPT ![c][i] = s]
        /\ request' \in [Instances -> CampaignIds \cup { "none", "operator" }]
        /\ \A k \in Instances \ {i} : request'[k] = request[k]
        /\ request'[i] \in { request[i], "none" } /\ request'[i] # c
    BY <1>3, <1>4, <1>5, <1>7, <2>1, FinishForm
  <2>3. /\ fresh' \in [CampaignIds -> [Instances -> BOOLEAN]]
        /\ late' \in [CampaignIds -> [Instances -> BOOLEAN]]
    BY <1>7 DEF Typed
  <2> QED
    BY <1>1, <1>3, <1>5, <2>1, <2>2, <2>3, RowStep
<1> QED
  BY <1>1, <1>6, <1>7

(* Reports, requests of the operator, time and restarts end no target.       *)
LEMMA OutsideStep ==
    ASSUME Typed, Safe, Environment \/ Restart \/ PrepareCleanHostRecovery
    PROVE  Typed' /\ Safe'
<1>1. UNCHANGED <<concurrency, target, mem>>
  BY DEF Environment, ReadTargets, RecordObservation, RequestObservation, Elapse, Restart,
     PrepareCleanHostRecovery
<1>2. ConcurrencyHeld'
  BY <1>1 DEF Safe, ConcurrencyHeld, Running
<1>3. ASSUME NEW i \in Instances, ReadTargets(i) \/ RecordObservation(i) \/ RequestObservation(i)
      PROVE  Typed' /\ Safe'
  <2>1. /\ UNCHANGED <<op, pc, todo, late>>
        /\ request' \in [Instances -> CampaignIds \cup { "none", "operator" }]
        /\ held' \in [Instances -> CampaignIds \cup { "none", "operator" }]
        /\ \A k \in Instances : request'[k] \in { request[k], "none", "operator" }
    BY <1>3 DEF ReadTargets, RecordObservation, RequestObservation, Typed
  <2>2. fresh' \in [CampaignIds -> [Instances -> BOOLEAN]]
    <3>1. CASE RecordObservation(i)
      <4>1. fresh' = [c \in CampaignIds |-> [fresh[c] EXCEPT ![i] = TRUE]]
        BY <3>1 DEF RecordObservation
      <4>2. \A c \in CampaignIds : [fresh[c] EXCEPT ![i] = TRUE] \in [Instances -> BOOLEAN]
        BY DEF Typed
      <4> QED
        BY <4>1, <4>2
    <3>2. CASE UNCHANGED fresh
      BY <3>2 DEF Typed
    <3> QED
      BY <1>3, <3>1, <3>2 DEF ReadTargets, RequestObservation
  <2>3. Typed'
    BY <1>1, <2>1, <2>2 DEF Typed
  <2>4. NoRequestLeft'
    BY <1>1, <2>1, CampaignAssumption DEF Safe, NoRequestLeft
  <2> QED
    BY <1>1, <1>2, <2>1, <2>3, <2>4 DEF Safe, PassAgrees, UnbornEmpty, SuccessIsComplete, Active,
       Members, Running
<1>4. ASSUME NEW c \in CampaignIds, NEW i \in Instances, Elapse(c, i)
      PROVE  Typed' /\ Safe'
  BY <1>4 DEF Elapse, Typed, Safe, PassAgrees, UnbornEmpty, ConcurrencyHeld, NoRequestLeft,
     SuccessIsComplete, Active, Members, Running
<1>5. CASE Restart
  <2>1. Typed'
    BY <1>5 DEF Restart, Typed
  <2> QED
    BY <1>1, <1>2, <1>5, <2>1 DEF Restart, Safe, PassAgrees, UnbornEmpty, NoRequestLeft,
       SuccessIsComplete, Members
<1>6. CASE PrepareCleanHostRecovery
  <2>1. Typed'
    BY <1>6 DEF PrepareCleanHostRecovery, Typed, Never, Active
  <2>2. NoRequestLeft'
    BY <1>6, CampaignAssumption DEF PrepareCleanHostRecovery, NoRequestLeft
  <2>3. \A c \in CampaignIds : op'[c] = op[c] \/ op'[c] = "FAILED"
    BY <1>6 DEF PrepareCleanHostRecovery
  <2>4. PassAgrees' /\ UnbornEmpty' /\ SuccessIsComplete'
    BY <1>1, <1>6, <2>3 DEF PrepareCleanHostRecovery, Safe, PassAgrees, UnbornEmpty,
       SuccessIsComplete, Members
  <2> QED
    BY <1>2, <2>1, <2>2, <2>4 DEF Safe
<1> QED
  BY <1>3, <1>4, <1>5, <1>6 DEF Environment

------------------------------------------------------------------------------
(* The invariant.                                                          *)

(* Nothing has been asked for at first.                                      *)
LEMMA InitInvariant == Init => IInv
<1> SUFFICES ASSUME Init PROVE IInv
  OBVIOUS
<1>1. Typed
  BY CampaignAssumption DEF Init, Typed, Nothing, Never, Statuses
<1>2. \A c \in CampaignIds : /\ pc[c] = "idle" /\ op[c] = "NONE" /\ concurrency[c] = 1
                            /\ \A i \in Instances : target[c][i] = "NONE"
  BY DEF Init, Nothing
<1>3. \A i \in Instances : request[i] = "none"
  BY DEF Init
<1>4. ConcurrencyHeld
  <2>1. \A c \in CampaignIds : Running(target[c]) = {}
    BY <1>2 DEF Running
  <2> QED
    BY <1>2, <2>1, FS_EmptySet DEF ConcurrencyHeld
<1>5. PassAgrees /\ UnbornEmpty /\ NoRequestLeft /\ SuccessIsComplete
  BY <1>2, <1>3, CampaignAssumption DEF PassAgrees, UnbornEmpty, NoRequestLeft, SuccessIsComplete
<1> QED
  BY <1>1, <1>4, <1>5, TypedIsTypeOK DEF IInv

(* Every step keeps the invariant.                                           *)
LEMMA NextInvariant == IInv /\ [Next]_vars => IInv'
<1> SUFFICES ASSUME IInv, [Next]_vars
             PROVE  IInv'
  OBVIOUS
<1>0. Typed /\ Safe
  BY TypedIsTypeOK DEF IInv, Safe
<1> USE <1>0
<1>1. ASSUME NEW c \in CampaignIds, Create(c)
      PROVE  Typed' /\ Safe'
  <2>1. PICK set \in SUBSET Instances, n \in 1 .. MaxConcurrency :
          CreateCampaign(c, set, Bounded(n, set))
    BY <1>1 DEF Create
  <2>2. Bounded(n, set) \in 1 .. MaxConcurrency
    BY <2>1, BoundedConcurrency DEF CreateCampaign
  <2> QED
    BY <2>1, <2>2, CreateStep
<1>2. ASSUME NEW c \in CampaignIds, NEW d \in CampaignIds, Retry(c, d)
      PROVE  Typed' /\ Safe'
  <2> DEFINE again == { i \in Instances : target[d][i] \in { "FAILED", "BLOCKED" } }
  <2>1. CreateCampaign(c, again, Bounded(concurrency[d], again)) /\ again \in SUBSET Instances
    BY <1>2 DEF Retry
  <2>2. concurrency[d] \in 1 .. MaxConcurrency /\ again # {}
    BY <2>1 DEF Typed, CreateCampaign
  <2> HIDE DEF again
  <2>3. Bounded(concurrency[d], again) \in 1 .. MaxConcurrency
    BY <2>1, <2>2, BoundedConcurrency
  <2> QED
    BY <2>1, <2>3, CreateStep
<1>3. ASSUME NEW c \in CampaignIds, Pass(c)
      PROVE  Typed' /\ Safe'
  BY <1>3, BoundaryStep, SettleStep, QueueStep DEF Pass
<1>4. ASSUME UNCHANGED vars
      PROVE  Typed' /\ Safe'
  BY <1>4 DEF vars, Typed, Safe, PassAgrees, UnbornEmpty, ConcurrencyHeld, NoRequestLeft,
     SuccessIsComplete, Active, Members, Running
<1>5. Typed' /\ Safe'
  BY <1>1, <1>2, <1>3, <1>4, OutsideStep DEF Next
<1>6. Typed' => TypeOK'
  BY DEF Typed, TypeOK
<1> QED
  BY <1>5, <1>6 DEF IInv, Safe

(* Every reachable state satisfies the inductive invariant.                  *)
THEOREM CampaignInvariance == Spec => []IInv
BY InitInvariant, NextInvariant, PTL DEF Spec

(* No restart in the middle of a pass, retry or race with a report lets a    *)
(* campaign wait for more observations than its concurrency.                 *)
THEOREM ConcurrencyKept == Spec => []ConcurrencyHeld
<1>1. IInv => ConcurrencyHeld
  BY DEF IInv
<1> QED
  BY <1>1, CampaignInvariance, PTL

(* A request outlives neither its target nor its campaign's pass.            *)
THEOREM RequestsWithdrawn == Spec => []NoRequestLeft
<1>1. IInv => NoRequestLeft
  BY DEF IInv
<1> QED
  BY <1>1, CampaignInvariance, PTL

(* A campaign is reported SUCCEEDED only with every target SUCCEEDED.        *)
THEOREM CampaignSuccess == Spec => []SuccessIsComplete
<1>1. IInv => SuccessIsComplete
  BY DEF IInv
<1> QED
  BY <1>1, CampaignInvariance, PTL
==============================================================================
