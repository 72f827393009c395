-------------------------- MODULE ExclusiveExecution --------------------------
(***************************************************************************)
(* What the job queue and its Host Agents promise together for lifecycle   *)
(* jobs: a job is executed by one worker at a time and beside no other     *)
(* execution of its instance, it may be taken up again after a worker is   *)
(* lost, it ends once, while nobody executes it, and is never executed     *)
(* again.  A canceled execution is over, but for one thing: a job whose    *)
(* rollback outlasts its lease may still be rolled back by the worker that *)
(* executed it, while the job is taken up again, ends or is followed by    *)
(* another.                                                                *)
(***************************************************************************)
CONSTANTS Jobs, Workers, Targets

VARIABLES
    phase,   \* "none", "open" or "ended"
    target,  \* the instance a job is for
    lasting, \* may its rollback outlast the lease
    runner,  \* the workers that execute a job
    undoing  \* the workers that roll back a canceled execution of it

Submit(j, i, lasts) ==
    /\ phase[j] = "none"
    /\ phase' = [phase EXCEPT ![j] = "open"]
    /\ target' = [target EXCEPT ![j] = i]
    /\ lasting' = [lasting EXCEPT ![j] = lasts]
    /\ UNCHANGED <<runner, undoing>>

Start(j, w) ==
    /\ phase[j] = "open"
    /\ \A k \in Jobs : target[k] = target[j] => runner[k] = {}
    /\ runner' = [runner EXCEPT ![j] = {w}]
    /\ UNCHANGED <<phase, target, lasting, undoing>>

(* The workers W stop, one or, when their host restarts, all together.     *)
(* Those of them in R roll back what they executed.                        *)
Stop(W, R) ==
    /\ R \subseteq W
    /\ \A j \in Jobs : runner[j] \cap R # {} => lasting[j]
    /\ runner' = [j \in Jobs |-> runner[j] \ W]
    /\ undoing' = [j \in Jobs |-> (undoing[j] \ W) \cup (runner[j] \cap R)]
    /\ UNCHANGED <<phase, target, lasting>>

(* Several abandoned jobs may be given up in one transaction.              *)
End(K) ==
    /\ K # {} /\ \A j \in K : phase[j] = "open" /\ runner[j] = {}
    /\ phase' = [j \in Jobs |-> IF j \in K THEN "ended" ELSE phase[j]]
    /\ UNCHANGED <<target, lasting, runner, undoing>>

Next ==
    \/ \E j \in Jobs : \/ \E i \in Targets, lasts \in BOOLEAN : Submit(j, i, lasts)
                       \/ \E w \in Workers : Start(j, w)
    \/ \E W, R \in SUBSET Workers : Stop(W, R)
    \/ \E K \in SUBSET Jobs : End(K)

Spec == [][Next]_<<phase, target, lasting, runner, undoing>>
================================================================================
