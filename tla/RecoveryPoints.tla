--------------------------- MODULE RecoveryPoints ---------------------------
(***************************************************************************)
(* The recovery points of one instance: the files of recovery.Manager, the *)
(* API handlers that reserve, finish, restore and delete points, and the   *)
(* jobs they belong to.  The control plane may crash between any two file  *)
(* operations; leases run out while a completion is being processed; a     *)
(* handler acts on an instance it has read before.                         *)
(*                                                                         *)
(* Point p is created by job p.  Points are numbered in the order of their  *)
(* creation.  An artifact is known by the claim that uploaded it (its      *)
(* checksum) and by whether its archive is what the manifest says.         *)
(***************************************************************************)
EXTENDS Naturals, FiniteSets, Sequences

CONSTANTS
    MaxPoints,      \* bound: points ever reserved
    MaxPerInstance, \* Manager.maxPerInstance
    MaxClaims,      \* jobLeaseMaxClaims
    MaxCrashes,     \* bound: crashes of the control plane
    Kinds           \* the jobs that reserve: "create", "update"

ASSUME RecoveryAssumption ==
    /\ { MaxPoints, MaxPerInstance, MaxClaims } \subseteq Nat \ {0}
    /\ MaxCrashes \in Nat /\ Kinds \subseteq { "create", "update" }

Points == 1 .. MaxPoints

VARIABLES
    fs,         \* the files of each point
    op,         \* file operations still to be done under Manager.mu
    jobs,       \* the job of each point
    inst,       \* what the instance is busy with
    handler,    \* a createRecoveryPoint or queueHermesUpdate in progress
    comps,      \* completeJob requests in progress
    restoring,  \* the point an active restore job refers to, 0 for none
    crashes

vars == <<fs, op, jobs, inst, handler, comps, restoring, crashes>>

NoFile == [by |-> 0, good |-> FALSE]
NoPoint == [meta |-> "none", enc |-> NoFile, metaTrash |-> FALSE, encTrash |-> NoFile]
NoJob == [kind |-> "none", status |-> "NONE", token |-> 0, live |-> FALSE]
Idle == [pc |-> "idle", kind |-> "none", point |-> 0]

Init ==
    /\ fs = [p \in Points |-> NoPoint] /\ op = <<>>
    /\ jobs = [p \in Points |-> NoJob] /\ inst = "idle"
    /\ handler = Idle /\ comps = {} /\ restoring = 0 /\ crashes = 0

Present(p) == fs[p].meta \notin { "none", "deleted" }
Unfinished(p) == fs[p].meta \in { "CREATING", "UPLOADED" }
Active(p) == jobs[p].status \in { "PENDING", "LEASED" }

------------------------------------------------------------------------------
(* The file operations of the manager, in their order.                     *)

(* writeMetadata replaces the file in one rename.                          *)
writeMetadata(p, f, s) == << [p |-> p, f |-> [f EXCEPT !.meta = s]] >>

(* Upload: the artifact is published before the metadata says so.          *)
UploadFiles(p, enc) ==
    LET f == [fs[p] EXCEPT !.enc = enc]
    IN << [p |-> p, f |-> f] >> \o writeMetadata(p, f, "UPLOADED")

(* Fail and ResetForRetry: the metadata first, then the artifact goes.     *)
DropFiles(p, s) ==
    writeMetadata(p, fs[p], s)
      \o << [p |-> p, f |-> [fs[p] EXCEPT !.meta = s, !.enc = NoFile]] >>

(* deleteLocked.                                                           *)
DeleteFiles(p) ==
    LET f1 == [fs[p] EXCEPT !.meta = "deleted", !.metaTrash = TRUE]
        f2 == [f1 EXCEPT !.enc = NoFile, !.encTrash = f1.enc]
        f3 == [f2 EXCEPT !.encTrash = NoFile]
        f4 == [f3 EXCEPT !.metaTrash = FALSE]
    IN << [p |-> p, f |-> f1], [p |-> p, f |-> f2], [p |-> p, f |-> f3], [p |-> p, f |-> f4] >>

(* get: the metadata are valid and the artifact is there exactly when they *)
(* say so; list: every point is, and no artifact is without metadata.      *)
get(p) == fs[p].enc # NoFile <=> fs[p].meta \in { "UPLOADED", "READY" }
list == \A p \in Points : get(p)

(* One file operation.                                                     *)
FileStep ==
    /\ op # <<>>
    /\ fs' = [fs EXCEPT ![Head(op).p] = Head(op).f] /\ op' = Tail(op)
    /\ UNCHANGED <<jobs, inst, handler, comps, restoring, crashes>>

(* cleanupTemporaryFiles: a deletion that was begun is finished.           *)
cleanupTemporaryFiles(f) ==
    IF f.metaTrash THEN [f EXCEPT !.enc = NoFile, !.encTrash = NoFile, !.metaTrash = FALSE]
    ELSE IF f.encTrash # NoFile /\ f.meta # "deleted"
         THEN [f EXCEPT !.enc = f.encTrash, !.encTrash = NoFile]
         ELSE [f EXCEPT !.encTrash = NoFile]

(* Mutant: only artifacts without metadata are removed.                    *)
reconcileInterruptedPublications_Orphans(f) ==
    IF f.meta \in { "none", "deleted" } THEN [f EXCEPT !.enc = NoFile] ELSE f

reconcileInterruptedPublications(f) ==
    IF f.meta \in { "none", "deleted", "CREATING", "FAILED" }
    THEN [f EXCEPT !.enc = NoFile] ELSE f

(* The control plane dies and is started again (New).                      *)
Crash ==
    /\ crashes < MaxCrashes /\ crashes' = crashes + 1
    /\ op # <<>> \/ handler # Idle \/ comps # {}
    /\ fs' = [p \in Points |-> reconcileInterruptedPublications(cleanupTemporaryFiles(fs[p]))]
    /\ op' = <<>> /\ handler' = Idle /\ comps' = {}
    /\ UNCHANGED <<jobs, inst, restoring>>

------------------------------------------------------------------------------
(* Reserving.  A handler reads the instance, reserves, queues.             *)

ReadInstance ==
    /\ handler = Idle /\ inst = "idle"
    /\ \E k \in Kinds : handler' = [pc |-> "read", kind |-> k, point |-> 0]
    /\ UNCHANGED <<fs, op, jobs, inst, comps, restoring, crashes>>

Automated(p) == jobs[p].kind = "update"

(* The oldest automatic point that is finished.                            *)
Rotatable == { p \in Points : Present(p) /\ Automated(p) /\ ~Unfinished(p) }
Oldest(S) == CHOOSE p \in S : \A q \in S : p <= q

FreshPoint == { p \in Points : fs[p].meta = "none" /\ jobs[p] = NoJob
                                 /\ \A q \in Points : q < p => fs[q].meta # "none" }

(* Mutant: the limit is checked after the reservation.                     *)
Full_OffByOne == Cardinality({ p \in Points : Present(p) }) > MaxPerInstance

Full == Cardinality({ p \in Points : Present(p) }) >= MaxPerInstance

(* Manager.Reserve: the limit, the rotation for an automatic point, then   *)
(* the check for an unfinished one; a refusal comes after the rotation.    *)
(* A stale reservation nobody queued is reclaimed first.                   *)
Reserve ==
    /\ handler.pc = "read" /\ op = <<>> /\ list
    /\ LET rotate == IF Full /\ handler.kind = "update" /\ Rotatable # {}
                     THEN DeleteFiles(Oldest(Rotatable)) ELSE <<>>
           refused == (Full /\ rotate = <<>>) \/ \E p \in Points : Unfinished(p)
       IN \/ refused /\ op' = rotate /\ handler' = Idle /\ UNCHANGED jobs
          \/ /\ ~refused
             /\ \E p \in FreshPoint :
                   /\ op' = rotate \o writeMetadata(p, fs[p], "CREATING")
                   /\ handler' = [handler EXCEPT !.pc = "reserved", !.point = p]
                   /\ jobs' = [jobs EXCEPT ![p].kind = handler.kind]
    /\ UNCHANGED <<fs, inst, comps, restoring, crashes>>

(* A CREATING reservation older than a day goes with the next Reserve.     *)
ReclaimStale ==
    /\ op = <<>>
    /\ \E p \in Points :
          /\ fs[p].meta = "CREATING" /\ jobs[p].status = "NONE" /\ handler.point # p
          /\ op' = writeMetadata(p, fs[p], "deleted")
    /\ UNCHANGED <<fs, jobs, inst, handler, comps, restoring, crashes>>

(* QueueAction, which checks the instance again; on failure the            *)
(* reservation is aborted.                                                 *)
Queue ==
    /\ handler.pc = "reserved" /\ op = <<>>
    /\ LET p == handler.point
       IN \/ /\ inst = "idle"
             /\ inst' = IF handler.kind = "create" THEN "BACKING_UP" ELSE "UPDATING"
             /\ jobs' = [jobs EXCEPT ![p].status = "PENDING"]
             /\ UNCHANGED op
          \/ /\ fs[p].meta = "CREATING" /\ op' = writeMetadata(p, fs[p], "deleted")
             /\ UNCHANGED <<inst, jobs>>
    /\ handler' = Idle
    /\ UNCHANGED <<fs, comps, restoring, crashes>>

------------------------------------------------------------------------------
(* The job and its leases.                                                 *)

Claim(p) ==
    /\ jobs[p].status = "PENDING" \/ (jobs[p].status = "LEASED" /\ ~jobs[p].live)
    /\ jobs[p].token < MaxClaims
    /\ jobs' = [jobs EXCEPT ![p].status = "LEASED", ![p].token = @ + 1, ![p].live = TRUE]
    /\ UNCHANGED <<fs, op, inst, handler, comps, restoring, crashes>>

Expire(p) ==
    /\ jobs[p].live /\ jobs' = [jobs EXCEPT ![p].live = FALSE]
    /\ UNCHANGED <<fs, op, inst, handler, comps, restoring, crashes>>

GiveUp(p) ==
    /\ jobs[p].status = "LEASED" /\ ~jobs[p].live /\ jobs[p].token = MaxClaims
    /\ jobs' = [jobs EXCEPT ![p].status = "FAILED"] /\ inst' = "idle"
    /\ UNCHANGED <<fs, op, handler, comps, restoring, crashes>>

(* The lease of claim t of job p is still good.                            *)
LeaseActive(p, t) == jobs[p].status = "LEASED" /\ jobs[p].token = t /\ jobs[p].live

(* createRecoveryPoint and uploadRecoveryPoint of the agent: every claim   *)
(* makes its own archive.                                                  *)
Archives(t) == { [by |-> t, good |-> good] : good \in BOOLEAN }

(* Upload: only for a reservation, and under the commit fence.             *)
Upload(p) ==
    /\ op = <<>> /\ fs[p].meta = "CREATING" /\ LeaseActive(p, jobs[p].token)
    /\ \E a \in Archives(jobs[p].token) : op' = UploadFiles(p, a)
    /\ UNCHANGED <<fs, jobs, inst, handler, comps, restoring, crashes>>

(* verify and validateArchive: decrypted and read to its end.              *)
verify(p) == fs[p].enc.good

(* VerifyUploaded: reads the whole archive of an uploaded point.           *)
VerifyUploaded(p, t) ==
    IF fs[p].meta # "UPLOADED" \/ fs[p].enc.by # t THEN "state"
    ELSE IF verify(p) THEN "ok" ELSE "integrity"

(* downloadRecoveryPointForRestore, of a reclaimed update: what an earlier *)
(* claim has uploaded is verified now.                                     *)
DownloadForUpdate(p) ==
    /\ op = <<>> /\ jobs[p].kind = "update" /\ LeaseActive(p, jobs[p].token)
    /\ VerifyUploaded(p, fs[p].enc.by) = "ok"
    /\ op' = writeMetadata(p, fs[p], "READY")
    /\ UNCHANGED <<fs, jobs, inst, handler, comps, restoring, crashes>>

(* verifyRecoveryPointForUpdate, with the checksum of this claim; an       *)
(* archive that does not verify fails the point.                           *)
VerifyForUpdate(p) ==
    /\ op = <<>> /\ jobs[p].kind = "update" /\ LeaseActive(p, jobs[p].token)
    /\ LET v == VerifyUploaded(p, jobs[p].token)
       IN \/ v = "ok" /\ op' = writeMetadata(p, fs[p], "READY")
          \/ v = "integrity" /\ op' = DropFiles(p, "FAILED")
    /\ UNCHANGED <<fs, jobs, inst, handler, comps, restoring, crashes>>

------------------------------------------------------------------------------
(* completeJob: metadata of the job, the point, the job.                   *)

StartCompletion(p) ==
    /\ LeaseActive(p, jobs[p].token)
    /\ \A c \in comps : c.p = p => c.t # jobs[p].token
    /\ \E ok \in BOOLEAN :
          comps' = comps \cup { [p |-> p, t |-> jobs[p].token, ok |-> ok, pc |-> "point"] }
    /\ UNCHANGED <<fs, op, jobs, inst, handler, restoring, crashes>>

Replace(c, d) == comps' = (comps \ { c }) \cup { d }

(* Mutant: a verified point is reset too.                                  *)
ResetForRetry_Ready(p) == IF Present(p) THEN DropFiles(p, "CREATING") ELSE <<>>

(* ResetForRetry: anything but a READY point is a reservation again.       *)
ResetForRetry(p) ==
    IF fs[p].meta \in { "CREATING", "UPLOADED", "FAILED" } THEN DropFiles(p, "CREATING") ELSE <<>>

(* The point is finished first: a point that is READY or FAILED decides    *)
(* what the result says, an unfinished one is verified or failed.          *)
FinishPoint(c) ==
    LET p == c.p
        v == VerifyUploaded(p, c.t)
        to(ok) == Replace(c, [c EXCEPT !.ok = ok, !.pc = "job"])
    IN
    /\ c.pc = "point" /\ op = <<>>
    /\ \/ fs[p].meta = "READY" /\ to(c.ok \/ jobs[p].kind = "create") /\ UNCHANGED op
       \/ fs[p].meta = "FAILED" /\ to(FALSE) /\ UNCHANGED op
       \/ c.ok /\ v = "ok" /\ to(TRUE) /\ op' = writeMetadata(p, fs[p], "READY")
       \/ c.ok /\ v = "integrity" /\ to(FALSE) /\ op' = DropFiles(p, "FAILED")
       \/ ~c.ok /\ Unfinished(p) /\ to(FALSE) /\ op' = DropFiles(p, "FAILED")
       \/ /\ fs[p].meta \notin { "READY", "FAILED" }
          /\ IF c.ok THEN v = "state" ELSE ~Present(p)
          /\ comps' = comps \ { c } /\ op' = ResetForRetry(p)
    /\ UNCHANGED <<fs, jobs, inst, handler, restoring, crashes>>

(* CompleteJobWithHash; with the lease lost the point is reset.            *)
FinishJob(c) ==
    /\ c.pc = "job" /\ op = <<>> /\ comps' = comps \ { c }
    /\ \/ /\ LeaseActive(c.p, c.t)
          /\ jobs' = [jobs EXCEPT ![c.p].status = IF c.ok THEN "SUCCEEDED" ELSE "FAILED",
                                  ![c.p].live = FALSE]
          /\ inst' = "idle" /\ UNCHANGED op
       \/ /\ ~LeaseActive(c.p, c.t)
          /\ op' = ResetForRetry(c.p) /\ UNCHANGED <<jobs, inst>>
    /\ UNCHANGED <<fs, handler, restoring, crashes>>

(* reconcileTerminalRecoveryReservations, after every claim of the host:   *)
(* AbortTerminal for what a failed job left unfinished.                    *)
AbortTerminal(p) ==
    /\ op = <<>> /\ list /\ Unfinished(p) /\ jobs[p].status = "FAILED"
    /\ op' = DeleteFiles(p)
    /\ UNCHANGED <<fs, jobs, inst, handler, comps, restoring, crashes>>

------------------------------------------------------------------------------
(* Restore and delete, both under the lock of their point.                 *)

RestorePoint(p) ==
    /\ op = <<>> /\ fs[p].meta = "READY" /\ inst = "idle"
    /\ restoring' = p /\ inst' = "RESTORING"
    /\ UNCHANGED <<fs, op, jobs, handler, comps, crashes>>

EndRestore ==
    /\ restoring # 0 /\ restoring' = 0 /\ inst' = "idle"
    /\ UNCHANGED <<fs, op, jobs, handler, comps, crashes>>

HasActiveRecoveryPointReference(p) == restoring = p \/ (Automated(p) /\ Active(p))

Delete(p) ==
    /\ op = <<>> /\ Present(p) /\ ~Unfinished(p) /\ ~HasActiveRecoveryPointReference(p)
    /\ op' = DeleteFiles(p)
    /\ UNCHANGED <<fs, jobs, inst, handler, comps, restoring, crashes>>

Next ==
    \/ FileStep \/ Crash \/ ReadInstance \/ Reserve \/ ReclaimStale \/ Queue \/ EndRestore
    \/ \E p \in Points :
          \/ Claim(p) \/ Expire(p) \/ GiveUp(p) \/ Upload(p) \/ VerifyForUpdate(p) \/ DownloadForUpdate(p)
          \/ StartCompletion(p) \/ AbortTerminal(p) \/ RestorePoint(p) \/ Delete(p)
    \/ \E c \in comps : FinishPoint(c) \/ FinishJob(c)

(* File operations and requests go on; hosts poll, leases run out.         *)
Fairness ==
    /\ WF_vars(FileStep) /\ WF_vars(\E c \in comps : FinishPoint(c) \/ FinishJob(c))
    /\ \A p \in Points : SF_vars(AbortTerminal(p)) /\ WF_vars(GiveUp(p))
                          /\ WF_vars(Claim(p)) /\ WF_vars(Expire(p))

Spec == Init /\ [][Next]_vars /\ Fairness

------------------------------------------------------------------------------
Files == [by : 0 .. MaxClaims, good : BOOLEAN]
PointFiles ==
    [meta : { "none", "deleted", "CREATING", "UPLOADED", "READY", "FAILED" },
     enc : Files, metaTrash : BOOLEAN, encTrash : Files]

TypeOK ==
    /\ fs \in [Points -> PointFiles]
    /\ \A i \in 1 .. Len(op) : op[i].p \in Points /\ op[i].f \in PointFiles
    /\ jobs \in [Points -> [kind : { "none", "create", "update" },
                            status : { "NONE", "PENDING", "LEASED", "SUCCEEDED", "FAILED" },
                            token : 0 .. MaxClaims, live : BOOLEAN]]
    /\ inst \in { "idle", "BACKING_UP", "UPDATING", "RESTORING" }
    /\ restoring \in { 0 } \cup Points /\ crashes \in 0 .. MaxCrashes

(* Outside a file operation get and list accept every point: an artifact   *)
(* is there exactly when the metadata says so, and nothing is left from an *)
(* interrupted deletion, whenever the control plane died.                  *)
StorageConsistent ==
    op = <<>> =>
        list /\ \A p \in Points : ~fs[p].metaTrash /\ fs[p].encTrash = NoFile

(* A backup job that is recorded as successful has its point, with an      *)
(* archive that was read to its end and matched, until somebody deletes    *)
(* it, whatever late completions of earlier claims do.                     *)
SuccessHasBackup ==
    \A p \in Points : jobs[p].status = "SUCCEEDED" =>
        fs[p].meta = "deleted" \/ (fs[p].meta = "READY" /\ fs[p].enc.good)

(* An instance never has more points than the retention limit.             *)
RetentionHolds == Cardinality({ p \in Points : Present(p) }) <= MaxPerInstance

(* HasActiveRecoveryPointReference: the point of an active restore job is  *)
(* not deleted.                                                            *)
ActiveRestoreKeepsPoint == restoring # 0 => fs[restoring].meta = "READY"

(* A queued backup settles: its job ends and its point is ready, failed or *)
(* gone.                                                                   *)
BackupSettles ==
    \A p \in Points : jobs[p].status = "PENDING" ~> ~Active(p) /\ ~Unfinished(p)
==============================================================================
