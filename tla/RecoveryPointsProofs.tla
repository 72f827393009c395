------------------------- MODULE RecoveryPointsProofs -------------------------
(***************************************************************************)
(* Proofs about RecoveryPoints for every number of points, claims and      *)
(* crashes and every retention limit: the files agree after every crash, a *)
(* successful backup has its verified archive, and the limit is kept.      *)
(***************************************************************************)
EXTENDS RecoveryPoints, FiniteSetTheorems, SequenceTheorems, WellFoundedInduction, TLAPS

FileOps == [p : Points, f : PointFiles]

Requests ==
    [p : Points, t : 1 .. MaxClaims, ok : BOOLEAN, pc : { "point", "job" }]

(* What the parts of a request or job may carry; a lease has its claim.     *)
RequestsOK ==
    /\ handler \in [pc : { "idle", "read", "reserved" }, kind : { "none", "create", "update" },
                    point : {0} \cup Points]
    /\ handler.pc = "reserved" => handler.point \in Points
    /\ comps \subseteq Requests
    /\ \A p \in Points : jobs[p].status = "LEASED" => jobs[p].token # 0

(* The files of a point as get and list accept them.                        *)
Clean(f) ==
    /\ f.enc # NoFile <=> f.meta \in { "UPLOADED", "READY" }
    /\ ~f.metaTrash /\ f.encTrash = NoFile

(* Files that a restart makes clean; what is READY has been read.           *)
Sound(f) ==
    /\ f.meta \in { "UPLOADED", "READY" } => f.enc # NoFile
    /\ f.metaTrash => f.meta = "deleted"
    /\ ~f.metaTrash => f.encTrash = NoFile
    /\ f.meta = "READY" => f.enc.good

(* A verified point, until it is deleted.                                   *)
Settled(f) == f.meta = "deleted" \/ (f.meta = "READY" /\ f.enc.good)

FilesOK == \A p \in Points : Sound(fs[p])

(* The file operations still to be done leave every point clean, undo no    *)
(* deletion and lose no verified point.                                     *)
PlanOK ==
    /\ \A i \in 1 .. Len(op) : Sound(op[i].f)
    /\ \A p \in Points : (\A i \in 1 .. Len(op) : op[i].p # p) => Clean(fs[p])
    /\ \A i \in 1 .. Len(op) :
          (\A k \in 1 .. Len(op) : i < k => op[k].p # op[i].p) => Clean(op[i].f)
    /\ \A i \in 1 .. Len(op) : Settled(fs[op[i].p]) => Settled(op[i].f)
    /\ \A i, k \in 1 .. Len(op) : i < k /\ op[i].p = op[k].p =>
          /\ Settled(op[i].f) => Settled(op[k].f)
          /\ op[i].f.meta \in { "none", "deleted" } => op[k].f.meta \in { "none", "deleted" }

(* Points that are there and that no pending operation deletes.             *)
Kept ==
    { p \in Points : Present(p) /\ \A i \in 1 .. Len(op) : op[i].p = p => op[i].f.meta # "deleted" }

Creates(i) == op[i].f.meta \notin { "none", "deleted" } /\ ~Present(op[i].p)

(* A new point is written last, when the others have made room for it.      *)
RoomOK ==
    \A i \in 1 .. Len(op) : Creates(i) => i = Len(op) /\ Cardinality(Kept) < MaxPerInstance

(* A completion that is about to report success has seen its point verified. *)
CompletionsOK ==
    \A c \in comps : c.pc = "job" /\ c.ok =>
        Settled(fs[c.p]) \/ \E i \in 1 .. Len(op) : op[i].p = c.p /\ Settled(op[i].f)

BackupsOK == \A p \in Points : jobs[p].status = "SUCCEEDED" => Settled(fs[p])

RecoveryInv ==
    /\ TypeOK /\ op \in Seq(FileOps) /\ RequestsOK
    /\ FilesOK /\ PlanOK /\ RoomOK /\ CompletionsOK /\ BackupsOK /\ RetentionHolds

------------------------------------------------------------------------------
(* Points, and files of a point.                                           *)

(* The bounds are natural numbers.                                          *)
LEMMA Bounds == MaxPoints \in Nat /\ MaxPerInstance \in Nat /\ MaxClaims \in Nat
BY RecoveryAssumption

(* There are finitely many points.                                          *)
LEMMA FinitePoints ==
    ASSUME NEW S \in SUBSET Points
    PROVE  IsFiniteSet(S) /\ Cardinality(S) \in Nat
<1>1. IsFiniteSet(Points)
  BY Bounds, FS_Interval DEF Points
<1> QED
  BY <1>1, FS_Subset, FS_CardinalityType

(* So the oldest of some points exists.                                     *)
LEMMA OldestExists ==
    ASSUME NEW S \in SUBSET Points, S # {}
    PROVE  Oldest(S) \in S
<1>1. S \subseteq Nat
  BY DEF Points
<1>2. PICK m \in S : \A q \in S : <<q, m>> \notin OpToRel(<, Nat)
  BY <1>1, NatLessThanWellFounded, WFMin
<1>3. \A q \in S : m <= q
  <2> TAKE q \in S
  <2>1. q \in Nat /\ m \in Nat /\ ~(q < m)
    BY <1>1, <1>2 DEF OpToRel
  <2> QED
    BY <2>1
<1> QED
  BY <1>3 DEF Oldest

(* No artifact, and what a restart makes of files.                          *)
LEMMA NoFileTyped == NoFile \in Files /\ NoFile.by = 0 /\ ~NoFile.good
BY Bounds DEF NoFile, Files

(* New finishes a deletion that was begun and drops what no metadata name.   *)
LEMMA Restarted ==
    ASSUME NEW f \in PointFiles, Sound(f)
    PROVE  LET g == reconcileInterruptedPublications(cleanupTemporaryFiles(f))
           IN /\ g \in PointFiles /\ Clean(g) /\ Sound(g) /\ g.meta = f.meta
              /\ f.meta = "READY" => g.enc = f.enc
<1> DEFINE h == cleanupTemporaryFiles(f)
           g == reconcileInterruptedPublications(h)
<1>1. NoFile \in Files
  BY NoFileTyped
<1>2. /\ h \in PointFiles /\ h.meta = f.meta /\ ~h.metaTrash /\ h.encTrash = NoFile
      /\ f.meta \in { "UPLOADED", "READY" } => h.enc = f.enc
  <2>1. CASE f.metaTrash
    BY <1>1, <2>1 DEF cleanupTemporaryFiles, PointFiles, Sound
  <2>2. CASE ~f.metaTrash
    BY <1>1, <2>2 DEF cleanupTemporaryFiles, PointFiles, Sound
  <2> QED
    BY <2>1, <2>2
<1> HIDE DEF h
<1>3. /\ g \in PointFiles /\ g.meta = h.meta /\ ~g.metaTrash /\ g.encTrash = NoFile
      /\ g.enc = IF h.meta \in { "none", "deleted", "CREATING", "FAILED" } THEN NoFile ELSE h.enc
  BY <1>1, <1>2 DEF reconcileInterruptedPublications, PointFiles
<1>4. h.meta \in { "none", "deleted", "CREATING", "UPLOADED", "READY", "FAILED" }
  BY <1>2 DEF PointFiles
<1> HIDE DEF g
<1> QED
  BY <1>2, <1>3, <1>4 DEF Clean, Sound, g, h

------------------------------------------------------------------------------
(* Beginning a series of file operations.                                  *)

(* Between two series every point is clean, and what completions saw stands. *)
LEMMA AtRest ==
    ASSUME TypeOK, FilesOK, PlanOK, op = <<>>
    PROVE  \A p \in Points : fs[p] \in PointFiles /\ Clean(fs[p]) /\ Sound(fs[p])
<1>1. 1 .. Len(op) = {}
  OBVIOUS
<1> QED
  BY <1>1 DEF TypeOK, FilesOK, PlanOK

(* A series that the invariant allows has begun.                            *)
Begun == op' \in Seq(FileOps) /\ PlanOK' /\ RoomOK'

(* No operation at all.                                                     *)
LEMMA NoPlan ==
    ASSUME TypeOK, FilesOK, PlanOK, op = <<>>, UNCHANGED <<op, fs>>
    PROVE  Begun
<1>1. 1 .. Len(op') = {} /\ op' \in Seq(FileOps)
  OBVIOUS
<1>2. \A p \in Points : Clean(fs'[p])
  BY AtRest
<1> QED
  BY <1>1, <1>2 DEF Begun, PlanOK, RoomOK

(* New metadata for one point.                                              *)
LEMMA MetadataPlan ==
    ASSUME TypeOK, FilesOK, PlanOK, op = <<>>, UNCHANGED fs,
           NEW p \in Points, NEW f \in PointFiles, op' = << [p |-> p, f |-> f] >>,
           Sound(f), Clean(f), Settled(fs[p]) => Settled(f),
           f.meta \in { "none", "deleted" } \/ Present(p) \/ ~Full
    PROVE  Begun
<1>1. op' \in Seq(FileOps) /\ Len(op') = 1 /\ op'[1].p = p /\ op'[1].f = f
  BY DEF FileOps
<1>2. \A q \in Points : Clean(fs'[q])
  BY AtRest
<1>3. PlanOK'
  BY <1>1, <1>2 DEF PlanOK
<1>4. RoomOK'
  <2> SUFFICES ASSUME Creates(1)' PROVE Cardinality(Kept') < MaxPerInstance
    BY <1>1 DEF RoomOK
  <2> DEFINE present == { q \in Points : Present(q) }
  <2>1. ~Full
    BY <1>1 DEF Creates, Present
  <2>2. Cardinality(present) < MaxPerInstance
    BY <2>1, FinitePoints, Bounds DEF Full
  <2>3. Kept' \subseteq present
    BY DEF Kept, Present
  <2>4. Cardinality(Kept') <= Cardinality(present)
    BY <2>3, FinitePoints, FS_Subset
  <2>5. Cardinality(Kept') \in Nat /\ Cardinality(present) \in Nat
    BY <2>3, FinitePoints
  <2> HIDE DEF present
  <2> QED
    BY <2>2, <2>4, <2>5, Bounds
<1> QED
  BY <1>1, <1>3, <1>4 DEF Begun

(* Upload, Fail and ResetForRetry: two operations on a point that nobody    *)
(* relies on.                                                               *)
LEMMA TwoFilesPlan ==
    ASSUME TypeOK, FilesOK, PlanOK, op = <<>>, UNCHANGED fs,
           NEW p \in Points, NEW e \in PointFiles, NEW f \in PointFiles,
           op' = << [p |-> p, f |-> e], [p |-> p, f |-> f] >>,
           Sound(e), Sound(f), Clean(f), Present(p), ~Settled(fs[p]), ~Settled(e),
           e.meta # "none"
    PROVE  Begun
<1>1. /\ op' \in Seq(FileOps) /\ Len(op') = 2
      /\ op'[1].p = p /\ op'[1].f = e /\ op'[2].p = p /\ op'[2].f = f
  BY DEF FileOps
<1>2. \A q \in Points : Clean(fs'[q])
  BY AtRest
<1>3. e.meta # "deleted"
  BY DEF Settled
<1>4. \A i \in 1 .. Len(op') : i = 1 \/ i = 2
  BY <1>1
<1>5. PlanOK'
  BY <1>1, <1>2, <1>3, <1>4 DEF PlanOK
<1>6. RoomOK'
  BY <1>1, <1>4 DEF RoomOK, Creates, Present
<1> QED
  BY <1>1, <1>5, <1>6 DEF Begun

(* The steps of a deletion.                                                 *)
LEMMA DeletionSteps ==
    ASSUME NEW p \in Points, fs[p] \in PointFiles, Clean(fs[p])
    PROVE  \E f1, f2, f3, f4 \in PointFiles :
              /\ DeleteFiles(p) = << [p |-> p, f |-> f1], [p |-> p, f |-> f2],
                                     [p |-> p, f |-> f3], [p |-> p, f |-> f4] >>
              /\ f1.meta = "deleted" /\ f2.meta = "deleted" /\ f3.meta = "deleted"
              /\ f4.meta = "deleted" /\ Clean(f4)
              /\ Sound(f1) /\ Sound(f2) /\ Sound(f3) /\ Sound(f4)
<1> DEFINE f1 == [fs[p] EXCEPT !.meta = "deleted", !.metaTrash = TRUE]
           f2 == [f1 EXCEPT !.enc = NoFile, !.encTrash = f1.enc]
           f3 == [f2 EXCEPT !.encTrash = NoFile]
           f4 == [f3 EXCEPT !.metaTrash = FALSE]
<1>1. f1 \in PointFiles /\ f1.meta = "deleted" /\ f1.metaTrash /\ f1.enc \in Files
  BY DEF PointFiles
<1> HIDE DEF f1
<1>2. /\ f2 \in PointFiles /\ f2.meta = "deleted" /\ f2.metaTrash /\ f2.enc = NoFile
  BY <1>1, NoFileTyped DEF PointFiles
<1> HIDE DEF f2
<1>3. /\ f3 \in PointFiles /\ f3.meta = "deleted" /\ f3.metaTrash /\ f3.enc = NoFile
      /\ f3.encTrash = NoFile
  BY <1>2, NoFileTyped DEF PointFiles
<1> HIDE DEF f3
<1>4. /\ f4 \in PointFiles /\ f4.meta = "deleted" /\ ~f4.metaTrash /\ f4.enc = NoFile
      /\ f4.encTrash = NoFile
  BY <1>3, NoFileTyped DEF PointFiles
<1> HIDE DEF f4
<1>5. Clean(f4) /\ Sound(f1) /\ Sound(f2) /\ Sound(f3) /\ Sound(f4)
  BY <1>1, <1>2, <1>3, <1>4 DEF Clean, Sound
<1>6. DeleteFiles(p) = << [p |-> p, f |-> f1], [p |-> p, f |-> f2],
                          [p |-> p, f |-> f3], [p |-> p, f |-> f4] >>
  BY DEF DeleteFiles, f1, f2, f3, f4
<1> QED
  BY <1>1, <1>2, <1>3, <1>4, <1>5, <1>6

(* deleteLocked.                                                            *)
LEMMA DeletionPlan ==
    ASSUME TypeOK, FilesOK, PlanOK, op = <<>>, UNCHANGED fs,
           NEW p \in Points, op' = DeleteFiles(p)
    PROVE  Begun
<1>1. fs[p] \in PointFiles /\ \A q \in Points : Clean(fs[q]) /\ Clean(fs'[q])
  BY AtRest
<1>2. PICK f1 \in PointFiles, f2 \in PointFiles, f3 \in PointFiles, f4 \in PointFiles :
              /\ DeleteFiles(p) = << [p |-> p, f |-> f1], [p |-> p, f |-> f2],
                                     [p |-> p, f |-> f3], [p |-> p, f |-> f4] >>
              /\ f1.meta = "deleted" /\ f2.meta = "deleted" /\ f3.meta = "deleted"
              /\ f4.meta = "deleted" /\ Clean(f4)
              /\ Sound(f1) /\ Sound(f2) /\ Sound(f3) /\ Sound(f4)
  BY <1>1, DeletionSteps
<1>3. /\ op' \in Seq(FileOps) /\ Len(op') = 4
      /\ op'[1] = [p |-> p, f |-> f1] /\ op'[2] = [p |-> p, f |-> f2]
      /\ op'[3] = [p |-> p, f |-> f3] /\ op'[4] = [p |-> p, f |-> f4]
  BY <1>2 DEF FileOps
<1>4. \A i \in 1 .. Len(op') :
         /\ op'[i].p = p /\ op'[i].f.meta = "deleted" /\ Sound(op'[i].f)
         /\ i = 4 => Clean(op'[i].f)
  <2> TAKE i \in 1 .. Len(op')
  <2>1. i = 1 \/ i = 2 \/ i = 3 \/ i = 4
    BY <1>3
  <2> QED
    BY <1>2, <1>3, <2>1
<1>5. \A i \in 1 .. Len(op') : Settled(op'[i].f)
  BY <1>4 DEF Settled
<1>6. \A i \in 1 .. Len(op') : (\A k \in 1 .. Len(op') : i < k => op'[k].p # op'[i].p) => i = 4
  BY <1>3, <1>4
<1>7. PlanOK'
  BY <1>1, <1>4, <1>5, <1>6 DEF PlanOK
<1>8. RoomOK'
  BY <1>4 DEF RoomOK, Creates
<1> QED
  BY <1>3, <1>7, <1>8 DEF Begun

(* Reserve: the rotation makes room before the new point is written.        *)
LEMMA RotationPlan ==
    ASSUME TypeOK, FilesOK, PlanOK, RetentionHolds, op = <<>>, UNCHANGED fs,
           NEW q \in Points, Present(q), NEW p \in Points, q # p, NEW f \in PointFiles,
           op' = DeleteFiles(q) \o << [p |-> p, f |-> f] >>,
           Sound(f), Clean(f), ~Settled(fs[p]), f.meta # "deleted"
    PROVE  Begun
<1>1. fs[q] \in PointFiles /\ \A r \in Points : Clean(fs[r]) /\ Clean(fs'[r])
  BY AtRest
<1>2. PICK f1 \in PointFiles, f2 \in PointFiles, f3 \in PointFiles, f4 \in PointFiles :
              /\ DeleteFiles(q) = << [p |-> q, f |-> f1], [p |-> q, f |-> f2],
                                     [p |-> q, f |-> f3], [p |-> q, f |-> f4] >>
              /\ f1.meta = "deleted" /\ f2.meta = "deleted" /\ f3.meta = "deleted"
              /\ f4.meta = "deleted" /\ Clean(f4)
              /\ Sound(f1) /\ Sound(f2) /\ Sound(f3) /\ Sound(f4)
  BY <1>1, DeletionSteps
<1> DEFINE d == DeleteFiles(q)
           n == << [p |-> p, f |-> f] >>
<1>3. /\ d \in Seq(FileOps) /\ Len(d) = 4
      /\ d[1] = [p |-> q, f |-> f1] /\ d[2] = [p |-> q, f |-> f2]
      /\ d[3] = [p |-> q, f |-> f3] /\ d[4] = [p |-> q, f |-> f4]
  BY <1>2 DEF FileOps
<1>4. n \in Seq(FileOps) /\ Len(n) = 1 /\ n[1] = [p |-> p, f |-> f]
  BY DEF FileOps
<1>5. op' = d \o n
  OBVIOUS
<1> HIDE DEF d, n
<1>6. /\ op' \in Seq(FileOps) /\ Len(op') = 5
      /\ op'[1] = d[1] /\ op'[2] = d[2] /\ op'[3] = d[3] /\ op'[4] = d[4] /\ op'[5] = n[1]
  <2>1. /\ d \o n \in Seq(FileOps) /\ Len(d \o n) = Len(d) + Len(n)
        /\ \A i \in 1 .. Len(d) + Len(n) :
              (d \o n)[i] = IF i <= Len(d) THEN d[i] ELSE n[i - Len(d)]
    BY <1>3, <1>4, ConcatProperties
  <2> DEFINE o == d \o n
  <2>2. op' = o /\ Len(o) = 5 /\ o \in Seq(FileOps)
    BY <1>3, <1>4, <1>5, <2>1
  <2>3. \A i \in 1 .. 5 : o[i] = IF i <= 4 THEN d[i] ELSE n[i - 4]
    BY <1>3, <1>4, <2>1
  <2> HIDE DEF o
  <2>4. o[1] = d[1] /\ o[2] = d[2] /\ o[3] = d[3] /\ o[4] = d[4]
    BY <2>3
  <2>5. o[5] = n[1]
    BY <2>3
  <2> QED
    BY <2>2, <2>4, <2>5, Zenon
<1>7. \A i \in 1 .. Len(op') :
         \/ /\ i < 5 /\ op'[i].p = q /\ op'[i].f.meta = "deleted" /\ Sound(op'[i].f)
            /\ i = 4 => Clean(op'[i].f)
         \/ i = 5 /\ op'[i].p = p /\ op'[i].f = f
  <2> TAKE i \in 1 .. Len(op')
  <2>1. i = 1 \/ i = 2 \/ i = 3 \/ i = 4 \/ i = 5
    BY <1>6
  <2> QED
    BY <1>2, <1>3, <1>4, <1>6, <2>1
<1>8. \A i \in 1 .. Len(op') : (\A k \in 1 .. Len(op') : i < k => op'[k].p # op'[i].p) =>
                                  i \in { 4, 5 }
  <2> SUFFICES ASSUME NEW i \in 1 .. 5, i < 4
               PROVE  \E k \in 1 .. Len(op') : i < k /\ op'[k].p = op'[i].p
    BY <1>6
  <2>1. i + 1 \in 1 .. Len(op') /\ i < i + 1 /\ i + 1 < 5
    BY <1>6
  <2>2. op'[i + 1].p = q /\ op'[i].p = q
    BY <1>6, <1>7, <2>1
  <2> QED
    BY <2>1, <2>2
<1>9. PlanOK'
  <2>1. \A i \in 1 .. Len(op') : Settled(fs'[op'[i].p]) => Settled(op'[i].f)
    BY <1>7 DEF Settled
  <2>2. \A i, k \in 1 .. Len(op') : i < k /\ op'[i].p = op'[k].p =>
           k < 5 /\ op'[k].f.meta = "deleted" /\ Settled(op'[k].f)
    BY <1>6, <1>7 DEF Settled
  <2> QED
    BY <1>1, <1>6, <1>7, <1>8, <2>1, <2>2 DEF PlanOK
<1>10. RoomOK'
  <2> DEFINE present == { r \in Points : Present(r) }
  <2>1. Cardinality(Kept') < MaxPerInstance
    <3>1. q \notin Kept' /\ Kept' \subseteq present
      BY <1>6, <1>7 DEF Kept, Present
    <3>2. /\ Cardinality(present \ {q}) = Cardinality(present) - 1
          /\ IsFiniteSet(present \ {q}) /\ Cardinality(present) \in Nat
      BY FinitePoints, FS_RemoveElement
    <3>3. Cardinality(Kept') <= Cardinality(present \ {q}) /\ Cardinality(Kept') \in Nat
      BY <3>1, <3>2, FinitePoints, FS_Subset
    <3>4. Cardinality(present) <= MaxPerInstance
      BY DEF RetentionHolds
    <3> HIDE DEF present
    <3> QED
      BY <3>2, <3>3, <3>4, Bounds
  <2>2. \A i \in 1 .. Len(op') : Creates(i)' => i = Len(op')
    BY <1>6, <1>7 DEF Creates
  <2> QED
    BY <2>1, <2>2 DEF RoomOK
<1> QED
  BY <1>6, <1>9, <1>10 DEF Begun

------------------------------------------------------------------------------
(* Steps that touch no file.                                               *)

JobRecords ==
    [kind : { "none", "create", "update" },
     status : { "NONE", "PENDING", "LEASED", "SUCCEEDED", "FAILED" },
     token : 0 .. MaxClaims, live : BOOLEAN]

RestTyped ==
    /\ jobs \in [Points -> JobRecords]
    /\ inst \in { "idle", "BACKING_UP", "UPDATING", "RESTORING" }
    /\ restoring \in { 0 } \cup Points /\ crashes \in 0 .. MaxCrashes

(* The type invariant, its parts named.                                     *)
LEMMA TypeParts ==
    TypeOK <=> /\ fs \in [Points -> PointFiles]
               /\ \A i \in 1 .. Len(op) : op[i].p \in Points /\ op[i].f \in PointFiles
               /\ RestTyped
BY DEF TypeOK, RestTyped, JobRecords

(* Jobs, requests and time go on, beside file operations or not.            *)
LEMMA Proceeds ==
    ASSUME RecoveryInv, UNCHANGED <<fs, op>>, RestTyped', RequestsOK',
           \A p \in Points : jobs'[p].status = "SUCCEEDED" =>
               jobs[p].status = "SUCCEEDED" \/ Settled(fs[p]),
           \A c \in comps' : c.pc = "job" /\ c.ok => c \in comps \/ Settled(fs[c.p])
    PROVE  RecoveryInv'
<1>1. TypeOK'
  BY DEF RecoveryInv, RestTyped, JobRecords, TypeOK
<1>2. op' \in Seq(FileOps) /\ FilesOK' /\ PlanOK' /\ RoomOK' /\ RetentionHolds'
  BY DEF RecoveryInv, FilesOK, PlanOK, RoomOK, RetentionHolds, Creates, Kept, Present
<1>3. CompletionsOK'
  BY DEF RecoveryInv, CompletionsOK
<1>4. BackupsOK'
  BY DEF RecoveryInv, BackupsOK
<1> QED
  BY <1>1, <1>2, <1>3, <1>4 DEF RecoveryInv

(* A series begins.                                                         *)
LEMMA Begins ==
    ASSUME RecoveryInv, op = <<>>, UNCHANGED fs, Begun, RestTyped', RequestsOK',
           \A p \in Points : jobs'[p].status = "SUCCEEDED" =>
               jobs[p].status = "SUCCEEDED" \/ Settled(fs[p]),
           \A c \in comps' : c.pc = "job" /\ c.ok =>
               \/ c \in comps
               \/ Settled(fs[c.p])
               \/ \E i \in 1 .. Len(op') : op'[i].p = c.p /\ Settled(op'[i].f)
    PROVE  RecoveryInv'
<1>1. TypeOK'
  <2>1. \A i \in 1 .. Len(op') : op'[i] \in FileOps
    BY DEF Begun
  <2> QED
    BY <2>1 DEF RecoveryInv, RestTyped, JobRecords, TypeOK, FileOps
<1>2. op' \in Seq(FileOps) /\ FilesOK' /\ PlanOK' /\ RoomOK' /\ RetentionHolds'
  BY DEF RecoveryInv, Begun, FilesOK, RetentionHolds, Present
<1>3. \A c \in comps : c.pc = "job" /\ c.ok => Settled(fs[c.p])
  BY DEF RecoveryInv, CompletionsOK
<1>4. CompletionsOK'
  BY <1>3 DEF CompletionsOK
<1>5. BackupsOK'
  BY DEF RecoveryInv, BackupsOK
<1> QED
  BY <1>1, <1>2, <1>4, <1>5 DEF RecoveryInv

(* What the rules so far need of the state.                                 *)
LEMMA InvParts ==
    ASSUME RecoveryInv
    PROVE  /\ TypeOK /\ RestTyped /\ RequestsOK /\ FilesOK /\ PlanOK /\ RetentionHolds
           /\ jobs \in [Points -> JobRecords] /\ fs \in [Points -> PointFiles]
BY TypeParts DEF RecoveryInv, RestTyped

(* Claims, leases, restores and requests that begin: no file is touched.    *)
LEMMA ProceedingSteps ==
    ASSUME RecoveryInv,
           \/ ReadInstance \/ EndRestore
           \/ \E p \in Points : \/ Claim(p) \/ Expire(p) \/ GiveUp(p) \/ StartCompletion(p)
                                \/ RestorePoint(p)
    PROVE  RecoveryInv'
<1>1. /\ RestTyped /\ RequestsOK /\ jobs \in [Points -> JobRecords]
  BY InvParts
<1>2. ASSUME NEW p \in Points, NEW job \in JobRecords, jobs' = [jobs EXCEPT ![p] = job],
             job.status # "SUCCEEDED", job.status = "LEASED" => job.token # 0,
             inst' \in { inst, "idle" }, UNCHANGED <<fs, op, handler, comps, restoring, crashes>>
      PROVE  RecoveryInv'
  <2>1. jobs' \in [Points -> JobRecords] /\ jobs'[p] = job
        /\ \A q \in Points \ {p} : jobs'[q] = jobs[q]
    BY <1>1, <1>2
  <2>2. RestTyped' /\ RequestsOK'
    BY <1>1, <1>2, <2>1 DEF RestTyped, RequestsOK
  <2> QED
    BY <1>2, <2>1, <2>2, Proceeds
<1>3. CASE ReadInstance
  <2>1. PICK k \in Kinds : handler' = [pc |-> "read", kind |-> k, point |-> 0]
    BY <1>3 DEF ReadInstance
  <2>2. RestTyped' /\ RequestsOK'
    BY <1>1, <1>3, <2>1, RecoveryAssumption DEF ReadInstance, RestTyped, RequestsOK
  <2> QED
    BY <1>3, <2>2, Proceeds DEF ReadInstance
<1>4. CASE EndRestore
  <2>1. RestTyped' /\ RequestsOK'
    BY <1>1, <1>4 DEF EndRestore, RestTyped, RequestsOK
  <2> QED
    BY <1>4, <2>1, Proceeds DEF EndRestore
<1>5. ASSUME NEW p \in Points, Claim(p)
      PROVE  RecoveryInv'
  <2> DEFINE job == [jobs[p] EXCEPT !.status = "LEASED", !.token = @ + 1, !.live = TRUE]
  <2>a. jobs[p] \in JobRecords /\ jobs[p].token < MaxClaims
    BY <1>1, <1>5 DEF Claim
  <2>1. jobs[p].token \in Nat /\ jobs[p].token < MaxClaims /\ MaxClaims \in Nat
    BY <2>a, Bounds DEF JobRecords
  <2>2. jobs[p].token + 1 \in 0 .. MaxClaims /\ jobs[p].token + 1 # 0
    BY <2>1
  <2>3. job \in JobRecords /\ job.status = "LEASED" /\ job.token # 0
    BY <1>1, <2>2 DEF JobRecords
  <2>4. jobs' = [jobs EXCEPT ![p] = job]
    BY <1>5 DEF Claim
  <2> HIDE DEF job
  <2> QED
    BY <1>2, <1>5, <2>3, <2>4 DEF Claim
<1>6. ASSUME NEW p \in Points, Expire(p)
      PROVE  RecoveryInv'
  <2> DEFINE job == [jobs[p] EXCEPT !.live = FALSE]
  <2>1. /\ job \in JobRecords /\ job.status = jobs[p].status /\ job.token = jobs[p].token
    BY <1>1 DEF JobRecords
  <2>2. jobs' = [jobs EXCEPT ![p] = job] /\ UNCHANGED <<fs, op, inst, handler, comps, restoring, crashes>>
    BY <1>6 DEF Expire
  <2> HIDE DEF job
  <2>3. jobs' \in [Points -> JobRecords] /\ jobs'[p] = job
        /\ \A q \in Points \ {p} : jobs'[q] = jobs[q]
    BY <1>1, <2>1, <2>2
  <2>4. RestTyped' /\ RequestsOK'
    BY <1>1, <2>1, <2>2, <2>3 DEF RestTyped, RequestsOK
  <2> QED
    BY <2>1, <2>2, <2>3, <2>4, Proceeds
<1>7. ASSUME NEW p \in Points, GiveUp(p)
      PROVE  RecoveryInv'
  <2> DEFINE job == [jobs[p] EXCEPT !.status = "FAILED"]
  <2>1. job \in JobRecords /\ job.status = "FAILED"
    BY <1>1 DEF JobRecords
  <2>2. jobs' = [jobs EXCEPT ![p] = job]
    BY <1>7 DEF GiveUp
  <2> HIDE DEF job
  <2> QED
    BY <1>2, <1>7, <2>1, <2>2 DEF GiveUp
<1>8. ASSUME NEW p \in Points, StartCompletion(p)
      PROVE  RecoveryInv'
  <2>1. PICK ok \in BOOLEAN :
            comps' = comps \cup { [p |-> p, t |-> jobs[p].token, ok |-> ok, pc |-> "point"] }
    BY <1>8 DEF StartCompletion
  <2>2. jobs[p].token \in 1 .. MaxClaims
    BY <1>1, <1>8, Bounds DEF StartCompletion, LeaseActive, RequestsOK, JobRecords
  <2>3. RestTyped' /\ RequestsOK'
    BY <1>1, <1>8, <2>1, <2>2 DEF StartCompletion, RestTyped, RequestsOK, Requests
  <2> QED
    BY <1>8, <2>1, <2>3, Proceeds DEF StartCompletion
<1>9. ASSUME NEW p \in Points, RestorePoint(p)
      PROVE  RecoveryInv'
  <2>1. RestTyped' /\ RequestsOK'
    BY <1>1, <1>9 DEF RestorePoint, RestTyped, RequestsOK
  <2> QED
    BY <1>9, <2>1, Proceeds DEF RestorePoint
<1> QED
  BY <1>3, <1>4, <1>5, <1>6, <1>7, <1>8, <1>9

------------------------------------------------------------------------------
(* Steps that begin a series of file operations.                           *)

(* Two operations, one after the other.                                     *)
LEMMA TwoSteps ==
    ASSUME NEW x, NEW y
    PROVE  << x >> \o << y >> = << x, y >>
<1> DEFINE S == { x, y }
           u == << x >>
           v == << y >>
           w == << x, y >>
           o == u \o v
<1>1. /\ u \in Seq(S) /\ v \in Seq(S) /\ w \in Seq(S) /\ Len(u) = 1 /\ Len(v) = 1 /\ Len(w) = 2
      /\ u[1] = x /\ v[1] = y /\ w[1] = x /\ w[2] = y
  OBVIOUS
<1> HIDE DEF S, u, v, w
<1>2. /\ o \in Seq(S) /\ Len(o) = Len(u) + Len(v)
      /\ \A i \in 1 .. Len(u) + Len(v) : o[i] = IF i <= Len(u) THEN u[i] ELSE v[i - Len(u)]
  BY <1>1, ConcatProperties
<1> HIDE DEF o
<1>3. Len(o) = 2 /\ o[1] = u[1] /\ o[2] = v[1]
  BY <1>1, <1>2
<1>4. \A i \in 1 .. Len(o) : o[i] = w[i]
  BY <1>1, <1>3
<1>5. o = w
  BY <1>1, <1>2, <1>3, <1>4, SeqEqual
<1> QED
  BY <1>5 DEF o, u, v, w

(* Fail and ResetForRetry: an unverified point loses its artifact.          *)
LEMMA DropPlan ==
    ASSUME TypeOK, FilesOK, PlanOK, op = <<>>, UNCHANGED fs,
           NEW p \in Points, NEW s \in { "FAILED", "CREATING" },
           Present(p), fs[p].meta # "READY", op' = DropFiles(p, s)
    PROVE  Begun
<1> DEFINE e == [fs[p] EXCEPT !.meta = s]
           f == [fs[p] EXCEPT !.meta = s, !.enc = NoFile]
<1>1. fs[p] \in PointFiles /\ Clean(fs[p]) /\ Sound(fs[p])
  BY AtRest
<1>2. /\ e \in PointFiles /\ e.meta = s /\ ~e.metaTrash /\ e.encTrash = NoFile
  BY <1>1 DEF PointFiles, Clean
<1>3. /\ f \in PointFiles /\ f.meta = s /\ ~f.metaTrash /\ f.encTrash = NoFile /\ f.enc = NoFile
  BY <1>1, NoFileTyped DEF PointFiles, Clean
<1>4. op' = << [p |-> p, f |-> e], [p |-> p, f |-> f] >>
  BY TwoSteps DEF DropFiles, writeMetadata
<1> HIDE DEF e, f
<1>5. Sound(e) /\ Sound(f) /\ Clean(f) /\ ~Settled(e) /\ e.meta # "none"
  BY <1>2, <1>3 DEF Sound, Clean, Settled
<1>6. ~Settled(fs[p])
  BY DEF Settled, Present
<1> QED
  BY <1>2, <1>3, <1>4, <1>5, <1>6, TwoFilesPlan

(* An uploaded archive that verifies is READY, and settled.                 *)
LEMMA ReadyPlan ==
    ASSUME TypeOK, FilesOK, PlanOK, op = <<>>, UNCHANGED fs,
           NEW p \in Points, fs[p].meta = "UPLOADED", fs[p].enc.good,
           op' = writeMetadata(p, fs[p], "READY")
    PROVE  Begun /\ \E i \in 1 .. Len(op') : op'[i].p = p /\ Settled(op'[i].f)
<1> DEFINE f == [fs[p] EXCEPT !.meta = "READY"]
<1>1. fs[p] \in PointFiles /\ Clean(fs[p]) /\ Sound(fs[p])
  BY AtRest
<1>2. /\ f \in PointFiles /\ f.meta = "READY" /\ ~f.metaTrash /\ f.encTrash = NoFile
      /\ f.enc = fs[p].enc /\ f.enc # NoFile /\ f.enc.good
  BY <1>1 DEF PointFiles, Clean
<1>3. op' = << [p |-> p, f |-> f] >>
  BY DEF writeMetadata
<1> HIDE DEF f
<1>4. Sound(f) /\ Clean(f) /\ Settled(f)
  BY <1>2 DEF Sound, Clean, Settled
<1>5. Present(p)
  BY DEF Present
<1>6. Begun
  BY <1>2, <1>3, <1>4, <1>5, MetadataPlan
<1>7. 1 \in 1 .. Len(op') /\ op'[1].p = p /\ op'[1].f = f
  BY <1>3
<1> QED
  BY <1>4, <1>6, <1>7

(* A reservation without an artifact goes at once.                          *)
LEMMA AbortPlan ==
    ASSUME TypeOK, FilesOK, PlanOK, op = <<>>, UNCHANGED fs,
           NEW p \in Points, fs[p].meta = "CREATING",
           op' = writeMetadata(p, fs[p], "deleted")
    PROVE  Begun
<1> DEFINE f == [fs[p] EXCEPT !.meta = "deleted"]
<1>1. fs[p] \in PointFiles /\ Clean(fs[p]) /\ Sound(fs[p])
  BY AtRest
<1>2. /\ f \in PointFiles /\ f.meta = "deleted" /\ ~f.metaTrash /\ f.encTrash = NoFile
      /\ f.enc = NoFile
  BY <1>1 DEF PointFiles, Clean
<1>3. op' = << [p |-> p, f |-> f] >>
  BY DEF writeMetadata
<1> HIDE DEF f
<1>4. Sound(f) /\ Clean(f) /\ Settled(f)
  BY <1>2 DEF Sound, Clean, Settled
<1> QED
  BY <1>2, <1>3, <1>4, MetadataPlan

(* An archive is published before its metadata name it.                     *)
LEMMA UploadPlan ==
    ASSUME TypeOK, FilesOK, PlanOK, op = <<>>, UNCHANGED fs,
           NEW p \in Points, fs[p].meta = "CREATING",
           NEW a \in Files, a.by # 0, op' = UploadFiles(p, a)
    PROVE  Begun
<1> DEFINE e == [fs[p] EXCEPT !.enc = a]
           f == [e EXCEPT !.meta = "UPLOADED"]
<1>1. fs[p] \in PointFiles /\ Clean(fs[p]) /\ Sound(fs[p])
  BY AtRest
<1>2. /\ e \in PointFiles /\ e.meta = "CREATING" /\ ~e.metaTrash /\ e.encTrash = NoFile /\ e.enc = a
  BY <1>1 DEF PointFiles, Clean
<1>3. op' = << [p |-> p, f |-> e], [p |-> p, f |-> f] >>
  BY TwoSteps DEF UploadFiles, writeMetadata
<1> HIDE DEF e
<1>4. /\ f \in PointFiles /\ f.meta = "UPLOADED" /\ ~f.metaTrash /\ f.encTrash = NoFile
      /\ f.enc = a
  BY <1>2 DEF PointFiles
<1>5. a # NoFile
  BY NoFileTyped
<1> HIDE DEF f
<1>6. Sound(e) /\ Sound(f) /\ Clean(f) /\ ~Settled(e) /\ e.meta # "none"
  BY <1>2, <1>4, <1>5 DEF Sound, Clean, Settled
<1>7. ~Settled(fs[p]) /\ Present(p)
  BY DEF Settled, Present
<1> QED
  BY <1>2, <1>3, <1>4, <1>6, <1>7, TwoFilesPlan

(* The manager begins a series and nothing else changes.                    *)
LEMMA BeginsOnly ==
    ASSUME RecoveryInv, op = <<>>, Begun,
           UNCHANGED <<fs, jobs, inst, handler, comps, restoring, crashes>>
    PROVE  RecoveryInv'
<1>1. RestTyped /\ RequestsOK
  BY InvParts
<1>2. RestTyped' /\ RequestsOK'
  BY <1>1 DEF RestTyped, RequestsOK
<1> QED
  BY <1>2, Begins

(* Every request and sweep that only asks the manager for something.        *)
LEMMA ManagerSteps ==
    ASSUME RecoveryInv,
           \/ ReclaimStale
           \/ \E p \in Points : \/ Upload(p) \/ VerifyForUpdate(p) \/ DownloadForUpdate(p)
                                \/ AbortTerminal(p) \/ Delete(p)
    PROVE  RecoveryInv'
<1>1. /\ TypeOK /\ FilesOK /\ PlanOK /\ RequestsOK /\ jobs \in [Points -> JobRecords]
  BY InvParts
<1>2. CASE ReclaimStale
  <2>1. PICK p \in Points : fs[p].meta = "CREATING" /\ op' = writeMetadata(p, fs[p], "deleted")
    BY <1>2 DEF ReclaimStale
  <2>2. Begun
    BY <1>1, <1>2, <2>1, AbortPlan DEF ReclaimStale
  <2> QED
    BY <1>2, <2>2, BeginsOnly DEF ReclaimStale
<1>3. ASSUME NEW p \in Points, Upload(p)
      PROVE  RecoveryInv'
  <2>1. PICK a \in Archives(jobs[p].token) : op' = UploadFiles(p, a)
    BY <1>3 DEF Upload
  <2>2. jobs[p] \in JobRecords /\ jobs[p].token # 0
    BY <1>1, <1>3 DEF Upload, LeaseActive, RequestsOK
  <2>3. a \in Files /\ a.by # 0
    BY <2>1, <2>2 DEF Archives, Files, JobRecords
  <2>4. Begun
    BY <1>1, <1>3, <2>1, <2>3, UploadPlan DEF Upload
  <2> QED
    BY <1>3, <2>4, BeginsOnly DEF Upload
<1>4. ASSUME NEW p \in Points, VerifyForUpdate(p)
      PROVE  RecoveryInv'
  <2>1. op = <<>> /\ UNCHANGED <<fs, jobs, inst, handler, comps, restoring, crashes>>
    BY <1>4 DEF VerifyForUpdate
  <2>2. fs[p].meta = "UPLOADED"
    BY <1>4 DEF VerifyForUpdate, VerifyUploaded
  <2>3. Begun
    <3>1. CASE fs[p].enc.good /\ op' = writeMetadata(p, fs[p], "READY")
      BY <1>1, <2>1, <2>2, <3>1, ReadyPlan
    <3>2. CASE op' = DropFiles(p, "FAILED")
      BY <1>1, <2>1, <2>2, <3>2, DropPlan DEF Present
    <3> QED
      BY <1>4, <3>1, <3>2 DEF VerifyForUpdate, VerifyUploaded, verify
  <2> QED
    BY <2>1, <2>3, BeginsOnly
<1>5. ASSUME NEW p \in Points, DownloadForUpdate(p)
      PROVE  RecoveryInv'
  <2>1. fs[p].meta = "UPLOADED" /\ fs[p].enc.good
    BY <1>5 DEF DownloadForUpdate, VerifyUploaded, verify
  <2>2. Begun
    BY <1>1, <1>5, <2>1, ReadyPlan DEF DownloadForUpdate
  <2> QED
    BY <1>5, <2>2, BeginsOnly DEF DownloadForUpdate
<1>6. ASSUME NEW p \in Points, AbortTerminal(p)
      PROVE  RecoveryInv'
  <2>1. Begun
    BY <1>1, <1>6, DeletionPlan DEF AbortTerminal
  <2> QED
    BY <1>6, <2>1, BeginsOnly DEF AbortTerminal
<1>7. ASSUME NEW p \in Points, Delete(p)
      PROVE  RecoveryInv'
  <2>1. Begun
    BY <1>1, <1>7, DeletionPlan DEF Delete
  <2> QED
    BY <1>7, <2>1, BeginsOnly DEF Delete
<1> QED
  BY <1>2, <1>3, <1>4, <1>5, <1>6, <1>7

------------------------------------------------------------------------------
(* A file operation, and a restart.                                        *)

(* What is left of a series after its first operation.                      *)
LEMMA Advanced ==
    ASSUME RecoveryInv, FileStep
    PROVE  /\ op' \in Seq(FileOps) /\ Len(op) \in Nat /\ Len(op') = Len(op) - 1
           /\ 1 \in 1 .. Len(op) /\ op[1] \in FileOps
           /\ \A i \in 1 .. Len(op') : i + 1 \in 1 .. Len(op) /\ op'[i] = op[i + 1]
           /\ \A i \in 1 .. Len(op) : i # 1 => i - 1 \in 1 .. Len(op') /\ op[i] = op'[i - 1]
           /\ fs \in [Points -> PointFiles] /\ fs' \in [Points -> PointFiles]
           /\ fs'[op[1].p] = op[1].f
           /\ \A p \in Points : p # op[1].p => fs'[p] = fs[p]
<1>1. op \in Seq(FileOps) /\ op # <<>> /\ op' = Tail(op) /\ Head(op) = op[1]
  BY DEF RecoveryInv, FileStep
<1>2. Len(op) \in Nat /\ Len(op) # 0 /\ op[1] \in FileOps
  BY <1>1
<1>3. /\ op' \in Seq(FileOps) /\ Len(op') = Len(op) - 1
      /\ \A i \in 1 .. Len(op') : op'[i] = op[i + 1]
  BY <1>1, HeadTailProperties
<1>4. /\ \A i \in 1 .. Len(op') : i + 1 \in 1 .. Len(op)
      /\ \A i \in 1 .. Len(op) : i # 1 => i - 1 \in 1 .. Len(op') /\ (i - 1) + 1 = i
  BY <1>2, <1>3
<1>5. \A i \in 1 .. Len(op) : i # 1 => op[i] = op'[i - 1]
  BY <1>3, <1>4
<1>6. fs \in [Points -> PointFiles] /\ fs' = [fs EXCEPT ![op[1].p] = op[1].f]
  BY <1>1 DEF FileStep, RecoveryInv, TypeOK
<1>7. /\ fs' \in [Points -> PointFiles] /\ fs'[op[1].p] = op[1].f
      /\ \A p \in Points : p # op[1].p => fs'[p] = fs[p]
  BY <1>2, <1>6 DEF FileOps
<1> QED
  BY <1>2, <1>3, <1>4, <1>5, <1>6, <1>7

(* The rest of a series still leaves every point clean.                     *)
LEMMA PlanAdvances ==
    ASSUME RecoveryInv, FileStep
    PROVE  PlanOK' /\ FilesOK'
<1>1. /\ Len(op) \in Nat /\ Len(op') = Len(op) - 1
      /\ 1 \in 1 .. Len(op) /\ op[1] \in FileOps
      /\ \A i \in 1 .. Len(op') : i + 1 \in 1 .. Len(op) /\ op'[i] = op[i + 1]
      /\ \A i \in 1 .. Len(op) : i # 1 => i - 1 \in 1 .. Len(op') /\ op[i] = op'[i - 1]
      /\ fs'[op[1].p] = op[1].f
      /\ \A p \in Points : p # op[1].p => fs'[p] = fs[p]
  BY Advanced
<1>2. PlanOK /\ FilesOK /\ op[1].p \in Points
  BY <1>1 DEF RecoveryInv, FileOps
<1>3. \A i \in 1 .. Len(op') : Sound(op'[i].f)
  BY <1>1, <1>2 DEF PlanOK
<1>4. ASSUME NEW p \in Points, \A i \in 1 .. Len(op') : op'[i].p # p
      PROVE  Clean(fs'[p])
  <2>1. \A i \in 1 .. Len(op) : i # 1 => op[i].p # p
    BY <1>1, <1>4
  <2>2. CASE p = op[1].p
    <3>1. \A k \in 1 .. Len(op) : 1 < k => op[k].p # op[1].p
      BY <2>1, <2>2
    <3>2. Clean(op[1].f)
      BY <1>1, <1>2, <3>1 DEF PlanOK
    <3> QED
      BY <1>1, <2>2, <3>2
  <2>3. CASE p # op[1].p
    <3>1. \A i \in 1 .. Len(op) : op[i].p # p
      BY <2>1, <2>3
    <3>2. Clean(fs[p])
      BY <1>2, <3>1 DEF PlanOK
    <3> QED
      BY <1>1, <2>3, <3>2
  <2> QED
    BY <2>2, <2>3
<1>5. ASSUME NEW i \in 1 .. Len(op'), \A k \in 1 .. Len(op') : i < k => op'[k].p # op'[i].p
      PROVE  Clean(op'[i].f)
  <2>1. i + 1 \in 1 .. Len(op) /\ op'[i] = op[i + 1]
    BY <1>1
  <2>2. ASSUME NEW k \in 1 .. Len(op), i + 1 < k
        PROVE  op[k].p # op[i + 1].p
    <3>1. k # 1 /\ i < k - 1
      BY <1>1, <2>2
    <3>2. k - 1 \in 1 .. Len(op') /\ op[k] = op'[k - 1]
      BY <1>1, <3>1
    <3> QED
      BY <1>5, <2>1, <3>1, <3>2
  <2>3. Clean(op[i + 1].f)
    BY <1>2, <2>1, <2>2 DEF PlanOK
  <2> QED
    BY <2>1, <2>3
<1>6. ASSUME NEW i \in 1 .. Len(op'), Settled(fs'[op'[i].p])
      PROVE  Settled(op'[i].f)
  <2>1. i + 1 \in 1 .. Len(op) /\ op'[i] = op[i + 1] /\ 1 < i + 1
    BY <1>1
  <2>2. op[i + 1].p \in Points
    BY <2>1 DEF RecoveryInv, TypeOK
  <2>3. CASE op[i + 1].p = op[1].p
    BY <1>1, <1>2, <1>6, <2>1, <2>3 DEF PlanOK
  <2>4. CASE op[i + 1].p # op[1].p
    BY <1>1, <1>2, <1>6, <2>1, <2>2, <2>4 DEF PlanOK
  <2> QED
    BY <2>3, <2>4
<1>7. ASSUME NEW i \in 1 .. Len(op'), NEW k \in 1 .. Len(op'), i < k, op'[i].p = op'[k].p
      PROVE  /\ Settled(op'[i].f) => Settled(op'[k].f)
             /\ op'[i].f.meta \in { "none", "deleted" } => op'[k].f.meta \in { "none", "deleted" }
  <2>1. /\ i + 1 \in 1 .. Len(op) /\ op'[i] = op[i + 1]
        /\ k + 1 \in 1 .. Len(op) /\ op'[k] = op[k + 1] /\ i + 1 < k + 1
    BY <1>1, <1>7
  <2> QED
    BY <1>2, <1>7, <2>1 DEF PlanOK
<1>8. PlanOK'
  BY <1>3, <1>4, <1>5, <1>6, <1>7 DEF PlanOK
<1>9. FilesOK'
  BY <1>1, <1>2 DEF PlanOK, FilesOK
<1> QED
  BY <1>8, <1>9

(* The limit is kept, and room is kept for a new point.                     *)
LEMMA RoomAdvances ==
    ASSUME RecoveryInv, FileStep
    PROVE  RoomOK' /\ RetentionHolds'
<1>1. /\ Len(op) \in Nat /\ Len(op') = Len(op) - 1
      /\ 1 \in 1 .. Len(op) /\ op[1] \in FileOps
      /\ \A i \in 1 .. Len(op') : i + 1 \in 1 .. Len(op) /\ op'[i] = op[i + 1]
      /\ \A i \in 1 .. Len(op) : i # 1 => i - 1 \in 1 .. Len(op') /\ op[i] = op'[i - 1]
      /\ fs'[op[1].p] = op[1].f
      /\ \A p \in Points : p # op[1].p => fs'[p] = fs[p]
  BY Advanced
<1>2. PlanOK /\ RoomOK /\ RetentionHolds /\ op[1].p \in Points
  BY <1>1 DEF RecoveryInv, FileOps
<1> DEFINE present == { p \in Points : Present(p) }
           first == op[1].p
           There(p) == fs'[p].meta \notin { "none", "deleted" }
<1>3. \A p \in Points : p # first => (There(p) <=> Present(p))
  BY <1>1 DEF Present
<1>4. There(first) <=> op[1].f.meta \notin { "none", "deleted" }
  BY <1>1 DEF Present
<1>5. RoomOK'
  <2> SUFFICES ASSUME NEW i \in 1 .. Len(op'), Creates(i)'
               PROVE  i = Len(op') /\ Cardinality(Kept') < MaxPerInstance
    BY DEF RoomOK
  <2>1. i + 1 \in 1 .. Len(op) /\ op'[i] = op[i + 1] /\ 1 < i + 1
    BY <1>1
  <2>2. op[i + 1].p \in Points /\ op[i + 1].f.meta \notin { "none", "deleted" } /\ ~There(op[i + 1].p)
    BY <2>1 DEF RecoveryInv, TypeOK, Creates, Present
  <2>3. op[i + 1].p # first
    <3> SUFFICES ASSUME op[i + 1].p = first PROVE FALSE
      OBVIOUS
    <3>1. op[1].f.meta \in { "none", "deleted" }
      BY <1>4, <2>2
    <3> QED
      BY <1>1, <1>2, <2>1, <2>2, <3>1 DEF PlanOK
  <2>4. Creates(i + 1)
    BY <1>3, <2>2, <2>3 DEF Creates
  <2>5. i + 1 = Len(op) /\ Cardinality(Kept) < MaxPerInstance
    BY <1>2, <2>1, <2>4 DEF RoomOK
  <2>6. Kept' \subseteq Kept
    <3> SUFFICES ASSUME NEW p \in Points, p \in Kept' PROVE p \in Kept
      BY DEF Kept
    <3>1. There(p) /\ \A k \in 1 .. Len(op') : op'[k].p = p => op'[k].f.meta # "deleted"
      BY DEF Kept, Present
    <3>2. \A k \in 1 .. Len(op) : k # 1 => (op[k].p = p => op[k].f.meta # "deleted")
      BY <1>1, <3>1
    <3>3. p = first => op[1].f.meta \notin { "none", "deleted" }
      BY <1>4, <3>1
    <3>4. Present(p)
      <4>1. CASE p # first
        BY <1>3, <3>1, <4>1
      <4>2. CASE p = first
        <5>1. ~Creates(1)
          BY <1>1, <1>2, <2>1, <2>5 DEF RoomOK
        <5> QED
          BY <3>3, <4>2, <5>1 DEF Creates
      <4> QED
        BY <4>1, <4>2
    <3> QED
      BY <3>2, <3>3, <3>4 DEF Kept
  <2>7. Kept \in SUBSET Points /\ Kept' \in SUBSET Points
    BY DEF Kept
  <2>8. Cardinality(Kept') <= Cardinality(Kept) /\ Cardinality(Kept) \in Nat /\ Cardinality(Kept') \in Nat
    BY <2>6, <2>7, FinitePoints, FS_Subset
  <2> QED
    BY <1>1, <2>5, <2>8, Bounds
<1>6. RetentionHolds'
  <2>1. IsFiniteSet(present) /\ Cardinality(present) \in Nat /\ Cardinality(present) <= MaxPerInstance
    BY <1>2, FinitePoints DEF RetentionHolds
  <2> DEFINE present2 == { p \in Points : There(p) }
  <2>2. IsFiniteSet(present2) /\ Cardinality(present2) \in Nat
    BY FinitePoints
  <2>3. CASE Creates(1)
    <3>1. Len(op) = 1 /\ Cardinality(Kept) < MaxPerInstance
      BY <1>1, <1>2, <2>3 DEF RoomOK
    <3>2. op[1].f.meta # "deleted"
      BY <2>3 DEF Creates
    <3>3. Kept = present
      BY <3>1, <3>2 DEF Kept
    <3>4. present2 \subseteq present \cup {first}
      BY <1>3
    <3>5. /\ IsFiniteSet(present \cup {first})
          /\ Cardinality(present \cup {first}) <= Cardinality(present) + 1
          /\ Cardinality(present \cup {first}) \in Nat
      <4>1. first \notin present
        BY <2>3 DEF Creates
      <4> HIDE DEF present, first
      <4>2. /\ IsFiniteSet(present \cup {first})
            /\ Cardinality(present \cup {first}) = Cardinality(present) + 1
        BY <2>1, <4>1, FS_AddElement
      <4> QED
        BY <2>1, <4>2
    <3>6. Cardinality(present2) <= Cardinality(present \cup {first})
      BY <3>4, <3>5, FS_Subset
    <3>7. Cardinality(present) < MaxPerInstance
      BY <3>1, <3>3
    <3> HIDE DEF present, present2, first
    <3>8. Cardinality(present2) <= MaxPerInstance
      BY <2>1, <2>2, <3>5, <3>6, <3>7, Bounds
    <3> QED
      BY <3>8 DEF RetentionHolds, present2, Present
  <2>4. CASE ~Creates(1)
    <3>1. present2 \subseteq present
      BY <1>2, <1>3, <1>4, <2>4 DEF Creates
    <3>2. Cardinality(present2) <= Cardinality(present)
      BY <2>1, <3>1, FS_Subset
    <3> HIDE DEF present, present2
    <3>3. Cardinality(present2) <= MaxPerInstance
      BY <2>1, <2>2, <3>2, Bounds
    <3> QED
      BY <3>3 DEF RetentionHolds, present2, Present
  <2> QED
    BY <2>3, <2>4
<1> QED
  BY <1>5, <1>6

(* One file operation keeps the invariant.                                  *)
LEMMA FileSteps ==
    ASSUME RecoveryInv, FileStep
    PROVE  RecoveryInv'
<1>1. /\ op' \in Seq(FileOps) /\ Len(op) \in Nat /\ 1 \in 1 .. Len(op) /\ op[1] \in FileOps
      /\ \A i \in 1 .. Len(op') : i + 1 \in 1 .. Len(op) /\ op'[i] = op[i + 1]
      /\ \A i \in 1 .. Len(op) : i # 1 => i - 1 \in 1 .. Len(op') /\ op[i] = op'[i - 1]
      /\ fs' \in [Points -> PointFiles] /\ fs'[op[1].p] = op[1].f
      /\ \A p \in Points : p # op[1].p => fs'[p] = fs[p]
  BY Advanced
<1>2. UNCHANGED <<jobs, inst, handler, comps, restoring, crashes>>
  BY DEF FileStep
<1>3. RestTyped /\ RequestsOK
  BY InvParts
<1>4. RestTyped' /\ RequestsOK'
  BY <1>2, <1>3 DEF RestTyped, RequestsOK
<1>5. TypeOK'
  <2>1. \A i \in 1 .. Len(op') : op'[i] \in FileOps
    BY <1>1
  <2> QED
    BY <1>1, <1>4, <2>1 DEF TypeOK, RestTyped, JobRecords, FileOps
<1>6. \A p \in Points : Settled(fs[p]) => Settled(fs'[p])
  BY <1>1 DEF RecoveryInv, PlanOK
<1>7. CompletionsOK'
  <2> SUFFICES ASSUME NEW c \in comps, c.pc = "job", c.ok
               PROVE  Settled(fs'[c.p]) \/ \E i \in 1 .. Len(op') : op'[i].p = c.p /\ Settled(op'[i].f)
    BY <1>2 DEF CompletionsOK
  <2>1. c.p \in Points
    BY <1>3 DEF RequestsOK, Requests
  <2>2. CASE Settled(fs[c.p])
    BY <1>6, <2>1, <2>2
  <2>3. CASE \E i \in 1 .. Len(op) : op[i].p = c.p /\ Settled(op[i].f)
    <3>1. PICK i \in 1 .. Len(op) : op[i].p = c.p /\ Settled(op[i].f)
      BY <2>3
    <3>2. CASE i = 1
      BY <1>1, <3>1, <3>2
    <3>3. CASE i # 1
      <4>1. i - 1 \in 1 .. Len(op') /\ op[i] = op'[i - 1]
        BY <1>1, <3>3
      <4> QED
        BY <3>1, <4>1
    <3> QED
      BY <3>2, <3>3
  <2> QED
    BY <2>2, <2>3 DEF RecoveryInv, CompletionsOK
<1>8. BackupsOK'
  BY <1>2, <1>6 DEF RecoveryInv, BackupsOK
<1> QED
  BY <1>1, <1>4, <1>5, <1>7, <1>8, PlanAdvances, RoomAdvances DEF RecoveryInv

(* A crash at any point, and the restart.                                   *)
LEMMA CrashStep ==
    ASSUME RecoveryInv, Crash
    PROVE  RecoveryInv'
<1>1. /\ TypeOK /\ RestTyped /\ RequestsOK /\ FilesOK /\ RetentionHolds
      /\ fs \in [Points -> PointFiles]
  BY InvParts
<1>2. \A p \in Points : fs'[p] = reconcileInterruptedPublications(cleanupTemporaryFiles(fs[p]))
  BY DEF Crash
<1>3. \A p \in Points :
         /\ fs'[p] \in PointFiles /\ Clean(fs'[p]) /\ Sound(fs'[p]) /\ fs'[p].meta = fs[p].meta
         /\ fs[p].meta = "READY" => fs'[p].enc = fs[p].enc
  BY <1>1, <1>2, Restarted DEF FilesOK
<1>4. fs' \in [Points -> PointFiles]
  BY <1>3 DEF Crash
<1>5. op' = <<>> /\ op' \in Seq(FileOps) /\ 1 .. Len(op') = {}
  BY DEF Crash
<1>6. crashes' \in 0 .. MaxCrashes
  BY <1>1, RecoveryAssumption DEF RestTyped, Crash
<1>7. RestTyped' /\ RequestsOK'
  BY <1>1, <1>6 DEF RestTyped, RequestsOK, Crash, Idle
<1>8. TypeOK'
  BY <1>4, <1>5, <1>7 DEF TypeOK, RestTyped, JobRecords
<1>9. FilesOK' /\ PlanOK' /\ RoomOK'
  BY <1>3, <1>5 DEF FilesOK, PlanOK, RoomOK
<1>10. CompletionsOK'
  BY DEF Crash, CompletionsOK
<1>11. BackupsOK'
  BY <1>3 DEF RecoveryInv, BackupsOK, Crash, Settled
<1>12. RetentionHolds'
  <2>1. \A p \in Points : Present(p)' <=> Present(p)
    BY <1>3 DEF Present
  <2>2. { p \in Points : Present(p)' } = { p \in Points : Present(p) }
    BY <2>1
  <2> QED
    BY <1>1, <2>2 DEF RetentionHolds
<1> QED
  BY <1>5, <1>7, <1>8, <1>9, <1>10, <1>11, <1>12 DEF RecoveryInv

------------------------------------------------------------------------------
(* Reserving and queueing.                                                 *)

(* Manager.Reserve, with and without a rotation, refused or not.            *)
LEMMA ReserveStep ==
    ASSUME RecoveryInv, Reserve
    PROVE  RecoveryInv'
<1>1. /\ TypeOK /\ FilesOK /\ PlanOK /\ RetentionHolds /\ RestTyped /\ RequestsOK
      /\ jobs \in [Points -> JobRecords] /\ fs \in [Points -> PointFiles]
  BY InvParts
<1>2. op = <<>> /\ handler.pc = "read" /\ UNCHANGED <<fs, inst, comps, restoring, crashes>>
  BY DEF Reserve
<1> DEFINE q == Oldest(Rotatable)
           rotates == Full /\ handler.kind = "update" /\ Rotatable # {}
           rotate == IF rotates THEN DeleteFiles(q) ELSE <<>>
           refused == (Full /\ rotate = <<>>) \/ \E p \in Points : Unfinished(p)
<1>3. rotates => q \in Points /\ Present(q)
  <2>1. Rotatable \in SUBSET Points
    BY DEF Rotatable
  <2>2. Rotatable # {} => q \in Rotatable
    BY <2>1, OldestExists
  <2> QED
    BY <2>2 DEF Rotatable
<1>4. \/ refused /\ op' = rotate /\ handler' = Idle /\ UNCHANGED jobs
      \/ /\ ~refused
         /\ \E p \in FreshPoint :
               /\ op' = rotate \o writeMetadata(p, fs[p], "CREATING")
               /\ handler' = [handler EXCEPT !.pc = "reserved", !.point = p]
               /\ jobs' = [jobs EXCEPT ![p].kind = handler.kind]
  BY DEF Reserve
<1>5. ~rotates => rotate = <<>>
  OBVIOUS
<1>6. rotates => rotate = DeleteFiles(q)
  OBVIOUS
<1>7. ~refused /\ ~rotates => ~Full
  BY <1>5
<1> HIDE DEF rotates, rotate, refused, q
<1>8. CASE op' = rotate /\ handler' = Idle /\ UNCHANGED jobs
  <2>1. Begun
    <3>1. CASE rotates
      BY <1>1, <1>2, <1>3, <1>6, <1>8, <3>1, DeletionPlan
    <3>2. CASE ~rotates
      BY <1>1, <1>2, <1>5, <1>8, <3>2, NoPlan
    <3> QED
      BY <3>1, <3>2
  <2>2. RestTyped' /\ RequestsOK'
    BY <1>1, <1>2, <1>8 DEF RestTyped, RequestsOK, Idle
  <2> QED
    BY <1>2, <1>8, <2>1, <2>2, Begins
<1>9. ASSUME ~refused, NEW p \in FreshPoint,
             op' = rotate \o writeMetadata(p, fs[p], "CREATING"),
             handler' = [handler EXCEPT !.pc = "reserved", !.point = p],
             jobs' = [jobs EXCEPT ![p].kind = handler.kind]
      PROVE  RecoveryInv'
  <2> DEFINE f == [fs[p] EXCEPT !.meta = "CREATING"]
             job == [jobs[p] EXCEPT !.kind = handler.kind]
  <2>1. p \in Points /\ fs[p].meta = "none" /\ fs[p] \in PointFiles /\ Clean(fs[p])
    BY <1>1, <1>2, AtRest DEF FreshPoint
  <2>2. /\ f \in PointFiles /\ f.meta = "CREATING" /\ ~f.metaTrash /\ f.encTrash = NoFile
        /\ f.enc = NoFile
    BY <2>1 DEF PointFiles, Clean
  <2>3. writeMetadata(p, fs[p], "CREATING") = << [p |-> p, f |-> f] >>
    BY DEF writeMetadata
  <2>4. job \in JobRecords /\ job.status = jobs[p].status /\ job.token = jobs[p].token
    BY <1>1, <2>1 DEF JobRecords, RequestsOK
  <2>5. jobs' = [jobs EXCEPT ![p] = job]
    BY <1>9
  <2> HIDE DEF f, job
  <2>6. Sound(f) /\ Clean(f) /\ ~Settled(fs[p]) /\ f.meta # "deleted"
    BY <2>1, <2>2 DEF Sound, Clean, Settled
  <2>7. Begun
    <3>1. CASE rotates
      <4>1. op' = DeleteFiles(q) \o << [p |-> p, f |-> f] >>
        BY <1>6, <1>9, <2>3, <3>1
      <4>2. q \in Points /\ Present(q) /\ q # p
        BY <1>3, <2>1, <3>1 DEF Present
      <4> QED
        BY <1>1, <1>2, <2>1, <2>2, <2>6, <4>1, <4>2, RotationPlan
    <3>2. CASE ~rotates
      <4>1. << [p |-> p, f |-> f] >> \in Seq(FileOps)
        BY <2>1, <2>2 DEF FileOps
      <4>2. op' = << [p |-> p, f |-> f] >>
        BY <1>5, <1>9, <2>3, <3>2, <4>1, ConcatEmptySeq
      <4>3. ~Full
        BY <1>7, <1>9, <3>2
      <4> QED
        BY <1>1, <1>2, <2>1, <2>2, <2>6, <4>2, <4>3, MetadataPlan
    <3> QED
      BY <3>1, <3>2
  <2>8. /\ jobs' \in [Points -> JobRecords] /\ jobs'[p] = job
        /\ \A r \in Points \ {p} : jobs'[r] = jobs[r]
    BY <1>1, <2>1, <2>4, <2>5
  <2>9. RestTyped'
    BY <1>1, <1>2, <2>8 DEF RestTyped
  <2>10. \A r \in Points : jobs'[r].status = jobs[r].status /\ jobs'[r].token = jobs[r].token
    BY <2>4, <2>8
  <2>11. /\ handler' \in [pc : { "idle", "read", "reserved" }, kind : { "none", "create", "update" },
                          point : {0} \cup Points]
         /\ handler'.point = p
    BY <1>1, <1>9, <2>1 DEF RequestsOK
  <2>12. RequestsOK'
    BY <1>1, <1>2, <2>1, <2>10, <2>11 DEF RequestsOK
  <2> QED
    BY <1>2, <2>7, <2>9, <2>10, <2>12, Begins
<1> QED
  BY <1>4, <1>8, <1>9

(* QueueAction, or the reservation is aborted.                              *)
LEMMA QueueStep ==
    ASSUME RecoveryInv, Queue
    PROVE  RecoveryInv'
<1>1. /\ TypeOK /\ FilesOK /\ PlanOK /\ RestTyped /\ RequestsOK
      /\ jobs \in [Points -> JobRecords]
  BY InvParts
<1>2. /\ op = <<>> /\ handler' = Idle /\ UNCHANGED <<fs, comps, restoring, crashes>>
      /\ handler.point \in Points
  BY <1>1 DEF Queue, RequestsOK
<1> DEFINE p == handler.point
<1>3. CASE /\ inst' = IF handler.kind = "create" THEN "BACKING_UP" ELSE "UPDATING"
           /\ jobs' = [jobs EXCEPT ![p].status = "PENDING"]
           /\ UNCHANGED op
  <2> DEFINE job == [jobs[p] EXCEPT !.status = "PENDING"]
  <2>1. job \in JobRecords /\ job.status = "PENDING"
    BY <1>1, <1>2 DEF JobRecords
  <2>2. jobs' = [jobs EXCEPT ![p] = job]
    BY <1>3
  <2> HIDE DEF job
  <2>3. /\ jobs' \in [Points -> JobRecords] /\ jobs'[p] = job
        /\ \A r \in Points \ {p} : jobs'[r] = jobs[r]
    BY <1>1, <1>2, <2>1, <2>2
  <2>4. inst' \in { "BACKING_UP", "UPDATING" }
    BY <1>3
  <2>5. RestTyped'
    BY <1>1, <1>2, <2>3, <2>4 DEF RestTyped
  <2>6. \A r \in Points : jobs'[r].status \in { "LEASED", "SUCCEEDED" } => jobs'[r] = jobs[r]
    BY <2>1, <2>3
  <2>7. RequestsOK'
    BY <1>1, <1>2, <2>6 DEF RequestsOK, Idle
  <2> QED
    BY <1>2, <1>3, <2>5, <2>6, <2>7, Proceeds
<1>4. CASE /\ fs[p].meta = "CREATING" /\ op' = writeMetadata(p, fs[p], "deleted")
           /\ UNCHANGED <<inst, jobs>>
  <2>1. Begun
    BY <1>1, <1>2, <1>4, AbortPlan
  <2>2. RestTyped' /\ RequestsOK'
    BY <1>1, <1>2, <1>4 DEF RestTyped, RequestsOK, Idle
  <2> QED
    BY <1>2, <1>4, <2>1, <2>2, Begins
<1> QED
  BY <1>3, <1>4 DEF Queue

------------------------------------------------------------------------------
(* Completions.                                                            *)

(* ResetForRetry begins a series or nothing.                                *)
LEMMA ResetPlan ==
    ASSUME TypeOK, FilesOK, PlanOK, op = <<>>, UNCHANGED fs,
           NEW p \in Points, op' = ResetForRetry(p)
    PROVE  Begun
<1>1. CASE fs[p].meta \in { "CREATING", "UPLOADED", "FAILED" }
  <2>1. op' = DropFiles(p, "CREATING") /\ Present(p) /\ fs[p].meta # "READY"
    BY <1>1 DEF ResetForRetry, Present
  <2> QED
    BY <2>1, DropPlan
<1>2. CASE fs[p].meta \notin { "CREATING", "UPLOADED", "FAILED" }
  <2>1. op' = <<>>
    BY <1>2 DEF ResetForRetry
  <2> QED
    BY <2>1, NoPlan
<1> QED
  BY <1>1, <1>2

(* The point of a completion is finished: what is reported as a success has *)
(* been read.                                                               *)
LEMMA FinishPointStep ==
    ASSUME RecoveryInv, NEW c \in comps, FinishPoint(c)
    PROVE  RecoveryInv'
<1>1. /\ TypeOK /\ FilesOK /\ PlanOK /\ RestTyped /\ RequestsOK
  BY InvParts
<1>2. /\ op = <<>> /\ UNCHANGED <<fs, jobs, inst, handler, restoring, crashes>>
  BY DEF FinishPoint
<1>3. c \in Requests /\ c.p \in Points /\ comps \subseteq Requests
  BY <1>1 DEF RequestsOK, Requests
<1>4. fs[c.p] \in PointFiles /\ Clean(fs[c.p]) /\ Sound(fs[c.p])
  BY <1>1, <1>2, <1>3, AtRest
<1>5. ASSUME NEW ok \in BOOLEAN, comps' = (comps \ {c}) \cup { [c EXCEPT !.ok = ok, !.pc = "job"] },
             Begun,
             ok => \/ Settled(fs[c.p])
                   \/ \E i \in 1 .. Len(op') : op'[i].p = c.p /\ Settled(op'[i].f)
      PROVE  RecoveryInv'
  <2> DEFINE d == [c EXCEPT !.ok = ok, !.pc = "job"]
  <2>1. d \in Requests /\ d.p = c.p /\ (d.ok <=> ok)
    BY <1>3 DEF Requests
  <2>2. comps' = (comps \ {c}) \cup {d}
    BY <1>5
  <2> HIDE DEF d
  <2>3. RestTyped' /\ RequestsOK'
    BY <1>1, <1>2, <1>3, <2>1, <2>2 DEF RestTyped, RequestsOK
  <2>4. \A e \in comps' : e.pc = "job" /\ e.ok =>
            \/ e \in comps
            \/ Settled(fs[e.p])
            \/ \E i \in 1 .. Len(op') : op'[i].p = e.p /\ Settled(op'[i].f)
    BY <1>5, <2>1, <2>2
  <2> QED
    BY <1>2, <1>5, <2>3, <2>4, Begins
<1>6. CASE /\ fs[c.p].meta = "READY" /\ UNCHANGED op
           /\ Replace(c, [c EXCEPT !.ok = c.ok \/ jobs[c.p].kind = "create", !.pc = "job"])
  <2>1. Begun
    BY <1>1, <1>2, <1>6, NoPlan
  <2>2. Settled(fs[c.p])
    BY <1>4, <1>6 DEF Settled, Sound
  <2>3. (c.ok \/ jobs[c.p].kind = "create") \in BOOLEAN
    OBVIOUS
  <2> QED
    BY <1>5, <1>6, <2>1, <2>2, <2>3 DEF Replace
<1>7. CASE fs[c.p].meta = "FAILED" /\ Replace(c, [c EXCEPT !.ok = FALSE, !.pc = "job"]) /\ UNCHANGED op
  <2>1. Begun
    BY <1>1, <1>2, <1>7, NoPlan
  <2> QED
    BY <1>5, <1>7, <2>1 DEF Replace
<1>8. CASE /\ VerifyUploaded(c.p, c.t) = "ok" /\ Replace(c, [c EXCEPT !.ok = TRUE, !.pc = "job"])
           /\ op' = writeMetadata(c.p, fs[c.p], "READY")
  <2>1. fs[c.p].meta = "UPLOADED" /\ fs[c.p].enc.good
    BY <1>8 DEF VerifyUploaded, verify
  <2>2. Begun /\ \E i \in 1 .. Len(op') : op'[i].p = c.p /\ Settled(op'[i].f)
    BY <1>1, <1>2, <1>3, <1>8, <2>1, ReadyPlan
  <2> QED
    BY <1>5, <1>8, <2>2 DEF Replace
<1>9. CASE /\ VerifyUploaded(c.p, c.t) = "integrity" \/ Unfinished(c.p)
           /\ Replace(c, [c EXCEPT !.ok = FALSE, !.pc = "job"]) /\ op' = DropFiles(c.p, "FAILED")
  <2>1. Present(c.p) /\ fs[c.p].meta # "READY"
    BY <1>9 DEF VerifyUploaded, Unfinished, Present
  <2>2. Begun
    BY <1>1, <1>2, <1>3, <1>9, <2>1, DropPlan
  <2> QED
    BY <1>5, <1>9, <2>2 DEF Replace
<1>10. CASE comps' = comps \ { c } /\ op' = ResetForRetry(c.p)
  <2>1. Begun
    BY <1>1, <1>2, <1>3, <1>10, ResetPlan
  <2>2. RestTyped' /\ RequestsOK'
    BY <1>1, <1>2, <1>3, <1>10 DEF RestTyped, RequestsOK
  <2> QED
    BY <1>2, <1>10, <2>1, <2>2, Begins
<1> QED
  BY <1>6, <1>7, <1>8, <1>9, <1>10 DEF FinishPoint

(* The job is finished, or its lease is lost and the point is reset.        *)
LEMMA FinishJobStep ==
    ASSUME RecoveryInv, NEW c \in comps, FinishJob(c)
    PROVE  RecoveryInv'
<1>1. /\ TypeOK /\ FilesOK /\ PlanOK /\ RestTyped /\ RequestsOK
      /\ jobs \in [Points -> JobRecords]
  BY InvParts
<1>2. /\ op = <<>> /\ c.pc = "job" /\ comps' = comps \ {c}
      /\ UNCHANGED <<fs, handler, restoring, crashes>>
  BY DEF FinishJob
<1>3. c.p \in Points
  BY <1>1 DEF RequestsOK, Requests
<1>4. c.ok => Settled(fs[c.p])
  BY <1>2 DEF RecoveryInv, CompletionsOK
<1>5. CASE /\ jobs' = [jobs EXCEPT ![c.p].status = IF c.ok THEN "SUCCEEDED" ELSE "FAILED",
                                   ![c.p].live = FALSE]
           /\ inst' = "idle" /\ UNCHANGED op
  <2> DEFINE job == [jobs[c.p] EXCEPT !.status = IF c.ok THEN "SUCCEEDED" ELSE "FAILED",
                                      !.live = FALSE]
  <2>1. /\ job \in JobRecords /\ job.status # "LEASED"
        /\ job.status = "SUCCEEDED" => c.ok
    BY <1>1, <1>3 DEF JobRecords
  <2>2. jobs' = [jobs EXCEPT ![c.p] = job]
    BY <1>1, <1>3, <1>5
  <2> HIDE DEF job
  <2>3. /\ jobs' \in [Points -> JobRecords] /\ jobs'[c.p] = job
        /\ \A r \in Points \ {c.p} : jobs'[r] = jobs[r]
    BY <1>1, <1>3, <2>1, <2>2
  <2>4. RestTyped'
    BY <1>1, <1>2, <1>5, <2>3 DEF RestTyped
  <2>5. RequestsOK'
    BY <1>1, <1>2, <2>1, <2>3 DEF RequestsOK
  <2>6. \A r \in Points : jobs'[r].status = "SUCCEEDED" =>
           jobs[r].status = "SUCCEEDED" \/ Settled(fs[r])
    BY <1>4, <2>1, <2>3
  <2> QED
    BY <1>2, <1>5, <2>4, <2>5, <2>6, Proceeds
<1>6. CASE op' = ResetForRetry(c.p) /\ UNCHANGED <<jobs, inst>>
  <2>1. Begun
    BY <1>1, <1>2, <1>3, <1>6, ResetPlan
  <2>2. RestTyped' /\ RequestsOK'
    BY <1>1, <1>2, <1>6 DEF RestTyped, RequestsOK
  <2> QED
    BY <1>2, <1>6, <2>1, <2>2, Begins
<1> QED
  BY <1>5, <1>6 DEF FinishJob

------------------------------------------------------------------------------
(* The theorems.                                                           *)

(* At first there are no points.                                            *)
LEMMA InitRecovery ==
    ASSUME Init
    PROVE  RecoveryInv
<1>1. /\ NoPoint \in PointFiles /\ Clean(NoPoint) /\ Sound(NoPoint) /\ NoPoint.meta = "none"
  BY NoFileTyped DEF NoPoint, PointFiles, Clean, Sound
<1>2. NoJob \in JobRecords /\ NoJob.status = "NONE"
  BY Bounds DEF NoJob, JobRecords
<1>3. \A p \in Points : fs[p] = NoPoint /\ jobs[p] = NoJob
  BY DEF Init
<1>4. op = <<>> /\ op \in Seq(FileOps) /\ 1 .. Len(op) = {}
  BY DEF Init
<1>5. RestTyped
  BY <1>2, RecoveryAssumption DEF RestTyped, Init
<1>6. TypeOK
  BY <1>1, <1>4, <1>5 DEF TypeOK, RestTyped, JobRecords, Init
<1>7. RequestsOK
  BY <1>2, <1>3 DEF RequestsOK, Init, Idle
<1>8. FilesOK /\ PlanOK /\ RoomOK
  BY <1>1, <1>3, <1>4 DEF FilesOK, PlanOK, RoomOK
<1>9. CompletionsOK /\ BackupsOK
  BY <1>2, <1>3 DEF CompletionsOK, BackupsOK, Init
<1>10. RetentionHolds
  <2>1. { p \in Points : Present(p) } = {}
    BY <1>1, <1>3 DEF Present
  <2> QED
    BY <2>1, FS_EmptySet, Bounds DEF RetentionHolds
<1> QED
  BY <1>4, <1>6, <1>7, <1>8, <1>9, <1>10 DEF RecoveryInv

(* Every step keeps the invariant.                                          *)
LEMMA NextRecovery ==
    ASSUME RecoveryInv, [Next]_vars
    PROVE  RecoveryInv'
<1>1. CASE UNCHANGED vars
  <2>1. RestTyped /\ RequestsOK
    BY InvParts
  <2>2. RestTyped' /\ RequestsOK'
    BY <1>1, <2>1 DEF vars, RestTyped, RequestsOK
  <2> QED
    BY <1>1, <2>2, Proceeds DEF vars
<1>2. CASE FileStep
  BY <1>2, FileSteps
<1>3. CASE Crash
  BY <1>3, CrashStep
<1>4. CASE Reserve
  BY <1>4, ReserveStep
<1>5. CASE Queue
  BY <1>5, QueueStep
<1>6. CASE \/ ReadInstance \/ EndRestore
           \/ \E p \in Points : \/ Claim(p) \/ Expire(p) \/ GiveUp(p) \/ StartCompletion(p)
                                \/ RestorePoint(p)
  BY <1>6, ProceedingSteps
<1>7. CASE \/ ReclaimStale
           \/ \E p \in Points : \/ Upload(p) \/ VerifyForUpdate(p) \/ DownloadForUpdate(p)
                                \/ AbortTerminal(p) \/ Delete(p)
  BY <1>7, ManagerSteps
<1>8. ASSUME NEW c \in comps, FinishPoint(c) \/ FinishJob(c)
      PROVE  RecoveryInv'
  BY <1>8, FinishPointStep, FinishJobStep
<1> QED
  BY <1>1, <1>2, <1>3, <1>4, <1>5, <1>6, <1>7, <1>8 DEF Next

(* The inductive invariant: what is still to be done on disk leaves every   *)
(* point clean, loses no verified archive, and has its room.                *)
THEOREM RecoveryInvariance == Spec => []RecoveryInv
<1>1. Init => RecoveryInv
  BY InitRecovery
<1>2. RecoveryInv /\ [Next]_vars => RecoveryInv'
  BY NextRecovery
<1> QED
  BY <1>1, <1>2, PTL DEF Spec

(* Files, jobs, requests and counters stay of their kinds.                  *)
THEOREM RecoveryTypes == Spec => []TypeOK
<1>1. RecoveryInv => TypeOK
  BY DEF RecoveryInv
<1> QED
  BY <1>1, RecoveryInvariance, PTL

(* recovery.Manager: whenever no file operation is under way, list accepts  *)
(* every point, and nothing is left of a deletion, however many crashes     *)
(* interrupted however many operations.                                     *)
THEOREM StorageAgrees == Spec => []StorageConsistent
<1>1. RecoveryInv => StorageConsistent
  <2> SUFFICES ASSUME RecoveryInv, op = <<>> PROVE StorageConsistent
    BY DEF StorageConsistent
  <2>1. \A p \in Points : Clean(fs[p])
    BY InvParts, AtRest
  <2> QED
    BY <2>1 DEF StorageConsistent, list, get, Clean
<1> QED
  BY <1>1, RecoveryInvariance, PTL

(* completeJob: a backup job recorded as successful has its verified archive *)
(* until it is deleted; late completions of earlier claims cannot reset it. *)
THEOREM BackupKept == Spec => []SuccessHasBackup
<1>1. RecoveryInv => SuccessHasBackup
  BY DEF RecoveryInv, BackupsOK, SuccessHasBackup, Settled
<1> QED
  BY <1>1, RecoveryInvariance, PTL

(* Manager.Reserve: the limit is kept at every moment, also while a         *)
(* rotation is under way or has been cut short.                             *)
THEOREM RetentionKept == Spec => []RetentionHolds
<1>1. RecoveryInv => RetentionHolds
  BY DEF RecoveryInv
<1> QED
  BY <1>1, RecoveryInvariance, PTL

================================================================================
