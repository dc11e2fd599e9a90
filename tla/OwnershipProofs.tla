--------------------------- MODULE OwnershipProofs ---------------------------
(***************************************************************************)
(* Who is who in the registry, who owns a job, and who completes its       *)
(* removal, for any number of requests, title workers and videos.          *)
(*                                                                         *)
(* Identity: a card is registered under its own video, the records on disk *)
(* carry the stamps of different cards, and a save in progress writes the  *)
(* record of its own card.  Recovery makes job objects out of directories  *)
(* and relies on this: two directories with one stamp would become one job *)
(* object.  Identity is inductive on top of TypeOK; its lemmas follow the  *)
(* kinds of steps, those that leave names and records alone in one lemma   *)
(* (QuietIdentity).                                                        *)
(*                                                                         *)
(* OwnedIsRegistered, OneFinalizer and WaitersHaveAnAttempt hold together  *)
(* or not at all: a removal may unregister a job because no worker owns it, *)
(* it has no owner because its finalizer took over when the last one let   *)
(* go, and the last one knew because each worker at work holds its own     *)
(* flag.  Ownership adds those links: which labels a goroutine can be at   *)
(* (KindsOK), that a worker at work holds the flag of its job and no two   *)
(* title workers hold one job (ClaimsOK), that finalizers and orphans, the *)
(* marked jobs nobody owns, correspond one to one (FinalizersOK, OrphansOK), *)
(* and that marks are made only of created jobs while serving (MarksOK).   *)
(***************************************************************************)
EXTENDS ManagerProofs

\* A registered job object was created, for the video it is registered under.
CardsOK == \A i \in Ids : jobs[i] # NoRun => jobs[i] <= created /\ job[jobs[i]].id = i

\* Directories hold records of created cards, of different ones, and, while the
\* process runs, of the card that is theirs.
RecordsOK ==
  /\ \A i \in Ids : disk[i].meta.run <= created
  /\ \A i \in Ids : ~disk[i].dir => disk[i].meta.run = NoRun
  /\ \A i, j \in Ids : disk[i].meta.run = disk[j].meta.run => i = j \/ disk[i].meta.run = NoRun
  /\ \A i \in Ids, r \in Runs : disk[i].meta.run = r /\ job[r].id \in Ids => job[r].id = i

\* A snapshot is of the job object whose saveMu is held.
SnapshotsOK == \A r \in Runs : snap[r].run # NoRun => snap[r].run = r /\ r <= created

Identity == CardsOK /\ RecordsOK /\ SnapshotsOK

\* No job object changes its video.
SameIds == \A r \in Runs : job'[r].id = job[r].id

\* A registered job object was created, for the video it is registered under.
LEMMA Bounded ==
  ASSUME TypeOK, CardsOK, NEW r \in Runs, Current(r)
  PROVE  r <= created /\ job[r].id \in Ids /\ jobs[job[r].id] = r
  BY DEF TypeOK, CardsOK, Current, Registry, Runs, NoRun

\* Steps that leave the registry's names and the records alone.
LEMMA QuietIdentity ==
  ASSUME TypeOK, Identity, SameIds, UNCHANGED <<jobs, created, disk, snap>>
  PROVE  Identity'
<1>1. CardsOK'
  BY DEF TypeOK, RegistryOK, Identity, CardsOK, SameIds, Runs, MaybeRun, NoRun
<1>2. RecordsOK'
  BY DEF Identity, RecordsOK, SameIds
<1>3. SnapshotsOK'
  BY DEF Identity, SnapshotsOK
<1> QED BY <1>1, <1>2, <1>3 DEF Identity

\* A directory keeps its record, or loses it, or gets one of its own job.
LEMMA RecordsKept ==
  ASSUME TypeOK, RecordsOK, UNCHANGED created, SameIds,
         \A i \in Ids :
            \/ disk'[i].meta.run = disk[i].meta.run /\ (disk[i].dir => disk'[i].dir)
            \/ disk'[i].meta.run = NoRun
            \/ /\ disk'[i].dir
               /\ disk'[i].meta.run <= created
               /\ job[disk'[i].meta.run].id = i
               /\ disk'[i].meta.run \in Runs
  PROVE  RecordsOK'
<1>1. \A i \in Ids : disk'[i].meta.run <= created'
  BY BoundsAssumption DEF TypeOK, RegistryOK, StorageOK, RecordsOK, Runs, NoRun, MaybeRun
<1>2. \A i \in Ids : ~disk'[i].dir => disk'[i].meta.run = NoRun
  BY DEF RecordsOK
<1>3. \A i, j \in Ids : disk'[i].meta.run = disk'[j].meta.run => i = j \/ disk'[i].meta.run = NoRun
  BY DEF RecordsOK, TypeOK, StorageOK, Dir, Meta, MaybeRun, Runs, NoRun
<1>4. \A i \in Ids, r \in Runs : disk'[i].meta.run = r /\ job'[r].id \in Ids => job'[r].id = i
  BY DEF RecordsOK, SameIds, Runs, NoRun
<1> QED BY <1>1, <1>2, <1>3, <1>4 DEF RecordsOK

\* Submit hands out a job object nobody has had, saved whole or in part.
LEMMA SubmitIdentity ==
  ASSUME TypeOK, Identity, NEW c \in Clients, NEW i \in Ids,
         SubmitNew(c, i) \/ SubmitUnsaved(c, i)
  PROVE  Identity'
<1> DEFINE n == created + 1
<1>1. /\ n \in Runs /\ created' = n /\ created \in Nat
      /\ job' = [job EXCEPT ![n] = NewJob(i)] /\ UNCHANGED snap
  BY BoundsAssumption
  DEF TypeOK, RegistryOK, SubmitNew, SubmitUnsaved, Admissible, Runs, MaybeRun, saveVars
<1>2. jobs' = jobs \/ (jobs[i] = NoRun /\ jobs' = [jobs EXCEPT ![i] = n])
  BY DEF SubmitNew, SubmitUnsaved, Admissible
<1>3. \A r \in Runs : r <= created => job'[r] = job[r]
  BY <1>1 DEF TypeOK, RegistryOK
<1>4. job'[n].id = i
  BY <1>1 DEF TypeOK, RegistryOK, NewJob
<1>5. CardsOK'
  BY <1>1, <1>2, <1>3, <1>4
  DEF TypeOK, RegistryOK, Identity, CardsOK, Runs, MaybeRun, NoRun
<1>6. SnapshotsOK'
  BY <1>1 DEF Identity, SnapshotsOK, Runs
<1>7. /\ \A j \in Ids \ {i} : disk'[j] = disk[j]
      /\ \/ disk'[i].meta = disk[i].meta /\ (disk[i].dir => disk'[i].dir)
         \/ disk'[i].dir /\ disk'[i].meta.run = n
  <2>1. disk[i] \in Dir /\ NewMeta.run = n
    BY DEF TypeOK, StorageOK, NewMeta
  <2>2. PICK d \in FailedSaves(disk[i], NewMeta) : disk' = [disk EXCEPT ![i] = d]
    BY DEF SubmitNew, SubmitUnsaved, NewDir, FailedSaves
  <2>3. \/ d.meta = disk[i].meta /\ (disk[i].dir => d.dir)
        \/ d.dir /\ d.meta.run = n
    BY <2>1 DEF FailedSaves, Written, Dir
  <2> QED BY <2>2, <2>3 DEF TypeOK, StorageOK
<1>8. RecordsOK'
  <2>1. \A j \in Ids : disk[j].meta.run \in MaybeRun /\ disk[j].meta.run <= created
    BY DEF TypeOK, StorageOK, Dir, Meta, Identity, RecordsOK
  <2>2. \A j \in Ids : disk'[j].meta.run = n => j = i
    BY <1>1, <1>7, <2>1
  <2>3. \A j \in Ids : \/ disk'[j].meta.run = disk[j].meta.run /\ (disk[j].dir => disk'[j].dir)
                       \/ j = i /\ disk'[j].meta.run = n /\ disk'[j].dir
    BY <1>7
  <2>4. \A j \in Ids : disk'[j].meta.run <= created' /\ (~disk'[j].dir => disk'[j].meta.run = NoRun)
    BY <1>1, <2>1, <2>3 DEF Identity, RecordsOK, MaybeRun
  <2>5. \A j, k \in Ids : disk'[j].meta.run = disk'[k].meta.run =>
                            j = k \/ disk'[j].meta.run = NoRun
    BY <1>1, <2>1, <2>3 DEF Identity, RecordsOK, MaybeRun
  <2>6. \A j \in Ids, r \in Runs : disk'[j].meta.run = r /\ job'[r].id \in Ids => job'[r].id = j
    BY <1>1, <1>3, <1>4, <2>1, <2>2, <2>3 DEF Identity, RecordsOK, MaybeRun, Runs
  <2> QED BY <2>4, <2>5, <2>6 DEF RecordsOK
<1> QED BY <1>5, <1>6, <1>8 DEF Identity

\* A removal takes one name out of the registry.
LEMMA UnregisterIdentity ==
  ASSUME TypeOK, Identity, NEW p \in Procs, Unregister(p)
  PROVE  Identity'
<1>1. /\ UNCHANGED <<job, created, disk, snap>>
      /\ jobs' = jobs \/ jobs' = [jobs EXCEPT ![job[own[p]].id] = NoRun]
  BY DEF Unregister
<1>2. CardsOK'
  BY <1>1 DEF TypeOK, RegistryOK, Identity, CardsOK
<1>3. RecordsOK' /\ SnapshotsOK'
  BY <1>1 DEF Identity, RecordsOK, SnapshotsOK
<1> QED BY <1>2, <1>3 DEF Identity

\* A snapshot is taken of a registered job.
LEMMA SnapshotIdentity ==
  ASSUME TypeOK, Identity, NEW r \in Runs,
         (Current(r) /\ Snapshot(r)) \/ Forget(r) \/ UNCHANGED snap, UNCHANGED created
  PROVE  SnapshotsOK'
<1>1. Current(r) => r <= created
  BY Bounded DEF Identity
<1>2. MetaOf(r).run = r /\ NoMeta.run = NoRun
  BY DEF MetaOf, NoMeta
<1> QED BY <1>1, <1>2 DEF TypeOK, SavesOK, Identity, SnapshotsOK, Snapshot, Forget

\* saveCurrent takes its snapshot, or finds nothing to save.
LEMMA BeginIdentity ==
  ASSUME TypeOK, Identity,
         (\E p \in Procs : BeginSave(p)) \/ (\E r \in Runs : BeginAsyncSave(r))
  PROVE  Identity'
<1>1. UNCHANGED <<jobs, job, created, disk>>
  BY DEF BeginSave, BeginAsyncSave, regVars
<1>2. SnapshotsOK'
  <2>1. ASSUME NEW p \in Procs, BeginSave(p) PROVE SnapshotsOK'
    <3>1. own[p] \in Runs
      BY <2>1 DEF TypeOK, ProcsOK, FreeLabels, BeginSave
    <3> QED BY <1>1, <2>1, <3>1, SnapshotIdentity DEF BeginSave, Saveable
  <2>2. ASSUME NEW r \in Runs, BeginAsyncSave(r) PROVE SnapshotsOK'
    BY <1>1, <2>2, SnapshotIdentity DEF BeginAsyncSave, Saveable
  <2> QED BY <2>1, <2>2
<1>3. CardsOK' /\ RecordsOK'
  BY <1>1 DEF Identity, CardsOK, RecordsOK
<1> QED BY <1>2, <1>3 DEF Identity

\* What a save leaves of a directory, whole or in part.
LEMMA StoreIdentity ==
  ASSUME TypeOK, Identity, NEW r \in Runs, NEW i \in Ids, job[r].id = i,
         NEW d \in FailedSaves(disk[i], snap[r])
  PROVE  \/ d.meta.run = disk[i].meta.run /\ (disk[i].dir => d.dir)
         \/ d.meta.run = NoRun
         \/ d.dir /\ d.meta.run = r /\ r <= created
<1>1. snap[r].run = NoRun \/ (snap[r].run = r /\ r <= created)
  BY DEF Identity, SnapshotsOK
<1>2. disk[i] \in Dir
  BY DEF TypeOK, StorageOK
<1> QED BY <1>1, <1>2 DEF FailedSaves, Written, Dir

\* saveCurrent has written its snapshot, or a part of it.
LEMMA EndIdentity ==
  ASSUME TypeOK, Identity, NEW r \in Runs, Stores(r) \/ FailsToStore(r), Forget(r),
         UNCHANGED <<jobs, job, created>>
  PROVE  Identity'
<1>1. SnapshotsOK'
  BY SnapshotIdentity
<1>2. \A i \in Ids : disk'[i] = disk[i]
        \/ (job[r].id = i /\ disk'[i] \in FailedSaves(disk[i], snap[r]))
  BY DEF TypeOK, StorageOK, Stores, FailsToStore, FailedSaves
<1>3. RecordsOK'
  <2>1. SameIds
    BY DEF SameIds
  <2>2. \A i \in Ids :
            \/ disk'[i].meta.run = disk[i].meta.run /\ (disk[i].dir => disk'[i].dir)
            \/ disk'[i].meta.run = NoRun
            \/ disk'[i].dir /\ disk'[i].meta.run = r /\ r <= created /\ job[r].id = i
    BY <1>2, StoreIdentity
  <2> QED BY <2>1, <2>2, RecordsKept DEF Identity
<1>4. CardsOK'
  BY DEF Identity, CardsOK
<1> QED BY <1>1, <1>3, <1>4 DEF Identity

\* The pipeline, removals and others change files, but write no record.
LEMMA FilesIdentity ==
  ASSUME TypeOK, Identity,
         \/ MakeWork \/ Publish \/ \E i \in Ids : Vanish(i)
         \/ \E p \in Procs : RemoveFiles(p) \/ RemoveFails(p)
  PROVE  Identity'
<1>1. UNCHANGED <<jobs, job, created, snap>>
  BY DEF MakeWork, Publish, Vanish, RemoveFiles, RemoveFails, regVars, saveVars
<1>2. \A i \in Ids : \/ disk'[i].meta = disk[i].meta /\ (disk[i].dir => disk'[i].dir)
                     \/ disk'[i].meta.run = NoRun
                     \/ disk'[i].meta = disk[i].meta /\ disk'[i].dir = disk[i].dir
  <2>1. \A i \in Ids : disk[i] \in Dir
    BY DEF TypeOK, StorageOK
  <2>2. CASE MakeWork \/ Publish \/ \E i \in Ids : Vanish(i)
    BY <2>1, <2>2 DEF MakeWork, Publish, Vanish, TypeOK, StorageOK, Dir
  <2>3. ASSUME NEW p \in Procs, RemoveFiles(p)
        PROVE  \A i \in Ids : disk'[i] = disk[i] \/ disk'[i] = NoDir
    BY <2>3 DEF RemoveFiles, TypeOK, StorageOK
  <2>4. ASSUME NEW p \in Procs, RemoveFails(p)
        PROVE  \A i \in Ids : disk'[i] = disk[i] \/ disk'[i] \in PartialRemovals(disk[i])
    BY <2>4 DEF RemoveFails, TypeOK, StorageOK
  <2>5. NoDir.meta.run = NoRun /\ NoMeta.run = NoRun
    BY DEF NoDir, NoMeta
  <2>6. \A d \in Dir : \A e \in PartialRemovals(d) :
          e.meta.run = NoRun \/ (e.meta = d.meta /\ e.dir = d.dir)
    BY <2>5 DEF PartialRemovals
  <2> QED BY <2>1, <2>2, <2>3, <2>4, <2>5, <2>6
<1>3. RecordsOK'
  BY <1>1, <1>2, RecordsKept DEF Identity, SameIds
<1>4. CardsOK' /\ SnapshotsOK'
  BY <1>1 DEF Identity, CardsOK, SnapshotsOK
<1> QED BY <1>3, <1>4 DEF Identity

\* A process that stops leaves whole records or none in every directory.
LEMMA PowerOffIdentity ==
  ASSUME TypeOK, Identity, Exit \/ Crash \/ RecoverFails
  PROVE  Identity'
<1>1. jobs' = NoJobs /\ job' = NoObjects /\ created' = created /\ snap' = NoSnapshots
  BY DEF Exit, Crash, RecoverFails, Ends, PowerOff
<1>2. CardsOK' /\ SnapshotsOK'
  BY <1>1 DEF CardsOK, SnapshotsOK, NoJobs, NoSnapshots, NoMeta
<1>3. \A i \in Ids, r \in Runs : job'[r].id \notin Ids
  BY <1>1, NamesAssumption DEF NoObjects, Uncreated
<1>4. \A i \in Ids :
        \/ disk'[i].meta.run = disk[i].meta.run /\ (disk[i].dir => disk'[i].dir)
        \/ disk'[i].meta.run = NoRun
        \/ \E r \in Runs : disk'[i].dir /\ disk'[i].meta.run = r /\ r <= created /\ job[r].id = i
  <2>1. \A i \in Ids : disk'[i] \in Torn(i) \/ disk'[i] = disk[i]
    BY DEF Exit, Crash, RecoverFails, Ends, Residues
  <2>2. ASSUME NEW i \in Ids, NEW d \in Torn(i)
        PROVE  \/ d.meta.run = disk[i].meta.run /\ (disk[i].dir => d.dir)
               \/ d.meta.run = NoRun
               \/ \E r \in Runs : d.dir /\ d.meta.run = r /\ r <= created /\ job[r].id = i
    <3>1. disk[i] \in Dir /\ NoDir.meta.run = NoRun /\ NoMeta.run = NoRun
      BY DEF TypeOK, StorageOK, NoDir, NoMeta
    <3>2. CASE d = disk[i]
      BY <3>2
    <3>3. CASE d \in HalfRemoved(i)
      BY <3>1, <3>3 DEF HalfRemoved, PartialRemovals
    <3>4. CASE d \in HalfSaved(i)
      <4>1. PICK r \in Runs : job[r].id = i /\ d \in FailedSaves(disk[i], snap[r])
        BY <3>4 DEF HalfSaved, Saving
      <4> QED BY <4>1, StoreIdentity
    <3>5. CASE d \in HalfSubmitted(i)
      BY <3>1, <3>5 DEF HalfSubmitted, Dir
    <3> QED BY <2>2, <3>2, <3>3, <3>4, <3>5 DEF Torn
  <2> QED BY <2>1, <2>2
<1>5. RecordsOK'
  <2>1. \A i \in Ids : disk'[i].meta.run <= created' /\ (~disk'[i].dir => disk'[i].meta.run = NoRun)
    BY <1>1, <1>4, BoundsAssumption DEF Identity, RecordsOK, TypeOK, RegistryOK, MaybeRun, NoRun
  <2>2. \A i, j \in Ids : disk'[i].meta.run = disk'[j].meta.run =>
                            i = j \/ disk'[i].meta.run = NoRun
    BY <1>4 DEF Identity, RecordsOK, Runs, NoRun
  <2> QED BY <1>3, <2>1, <2>2 DEF RecordsOK
<1> QED BY <1>2, <1>5 DEF Identity

\* Recovery gives distinct job objects to distinct directories.
LEMMA RecoverIdentity ==
  ASSUME TypeOK, Identity, Recover
  PROVE  Identity'
<1>1. PICK rank \in Bijection(Found, 1..Cardinality(Found)),
          stamp \in Bijection(Bare, created + 1 .. created + Cardinality(Bare)),
          unread \in Unread :
        Registers(rank, stamp, unread)
  BY DEF Recover
<1>2. /\ created \in Nat /\ Cardinality(Bare) \in Nat /\ created' = created + Cardinality(Bare)
      /\ created' <= MaxRuns
  <2>1. IsFiniteSet(Bare)
    BY NamesAssumption, FS_Subset DEF Found, Bare
  <2> QED BY <2>1, FS_CardinalityType, BoundsAssumption DEF TypeOK, RegistryOK, MaybeRun, Recover
<1>3. \A i \in Bare : RunFound(i, stamp) = stamp[i] /\ stamp[i] > created /\ stamp[i] <= created'
  BY <1>2 DEF Bijection, Injection, RunFound
<1>4. \A i, j \in Bare : stamp[i] = stamp[j] => i = j
  BY DEF Bijection, Injection, IsInjective
<1>5. \A i \in Found \ Bare : RunFound(i, stamp) = disk[i].meta.run /\ disk[i].meta.run <= created
  BY DEF RunFound, Found, Identity, RecordsOK
<1>6. \A i, j \in Found : RunFound(i, stamp) = RunFound(j, stamp) =>
                             i = j \/ RunFound(i, stamp) = NoRun
  <2>1. \A i \in Found : disk[i].meta.run \in MaybeRun
    BY DEF TypeOK, StorageOK, Dir, Meta, Found
  <2>2. Found \subseteq Ids /\ Bare \subseteq Found
    BY DEF Found, Bare
  <2> QED BY <1>2, <1>3, <1>4, <1>5, <2>1, <2>2 DEF Identity, RecordsOK, MaybeRun, Bijection,
        Injection
<1>7. \A i \in Found : RunFound(i, stamp) \in Runs => job'[RunFound(i, stamp)].id = i
  <2>1. ASSUME NEW i \in Found, RunFound(i, stamp) \in Runs
        PROVE  job'[RunFound(i, stamp)].id = i
    <3> DEFINE r == RunFound(i, stamp)
               k == CHOOSE j \in Found : RunFound(j, stamp) = r
    <3>1. k \in Found /\ RunFound(k, stamp) = r
      OBVIOUS
    <3>2. k = i
      BY <1>6, <2>1, <3>1 DEF Runs, NoRun
    <3>3. job'[r] = JobRecovered(k, rank, unread)
      BY <1>1, <2>1 DEF Registers
    <3> QED BY <3>2, <3>3 DEF JobRecovered
  <2> QED BY <2>1
<1>8. \A i \in Ids : jobs'[i] = IF i \in Found THEN RunFound(i, stamp) ELSE NoRun
  BY <1>1 DEF Registers
<1>9. \A i \in Found : RunFound(i, stamp) \in MaybeRun /\ RunFound(i, stamp) <= created'
  <2>1. \A i \in Found : disk[i].meta.run \in MaybeRun
    BY DEF TypeOK, StorageOK, Dir, Meta, Found
  <2> QED BY <1>2, <1>3, <1>5, <2>1, BoundsAssumption DEF MaybeRun, Bijection, Injection
<1>10. CardsOK'
  BY <1>7, <1>8, <1>9 DEF CardsOK, Runs, MaybeRun, NoRun
<1>11. RecordsOK'
  <2>1. UNCHANGED disk /\ \A i \in Ids : disk[i].meta.run \in MaybeRun
    BY DEF Recover, TypeOK, StorageOK, Dir, Meta
  <2>2. \A i \in Ids : disk'[i].meta.run <= created'
    BY <1>2, <2>1 DEF Identity, RecordsOK, MaybeRun
  <2>3. ASSUME NEW i \in Ids, NEW r \in Runs, disk'[i].meta.run = r
        PROVE  job'[r].id = i
    <3>1. i \in Found \ Bare
      BY <2>1, <2>3 DEF Identity, RecordsOK, Found, Bare, NoMeta, Runs, NoRun
    <3> QED BY <1>5, <1>7, <2>1, <2>3, <3>1
  <2> QED BY <2>1, <2>2, <2>3 DEF Identity, RecordsOK
<1>12. SnapshotsOK'
  BY <1>2 DEF Recover, saveVars, Identity, SnapshotsOK, Runs
<1> QED BY <1>10, <1>11, <1>12 DEF Identity

-----------------------------------------------------------------------------
(* The other steps. *)

\* Requests that create nothing rename nothing.
LEMMA RequestIdentity ==
  ASSUME TypeOK, Identity, NEW c \in Clients,
         \/ \E i \in Ids : \/ SubmitAnswered(c, i) \/ SubmitWaits(c, i) \/ SubmitRequeues(c, i)
                           \/ Retry(c, i) \/ Delete(c, i)
         \/ List(c) \/ Downgrade(c) \/ WaitTimesOut(c)
         \/ \E r \in Runs : StatFinds(c, r) \/ StatMisses(c, r)
  PROVE  Identity'
<1>1. UNCHANGED <<jobs, created, disk, snap>>
  BY DEF SubmitAnswered, SubmitWaits, SubmitRequeues, Retry, Delete, List, Downgrade,
         WaitTimesOut, StatFinds, StatMisses, ownFrame, regVars, saveVars
<1>2. CASE UNCHANGED job
  BY <1>1, <1>2, QuietIdentity DEF SameIds
<1>3. ASSUME NEW r, requeueLocked(r)
      PROVE  Identity'
  BY <1>1, <1>3, QuietIdentity DEF SameIds, requeueLocked, TypeOK, RegistryOK
<1>4. CASE Downgrade(c)
  BY <1>1, <1>2, <1>4, QuietIdentity DEF Downgrade, SameIds, TypeOK, RegistryOK, Job
<1> QED BY <1>2, <1>3, <1>4 DEF SubmitAnswered, SubmitWaits, SubmitRequeues, Retry, Delete,
       List, WaitTimesOut, StatFinds, StatMisses, ownFrame, regVars

\* The download worker, Close and Boot rename nothing.
LEMMA WorkerIdentity ==
  ASSUME TypeOK, Identity,
         \/ \E p \in Procs : Finalize(p) \/ KeepCard(p) \/ SkipSave(p)
         \/ \E w \in Workers : Sleep(w) \/ ExitWorker(w) \/ Mark(w)
         \/ \E r \in Runs : PickDownload(r) \/ CloseSaves(r)
         \/ StartDownload \/ EndDownload \/ ReleaseDownload
         \/ \E stage \in InFlight : Report(stage)
         \/ CheckContext \/ PublishNothing \/ PipelineFails \/ PipelineCanceled
         \/ Close \/ ConvertInterrupted \/ CloseReturns \/ Boot
  PROVE  Identity'
<1>1. UNCHANGED <<jobs, created, disk, snap>>
  BY DEF Finalize, KeepCard, SkipSave, Sleep, ExitWorker, Mark, PickDownload, CloseSaves,
         StartDownload, EndDownload, ReleaseDownload, Report, CheckContext, PublishNothing,
         PipelineFails, PipelineCanceled, Close, ConvertInterrupted, CloseReturns, Boot,
         Moves, pcFrame, ownFrame, jobFrame, regVars, saveVars
<1>2. ASSUME UNCHANGED job
      PROVE  SameIds
  BY <1>2 DEF SameIds
<1>3. ASSUME NEW p \in Procs, KeepCard(p)
      PROVE  SameIds
  BY <1>2, <1>3 DEF KeepCard, SameIds, TypeOK, RegistryOK, Job
<1>4. ASSUME NEW w \in Workers, Mark(w)
      PROVE  SameIds
  BY <1>2, <1>4 DEF Mark, SameIds, TypeOK, RegistryOK, Job
<1>5. ASSUME StartDownload PROVE SameIds
  BY <1>5 DEF StartDownload, SameIds, TypeOK, RegistryOK, Job
<1>6. ASSUME EndDownload PROVE SameIds
  <2>1. ASSUME NEW status, NEW titled,
               job' = [job EXCEPT ![own[dw]].status = status, ![own[dw]].titled = titled]
        PROVE  SameIds
    BY <2>1 DEF SameIds, TypeOK, RegistryOK, Job
  <2>2. \/ UNCHANGED job
        \/ \E status : \E known \in BOOLEAN :
             job' = [job EXCEPT ![own[dw]].status = status, ![own[dw]].titled = @ \/ known]
    BY <1>6, Zenon DEF EndDownload
  <2>3. ASSUME NEW status, NEW known \in BOOLEAN,
               job' = [job EXCEPT ![own[dw]].status = status, ![own[dw]].titled = @ \/ known]
        PROVE  SameIds
    BY <2>1, <2>3, Zenon
  <2> QED BY <1>2, <2>2, <2>3
<1>7. ASSUME NEW stage \in InFlight, Report(stage)
      PROVE  SameIds
  BY <1>2, <1>7 DEF Report, SameIds, TypeOK, RegistryOK, Job
<1>8. ASSUME ConvertInterrupted PROVE SameIds
  BY <1>8 DEF ConvertInterrupted, SameIds, TypeOK, RegistryOK, Job
<1>9. UNCHANGED job \/ SameIds
  BY <1>3, <1>4, <1>5, <1>6, <1>7, <1>8
  DEF Finalize, SkipSave, Sleep, ExitWorker, PickDownload, CloseSaves, ReleaseDownload,
      CheckContext, PublishNothing, PipelineFails, PipelineCanceled, Close, CloseReturns,
      Boot, Moves, pcFrame, ownFrame, regVars
<1> QED BY <1>1, <1>2, <1>9, QuietIdentity

\* Title workers rename nothing.
LEMMA TitleIdentity ==
  ASSUME TypeOK, Identity, NEW t \in TitleWorkers,
         \/ \E r \in Runs : PickTitle(t, r)
         \/ \E label \in {"fetched", "rejected", "erred"} : FetchReturns(t, label)
         \/ StartFetch(t) \/ ApplyTitle(t) \/ ApplyRejection(t) \/ AfterError(t)
         \/ Pause(t) \/ BackoffCancelled(t) \/ BackoffElapses(t) \/ GiveUp(t)
         \/ ReleaseFetch(t)
  PROVE  Identity'
<1>1. UNCHANGED <<jobs, created, disk, snap>>
  BY DEF PickTitle, FetchReturns, StartFetch, ApplyTitle, ApplyRejection, AfterError, Pause,
         BackoffCancelled, BackoffElapses, GiveUp, ReleaseFetch, Moves, pcFrame, jobFrame,
         regVars, saveVars
<1>2. ASSUME UNCHANGED job
      PROVE  SameIds
  BY <1>2 DEF SameIds
<1>3. ASSUME ApplyTitle(t) PROVE SameIds
  <2>1. ASSUME NEW titled, job' = [job EXCEPT ![own[t]].titled = titled]
        PROVE  SameIds
    BY <2>1 DEF SameIds, TypeOK, RegistryOK, Job
  <2>2. \/ UNCHANGED job
        \/ \E titled \in BOOLEAN : job' = [job EXCEPT ![own[t]].titled = titled]
    BY <1>3, Zenon DEF ApplyTitle
  <2> QED BY <1>2, <2>1, <2>2, Zenon
<1>4. ASSUME ApplyRejection(t) PROVE SameIds
  BY <1>2, <1>4 DEF ApplyRejection, SameIds, TypeOK, RegistryOK, Job
<1>5. ASSUME GiveUp(t) PROVE SameIds
  BY <1>2, <1>5 DEF GiveUp, SameIds, TypeOK, RegistryOK, Job
<1>6. UNCHANGED job \/ SameIds
  BY <1>3, <1>4, <1>5
  DEF PickTitle, FetchReturns, StartFetch, AfterError, Pause, BackoffCancelled,
      BackoffElapses, ReleaseFetch, Moves, pcFrame, regVars
<1> QED BY <1>1, <1>2, <1>6, QuietIdentity

\* Identity is preserved by every step.
LEMMA IdentityNext ==
  ASSUME TypeOK, Identity, Next
  PROVE  Identity'
<1>1. Workers \union Clients \subseteq Procs /\ Workers \union {closer} \subseteq Procs
  BY DEF Procs
<1>2. ASSUME NEW p \in Procs, Removal(p) \/ Saves(p)
      PROVE  Identity'
  <2>1. CASE EndSave(p)
    <3>1. own[p] \in Runs
      BY <2>1 DEF TypeOK, ProcsOK, FreeLabels, EndSave
    <3> QED BY <2>1, <3>1, EndIdentity DEF EndSave, regVars
  <2> QED BY <1>2, <2>1, UnregisterIdentity, BeginIdentity, FilesIdentity, WorkerIdentity
          DEF Removal, Saves
<1>3. ASSUME NEW r \in Runs, AsyncSave(r)
      PROVE  Identity'
  BY <1>3, BeginIdentity, EndIdentity DEF AsyncSave, EndAsyncSave, regVars
<1>4. CASE Pipeline
  BY <1>4, FilesIdentity, WorkerIdentity DEF Pipeline
<1> QED BY <1>1, <1>2, <1>3, <1>4, StepCases, SubmitIdentity, RequestIdentity, FilesIdentity,
        WorkerIdentity, TitleIdentity, PowerOffIdentity, RecoverIdentity

-----------------------------------------------------------------------------
\* In every reachable state a card is registered under its own video, no two
\* directories hold the record of one card, and every save in progress writes
\* the record of the card whose saveMu it holds.
THEOREM IdentityCorrect == Spec => []Identity
<1>1. Init => Identity
  BY NamesAssumption
  DEF Init, Identity, CardsOK, RecordsOK, SnapshotsOK, NoJobs, NoObjects, Uncreated, NoSnapshots,
      NoMeta, NoDir, NoRun
<1>2. TypeOK /\ Identity /\ [Next]_vars => Identity'
  <2> SUFFICES ASSUME TypeOK, Identity, [Next]_vars PROVE Identity'
    OBVIOUS
  <2>1. CASE UNCHANGED vars
    BY <2>1, QuietIdentity DEF SameIds, vars, regVars, saveVars
  <2> QED BY <2>1, IdentityNext
<1> QED BY <1>1, <1>2, TypeCorrect, PTL DEF Spec

-----------------------------------------------------------------------------
(* Ownership. *)

BusyLabels == {"picked", "saveStart", "writeStart", "save", "write", "mark", "prepare",
               "prepared", "downloading", "processing", "verifying", "publish",
               "succeeded", "errored", "canceled", "release", "fetch", "fetched",
               "rejected", "erred", "pause", "backoff", "giveUp"}
AwaitLabels  == {"awaitSubmit", "awaitDelete"}
WorkerLabels == {"idle", "waiting", "exited"} \union BusyLabels \union FinalizeLabels
ClientLabels == {"idle", "resubmit", "listing", "downgrade"} \union AwaitLabels
                \union FinalizeLabels
CloserLabels == {"idle", "draining", "saving", "save", "write", "closed"}

\* Every kind of goroutine has its own labels.
KindsOK == /\ \A w \in Workers : pc[w] \in WorkerLabels
           /\ \A c \in Clients : pc[c] \in ClientLabels
           /\ pc[closer] \in CloserLabels

Busy(w)       == pc[w] \in BusyLabels
Finalizing(p) == pc[p] \in FinalizeLabels

\* A worker at work holds the flag of its job, each title worker another's.
ClaimsOK == /\ Busy(dw) => own[dw] \in active
            /\ \A t \in TitleWorkers : Busy(t) => own[t] \in fetching
            /\ \A t, u \in TitleWorkers : Busy(t) /\ Busy(u) /\ own[t] = own[u] => t = u

\* Jobs whose removal is somebody's business now.
Orphans == (Registry \intersect deleting) \ (active \union fetching)

FinalizersOK ==
  /\ \A p \in Procs : Finalizing(p) => own[p] \in Orphans
  /\ \A p, q \in Procs : Finalizing(p) /\ Finalizing(q) /\ own[p] = own[q] => p = q

OrphansOK == \A r \in Orphans : \E p \in Procs : Finalizing(p) /\ own[p] = r

MarksOK == /\ \A r \in deleting : r <= created
           /\ phase # "serving" => Registry = {} /\ deleting = {}

Ownership == /\ KindsOK /\ ClaimsOK /\ OwnedIsRegistered /\ FinalizersOK /\ OrphansOK
             /\ WaitersHaveAnAttempt /\ MarksOK

-----------------------------------------------------------------------------
\* The kinds of goroutines are different.
LEMMA Kinds ==
  /\ dw \in Workers /\ TitleWorkers \subseteq Workers /\ Workers \subseteq Procs
  /\ Clients \subseteq Procs /\ closer \in Procs /\ dw \notin TitleWorkers
  /\ Workers \intersect Clients = {} /\ closer \notin Workers /\ closer \notin Clients
  BY NamesAssumption DEF Workers, Procs, dw, closer

\* What every step of one goroutine leaves alone.
Still == UNCHANGED <<phase, jobs, created, active, fetching, deleting>>

\* The registry may grow by jobs that are not marked.
Grows == /\ UNCHANGED <<active, fetching, deleting>>
         /\ Registry \subseteq Registry' /\ Registry' \intersect deleting \subseteq Registry
         /\ created <= created'
         /\ phase' # "serving" => phase # "serving" /\ Registry' = Registry

\* A registry that stays as it is grows by nothing.
LEMMA StillGrows ==
  ASSUME TypeOK, Still PROVE Grows
  BY DEF Still, Grows, Registry, TypeOK, RegistryOK, MaybeRun

\* A step in which nobody takes a job, or starts or ends a removal.
LEMMA QuietOwnership ==
  ASSUME TypeOK, TypeOK', Ownership, Grows, KindsOK',
         \A w \in Workers : pc'[w] \in BusyLabels => Busy(w) /\ own'[w] = own[w],
         \A p \in Procs : pc'[p] \in FinalizeLabels <=> Finalizing(p),
         \A p \in Procs : Finalizing(p) => own'[p] = own[p],
         \A c \in Clients : pc'[c] \in AwaitLabels => own'[c] \in Registry \intersect deleting
  PROVE  Ownership'
<1>1. ClaimsOK'
  BY Kinds DEF Ownership, ClaimsOK, Busy, Grows
<1>2. OwnedIsRegistered'
  BY DEF Ownership, OwnedIsRegistered, Grows
<1>3. Orphans' = Orphans
  BY DEF Orphans, Grows
<1>4. FinalizersOK'
  BY <1>3 DEF Ownership, FinalizersOK, Finalizing
<1>5. OrphansOK'
  BY <1>3 DEF Ownership, OrphansOK, Finalizing
<1>6. WaitersHaveAnAttempt'
  BY DEF WaitersHaveAnAttempt, AwaitLabels, Grows
<1>7. MarksOK'
  BY DEF Ownership, MarksOK, Grows, TypeOK, RegistryOK, FlagsOK, MaybeRun, Runs
<1> QED BY <1>1, <1>2, <1>4, <1>5, <1>6, <1>7 DEF Ownership

\* One goroutine moves on, perhaps waking the sleeping workers.
LEMMA Moved ==
  ASSUME TypeOK, NEW p \in Procs, NEW to, Goto(p, to) \/ WakeGoto(p, to)
  PROVE  /\ pc'[p] = to
         /\ \A q \in Procs \ {p} : pc'[q] = pc[q] \/ (pc[q] = "waiting" /\ pc'[q] = "idle")
  BY DEF TypeOK, ProcsOK, Goto, WakeGoto, Woken

\* ... and the others keep their labels, but for those woken.
LEMMA OthersKept ==
  ASSUME TypeOK, KindsOK, NEW p \in Procs, NEW to, Goto(p, to) \/ WakeGoto(p, to)
  PROVE  /\ \A q \in Procs \ {p} : pc'[q] \in BusyLabels \union FinalizeLabels \union AwaitLabels
                                     => pc'[q] = pc[q]
         /\ \A q \in Procs \ {p} : pc[q] \in FinalizeLabels => pc'[q] = pc[q]
         /\ \A w \in Workers \ {p} : pc'[w] \in WorkerLabels
         /\ \A c \in Clients \ {p} : pc'[c] \in ClientLabels
         /\ closer # p => pc'[closer] \in CloserLabels
<1>1. \A q \in Procs \ {p} : pc'[q] = pc[q] \/ (pc[q] = "waiting" /\ pc'[q] = "idle")
  BY Moved
<1>2. "idle" \notin BusyLabels \union FinalizeLabels \union AwaitLabels
      /\ "waiting" \notin FinalizeLabels
  BY DEF BusyLabels, FinalizeLabels, AwaitLabels
<1>3. "idle" \in WorkerLabels /\ "idle" \in ClientLabels /\ "idle" \in CloserLabels
  BY DEF WorkerLabels, ClientLabels, CloserLabels
<1> QED BY <1>1, <1>2, <1>3, Kinds DEF KindsOK

\* One goroutine moves on within its kind of labels, and takes no job.
LEMMA OneMoves ==
  ASSUME TypeOK, TypeOK', Ownership, Grows,
         NEW p \in Procs, NEW to, Goto(p, to) \/ WakeGoto(p, to),
         \A q \in Procs \ {p} : own'[q] = own[q],
         p \in Workers => to \in WorkerLabels,
         p \in Clients => to \in ClientLabels,
         p = closer => to \in CloserLabels,
         p \in Workers /\ to \in BusyLabels => Busy(p) /\ own'[p] = own[p],
         to \in FinalizeLabels <=> Finalizing(p),
         to \in FinalizeLabels => own'[p] = own[p],
         to \in AwaitLabels => own'[p] \in Registry \intersect deleting
  PROVE  Ownership'
<1>1. pc'[p] = to
  BY Moved
<1>2. KindsOK'
  BY <1>1, OthersKept DEF Ownership, KindsOK
<1>3. \A w \in Workers : pc'[w] \in BusyLabels => Busy(w) /\ own'[w] = own[w]
  BY <1>1, OthersKept, Kinds DEF Ownership, Busy
<1>4. \A q \in Procs : pc'[q] \in FinalizeLabels <=> Finalizing(q)
  BY <1>1, OthersKept DEF Ownership, Finalizing
<1>5. \A q \in Procs : Finalizing(q) => own'[q] = own[q]
  BY <1>1
<1>6. \A c \in Clients : pc'[c] \in AwaitLabels => own'[c] \in Registry \intersect deleting
  <2>1. \A c \in Clients \ {p} : pc'[c] \in AwaitLabels => pc'[c] = pc[c] /\ own'[c] = own[c]
    BY OthersKept, Kinds DEF Ownership
  <2> QED BY <1>1, <2>1 DEF Ownership, WaitersHaveAnAttempt, AwaitLabels
<1> QED BY <1>2, <1>3, <1>4, <1>5, <1>6, QuietOwnership

-----------------------------------------------------------------------------
(* Requests. *)

\* Requests that mark nothing and wait for nothing.
LEMMA RequestOwnership ==
  ASSUME TypeOK, TypeOK', Ownership, NEW c \in Clients,
         \/ \E i \in Ids : \/ SubmitAnswered(c, i) \/ SubmitRequeues(c, i)
                           \/ SubmitUnsaved(c, i) \/ Retry(c, i)
         \/ List(c) \/ Downgrade(c) \/ WaitTimesOut(c)
         \/ \E r \in Runs : StatFinds(c, r) \/ StatMisses(c, r)
  PROVE  Ownership'
<1>1. Grows
  <2>1. UNCHANGED <<phase, jobs, active, fetching, deleting>>
    BY DEF SubmitAnswered, SubmitRequeues, SubmitUnsaved, Retry, List, Downgrade, WaitTimesOut,
           StatFinds, StatMisses, ownFrame, lifeVars, regVars, flagVars
  <2>2. created' = created \/ created' = created + 1
    BY DEF SubmitAnswered, SubmitRequeues, SubmitUnsaved, Retry, List, Downgrade, WaitTimesOut,
           StatFinds, StatMisses, ownFrame, regVars
  <2> QED BY <2>1, <2>2, BoundsAssumption DEF Grows, Registry, TypeOK, RegistryOK, MaybeRun
<1>2. \E to \in {"idle", "listing", "downgrade"} : Goto(c, to) \/ WakeGoto(c, to)
  BY DEF SubmitAnswered, SubmitRequeues, SubmitUnsaved, Retry, List, Downgrade, WaitTimesOut,
         StatFinds, StatMisses, ListNext
<1>3. pc[c] \notin FinalizeLabels
  BY DEF SubmitAnswered, SubmitRequeues, SubmitUnsaved, Retry, List, Downgrade, WaitTimesOut,
         StatFinds, StatMisses, Asks, FinalizeLabels
<1>4. \A q \in Procs \ {c} : own'[q] = own[q]
  BY DEF SubmitAnswered, SubmitRequeues, SubmitUnsaved, Retry, List, Downgrade, WaitTimesOut,
         StatFinds, StatMisses, Unowned, TypeOK, ProcsOK
<1>5. {"idle", "listing", "downgrade"} \subseteq ClientLabels
      /\ \A to \in {"idle", "listing", "downgrade"} :
           to \notin FinalizeLabels \union AwaitLabels
  BY DEF ClientLabels, FinalizeLabels, AwaitLabels
<1> QED BY <1>1, <1>2, <1>3, <1>4, <1>5, Kinds, OneMoves DEF Finalizing

\* Submit waits for a removal that is in flight.
LEMMA SubmitWaitsOwnership ==
  ASSUME TypeOK, TypeOK', Ownership, NEW c \in Clients, NEW i \in Ids, SubmitWaits(c, i)
  PROVE  Ownership'
<1>1. Grows
  BY StillGrows DEF SubmitWaits, ownFrame, lifeVars, regVars, flagVars, Still
<1>2. own' = [own EXCEPT ![c] = jobs[i]] /\ jobs[i] \in Registry \intersect deleting
  BY DEF SubmitWaits, BeingDeleted, Registry, TypeOK, FlagsOK, Runs, NoRun
<1>3. pc[c] \notin FinalizeLabels /\ Goto(c, "awaitSubmit")
  BY DEF SubmitWaits, Asks, FinalizeLabels
<1>4. "awaitSubmit" \in ClientLabels /\ "awaitSubmit" \notin FinalizeLabels
  BY DEF ClientLabels, AwaitLabels, FinalizeLabels
<1>5. own'[c] = jobs[i] /\ \A q \in Procs \ {c} : own'[q] = own[q]
  BY <1>2, Kinds DEF TypeOK, ProcsOK
<1> QED BY <1>1, <1>2, <1>3, <1>4, <1>5, Kinds, OneMoves DEF Finalizing

\* A new card is a job object nobody has marked.
LEMMA SubmitNewOwnership ==
  ASSUME TypeOK, TypeOK', Ownership, NEW c \in Clients, NEW i \in Ids, SubmitNew(c, i)
  PROVE  Ownership'
<1>1. jobs' = [jobs EXCEPT ![i] = created + 1] /\ jobs[i] = NoRun
      /\ created' = created + 1 /\ created \in Nat
  BY BoundsAssumption DEF SubmitNew, Admissible, TypeOK, RegistryOK, MaybeRun
<1>2. Registry' = Registry \union {created + 1}
  BY <1>1 DEF Registry, TypeOK, RegistryOK, NoRun
<1>3. created + 1 \notin deleting
  BY <1>1 DEF Ownership, MarksOK
<1>4. Grows
  BY <1>1, <1>2, <1>3 DEF Grows, SubmitNew, Asks, lifeVars, flagVars
<1>5. pc[c] \notin FinalizeLabels /\ WakeGoto(c, "idle")
  BY DEF SubmitNew, Asks, FinalizeLabels
<1>6. "idle" \in ClientLabels /\ "idle" \notin FinalizeLabels \union AwaitLabels
  BY DEF ClientLabels, AwaitLabels, FinalizeLabels
<1>7. \A q \in Procs \ {c} : own'[q] = own[q]
  BY DEF SubmitNew, Unowned, TypeOK, ProcsOK
<1> QED BY <1>4, <1>5, <1>6, <1>7, Kinds, OneMoves DEF Finalizing

\* A registered job object was created, for the video it is registered under.
LEMMA Registered ==
  ASSUME TypeOK, Identity, NEW r \in Registry
  PROVE  r \in Runs /\ r <= created /\ job[r].id \in Ids /\ jobs[job[r].id] = r
  BY RegistryTyped, Bounded DEF TypeOK, Identity, Current

\* Delete marks a job; if no worker owns it, and it was not marked already,
\* Delete becomes the finalizer.
LEMMA DeleteOwnership ==
  ASSUME TypeOK, TypeOK', Identity, Ownership, NEW c \in Clients, NEW i \in Ids, Delete(c, i)
  PROVE  Ownership'
<1> DEFINE r == jobs[i]
<1>1. /\ phase = "serving" /\ pc[c] = "idle" /\ r \in Registry
      /\ own' = [own EXCEPT ![c] = r] /\ deleting' = deleting \union {r}
      /\ UNCHANGED <<phase, jobs, created, active, fetching>>
  BY DEF Delete, Asks, Registry, lifeVars, regVars
<1>2. own'[c] = r /\ (\A q \in Procs \ {c} : own'[q] = own[q]) /\ Registry' = Registry
  BY <1>1, Kinds DEF TypeOK, ProcsOK, Registry
<1>3. CASE r \in deleting \/ Running(r)
  <2>1. Goto(c, "awaitDelete")
    BY <1>3 DEF Delete
  <2>2. pc' = [pc EXCEPT ![c] = "awaitDelete"]
    BY <2>1 DEF Goto
  <2>3. pc'[c] = "awaitDelete" /\ \A q \in Procs \ {c} : pc'[q] = pc[q]
    BY <2>2, Kinds DEF TypeOK, ProcsOK
  <2>4. "awaitDelete" \in ClientLabels \ FinalizeLabels /\ "idle" \notin FinalizeLabels
    BY DEF ClientLabels, AwaitLabels, FinalizeLabels
  <2>5. Orphans' = Orphans
    BY <1>1, <1>2, <1>3 DEF Orphans, Running
  <2>6. KindsOK' /\ ClaimsOK'
    BY <1>1, <1>2, <2>3, <2>4, Kinds DEF Ownership, KindsOK, ClaimsOK, Busy
  <2>7. FinalizersOK' /\ OrphansOK'
    BY <1>1, <1>2, <2>3, <2>4, <2>5 DEF Ownership, FinalizersOK, OrphansOK, Finalizing
  <2>8. OwnedIsRegistered' /\ WaitersHaveAnAttempt'
    BY <1>1, <1>2, <2>3, Kinds DEF Ownership, OwnedIsRegistered, WaitersHaveAnAttempt
  <2>9. MarksOK'
    BY <1>1, <1>2, Registered DEF Ownership, MarksOK
  <2> QED BY <2>6, <2>7, <2>8, <2>9 DEF Ownership
<1>4. CASE ~(r \in deleting \/ Running(r))
  <2>1. Goto(c, "finalize")
    BY <1>4 DEF Delete
  <2>2. pc' = [pc EXCEPT ![c] = "finalize"]
    BY <2>1 DEF Goto
  <2>3. pc'[c] = "finalize" /\ \A q \in Procs \ {c} : pc'[q] = pc[q]
    BY <2>2, Kinds DEF TypeOK, ProcsOK
  <2>4. "finalize" \in ClientLabels /\ "finalize" \in FinalizeLabels
        /\ "finalize" \notin AwaitLabels /\ "idle" \notin FinalizeLabels
    BY DEF ClientLabels, AwaitLabels, FinalizeLabels
  <2>5. Orphans' = Orphans \union {r} /\ r \notin Orphans
    BY <1>1, <1>2, <1>4 DEF Orphans, Running
  <2>6. KindsOK' /\ ClaimsOK'
    BY <1>1, <1>2, <2>3, <2>4, Kinds DEF Ownership, KindsOK, ClaimsOK, Busy
  <2>7. FinalizersOK' /\ OrphansOK'
    BY <1>1, <1>2, <2>3, <2>4, <2>5, Kinds DEF Ownership, FinalizersOK, OrphansOK, Finalizing
  <2>8. OwnedIsRegistered' /\ WaitersHaveAnAttempt'
    BY <1>1, <1>2, <2>3, Kinds DEF Ownership, OwnedIsRegistered, WaitersHaveAnAttempt
  <2>9. MarksOK'
    BY <1>1, <1>2, Registered DEF Ownership, MarksOK
  <2> QED BY <2>6, <2>7, <2>8, <2>9 DEF Ownership
<1> QED BY <1>3, <1>4

-----------------------------------------------------------------------------
(* Saves, and the workers' steps on the job they own. *)

\* Nobody moves.
LEMMA StillOwnership ==
  ASSUME TypeOK, TypeOK', Ownership, Still, UNCHANGED <<pc, own>>
  PROVE  Ownership'
<1>1. Registry' = Registry /\ Orphans' = Orphans
  BY DEF Still, Registry, Orphans
<1> QED BY <1>1 DEF Still, Ownership, KindsOK, ClaimsOK, Busy, OwnedIsRegistered, FinalizersOK,
            OrphansOK, Finalizing, WaitersHaveAnAttempt, MarksOK

\* saveCurrent, called by a worker that owns the job, or by Close.
LEMMA SaveOwnership ==
  ASSUME TypeOK, TypeOK', Ownership, NEW p \in Workers \union {closer}, Saves(p)
  PROVE  Ownership'
<1>1. p \in Procs /\ p \notin Clients
  BY Kinds
<1>2. Still /\ UNCHANGED own
  BY DEF Saves, BeginSave, SkipSave, EndSave, Moves, pcFrame, lifeVars, regVars, flagVars, Still
<1>3. pc[p] \in {"saveStart", "save", "writeStart", "write"}
  BY DEF Saves, BeginSave, SkipSave, EndSave, Moves
<1>4. \E to \in {"write", "writeStart", "prepare", "saving", "release", "mark"} :
        /\ Goto(p, to)
        /\ p = closer => to \in {"write", "saving"}
        /\ p # closer => to # "saving"
  <2>1. p = closer => pc[p] \in {"save", "write"}
    BY <1>3 DEF Ownership, KindsOK, CloserLabels
  <2>2. CASE BeginSave(p)
    BY <2>1, <2>2 DEF BeginSave
  <2>3. CASE SkipSave(p)
    BY <2>1, <2>3 DEF SkipSave, Moves, Saved
  <2>4. CASE EndSave(p)
    BY <2>1, <2>4 DEF EndSave, Saved, Unsaved
  <2> QED BY <2>2, <2>3, <2>4 DEF Saves
<1>5. /\ {"saveStart", "save", "writeStart", "write", "prepare", "release", "mark"}
           \subseteq BusyLabels
      /\ BusyLabels \subseteq WorkerLabels /\ {"write", "saving"} \subseteq CloserLabels
      /\ \A to \in {"saveStart", "save", "writeStart", "write", "prepare", "saving",
                    "release", "mark"} : to \notin FinalizeLabels \union AwaitLabels
  BY DEF BusyLabels, WorkerLabels, CloserLabels, FinalizeLabels, AwaitLabels
<1>6. PICK to \in {"write", "writeStart", "prepare", "saving", "release", "mark"} :
        /\ Goto(p, to)
        /\ p = closer => to \in {"write", "saving"}
        /\ p # closer => to # "saving"
  BY <1>4
<1>7. p \in Workers => to \in BusyLabels /\ Busy(p)
  BY <1>3, <1>5, <1>6, Kinds DEF Busy
<1>8. ~Finalizing(p)
  BY <1>3, <1>5 DEF Finalizing
<1>9. Grows
  BY <1>2, StillGrows
<1> QED BY <1>1, <1>2, <1>5, <1>6, <1>7, <1>8, <1>9, OneMoves

\* A worker goes on with the job it owns.
LEMMA WorksOn ==
  ASSUME TypeOK, TypeOK', Ownership, Still, UNCHANGED own, NEW w \in Workers,
         pc[w] \in BusyLabels, NEW to \in BusyLabels, Goto(w, to)
  PROVE  Ownership'
<1>1. \A l \in BusyLabels : l \in WorkerLabels /\ l \notin FinalizeLabels \union AwaitLabels
  BY DEF BusyLabels, WorkerLabels, FinalizeLabels, AwaitLabels
<1>2. Grows
  BY StillGrows
<1> QED BY <1>1, <1>2, Kinds, OneMoves DEF Busy, Finalizing

\* The download worker works on the job it owns.
LEMMA PipelineOwnership ==
  ASSUME TypeOK, TypeOK', Ownership, Pipeline \/ StartDownload \/ EndDownload
  PROVE  Ownership'
<1>1. Still /\ UNCHANGED own
  BY DEF Pipeline, StartDownload, EndDownload, MakeWork, Report, CheckContext, Publish,
         PublishNothing, PipelineFails, PipelineCanceled, Moves, pcFrame, jobFrame, lifeVars,
         regVars, flagVars, Still
<1>2. pc[dw] \in BusyLabels
  BY DEF Pipeline, StartDownload, EndDownload, MakeWork, Report, CheckContext, Publish,
         PublishNothing, PipelineFails, PipelineCanceled, PipelineLabels, Moves, NextStages,
         BusyLabels
<1>3. \E to \in {"saveStart", "release", "save", "prepared", "publish", "succeeded",
                 "errored", "canceled"} \union InFlight : Goto(dw, to)
  BY DEF Pipeline, StartDownload, EndDownload, MakeWork, Report, CheckContext, Publish,
         PublishNothing, PipelineFails, PipelineCanceled, Moves
<1>4. {"saveStart", "release", "save", "prepared", "publish", "succeeded", "errored",
       "canceled"} \union InFlight \subseteq BusyLabels
  BY DEF BusyLabels, InFlight
<1> QED BY <1>1, <1>2, <1>3, <1>4, Kinds, WorksOn

\* A title worker works on the job it owns.
LEMMA FetchOwnership ==
  ASSUME TypeOK, TypeOK', Ownership, NEW t \in TitleWorkers,
         \/ \E label \in {"fetched", "rejected", "erred"} : FetchReturns(t, label)
         \/ StartFetch(t) \/ ApplyTitle(t) \/ ApplyRejection(t) \/ AfterError(t)
         \/ Pause(t) \/ BackoffCancelled(t) \/ BackoffElapses(t) \/ GiveUp(t)
  PROVE  Ownership'
<1>1. Still /\ UNCHANGED own
  BY DEF FetchReturns, StartFetch, ApplyTitle, ApplyRejection, AfterError, Pause,
         BackoffCancelled, BackoffElapses, GiveUp, Moves, pcFrame, jobFrame, lifeVars,
         regVars, flagVars, Still
<1>2. pc[t] \in BusyLabels
  BY DEF FetchReturns, StartFetch, ApplyTitle, ApplyRejection, AfterError, Pause,
         BackoffCancelled, BackoffElapses, GiveUp, Moves, BusyLabels
<1>3. \E to \in {"fetch", "fetched", "rejected", "erred", "pause", "backoff", "giveUp",
                 "save", "release"} : Goto(t, to)
  BY DEF FetchReturns, StartFetch, ApplyTitle, ApplyRejection, AfterError, Pause,
         BackoffCancelled, BackoffElapses, GiveUp, Moves
<1>4. {"fetch", "fetched", "rejected", "erred", "pause", "backoff", "giveUp", "save",
       "release"} \subseteq BusyLabels
  BY DEF BusyLabels
<1> QED BY <1>1, <1>2, <1>3, <1>4, Kinds, WorksOn

\* Workers without a job sleep or leave; Mark is a step of work.
LEMMA RestOwnership ==
  ASSUME TypeOK, TypeOK', Ownership, NEW w \in Workers, Sleep(w) \/ ExitWorker(w) \/ Mark(w)
  PROVE  Ownership'
<1>1. Still /\ UNCHANGED own
  BY DEF Sleep, ExitWorker, Mark, Moves, pcFrame, jobFrame, lifeVars, regVars, flagVars, Still
<1>2. CASE Mark(w)
  BY <1>1, <1>2, WorksOn DEF Mark, BusyLabels
<1>3. CASE Sleep(w) \/ ExitWorker(w)
  <2>1. pc[w] = "idle" /\ \E to \in {"waiting", "exited"} : Goto(w, to)
    BY <1>3 DEF Sleep, ExitWorker, Moves
  <2>2. /\ \A to \in {"waiting", "exited"} : to \in WorkerLabels
             /\ to \notin FinalizeLabels \union AwaitLabels \union BusyLabels
        /\ "idle" \notin FinalizeLabels
    BY DEF WorkerLabels, FinalizeLabels, AwaitLabels, BusyLabels
  <2>3. Grows
    BY <1>1, StillGrows
  <2> QED BY <1>1, <2>1, <2>2, <2>3, Kinds, OneMoves DEF Finalizing
<1> QED BY <1>2, <1>3

-----------------------------------------------------------------------------
(* Taking and letting go of a job. *)

\* A job is picked that no worker of the kind has, and that is not marked.
LEMMA PickOwnership ==
  ASSUME TypeOK, TypeOK', Ownership, NEW w \in Workers, NEW r \in Registry \ deleting,
         pc[w] = "idle", Goto(w, "picked"), own' = [own EXCEPT ![w] = r],
         UNCHANGED <<phase, jobs, created, deleting>>,
         \/ w = dw /\ active' = active \union {r} /\ UNCHANGED fetching
         \/ w \in TitleWorkers /\ r \notin fetching /\ fetching' = fetching \union {r}
            /\ UNCHANGED active
  PROVE  Ownership'
<1>1. /\ pc'[w] = "picked" /\ \A q \in Procs \ {w} : pc'[q] = pc[q]
      /\ own'[w] = r /\ \A q \in Procs \ {w} : own'[q] = own[q]
  BY Kinds DEF TypeOK, ProcsOK, Goto
<1>2. Registry' = Registry /\ Orphans' = Orphans
  BY DEF Registry, Orphans
<1>3. "picked" \in BusyLabels /\ "picked" \in WorkerLabels
      /\ "picked" \notin FinalizeLabels /\ "idle" \notin FinalizeLabels
  BY DEF BusyLabels, WorkerLabels, FinalizeLabels
<1>4. KindsOK'
  BY <1>1, <1>3, Kinds DEF Ownership, KindsOK
<1>5. ClaimsOK'
  BY <1>1, <1>3, Kinds DEF Ownership, ClaimsOK, Busy
<1>6. FinalizersOK' /\ OrphansOK'
  BY <1>1, <1>2, <1>3, Kinds DEF Ownership, FinalizersOK, OrphansOK, Finalizing
<1>7. OwnedIsRegistered' /\ WaitersHaveAnAttempt' /\ MarksOK'
  BY <1>1, <1>2, Kinds DEF Ownership, OwnedIsRegistered, WaitersHaveAnAttempt, MarksOK
<1> QED BY <1>4, <1>5, <1>6, <1>7 DEF Ownership

\* The owner that lets go last finishes a removal.
LEMMA ReleaseOwnership ==
  ASSUME TypeOK, TypeOK', Ownership, NEW w \in Workers, pc[w] = "release",
         UNCHANGED <<phase, jobs, created, deleting>>,
         NEW others \in SUBSET Runs,
         \/ /\ w = dw /\ active' = active \ {own[w]} /\ UNCHANGED fetching
            /\ others = fetching
         \/ /\ w \in TitleWorkers /\ fetching' = fetching \ {own[w]} /\ UNCHANGED active
            /\ others = active,
         IF own[w] \in deleting /\ own[w] \notin others
         THEN WakeGoto(w, "finalize") /\ UNCHANGED own
         ELSE WakeGoto(w, "idle") /\ Unowned(w)
  PROVE  Ownership'
<1> DEFINE r == own[w]
           last == r \in deleting /\ r \notin others
<1>1. w \in Procs /\ "release" \in BusyLabels /\ "release" \notin FinalizeLabels
  BY Kinds DEF BusyLabels, FinalizeLabels
<1>2. r \in active \union fetching /\ (w = dw => r \in active) /\ (w # dw => r \in fetching)
  BY <1>1, Kinds DEF Ownership, ClaimsOK, Busy, Workers
<1>3. /\ pc'[w] = IF last THEN "finalize" ELSE "idle"
      /\ \A q \in Procs \ {w} : pc'[q] = pc[q] \/ (pc[q] = "waiting" /\ pc'[q] = "idle")
      /\ last => own'[w] = r
      /\ \A q \in Procs \ {w} : own'[q] = own[q]
  BY <1>1, Moved DEF TypeOK, ProcsOK, Unowned
<1>4. /\ {"finalize", "idle"} \subseteq WorkerLabels /\ "finalize" \in FinalizeLabels
      /\ "idle" \in ClientLabels /\ "idle" \in CloserLabels
      /\ "idle" \notin BusyLabels \union FinalizeLabels \union AwaitLabels
      /\ "finalize" \notin BusyLabels /\ "waiting" \notin FinalizeLabels
  BY DEF BusyLabels, WorkerLabels, ClientLabels, CloserLabels, FinalizeLabels, AwaitLabels
<1>5. Registry' = Registry /\ r \in Registry
  BY <1>2 DEF Registry, Ownership, OwnedIsRegistered
<1>6. Orphans' = (IF last THEN Orphans \union {r} ELSE Orphans) /\ r \notin Orphans
  BY <1>2, <1>5, Kinds DEF Orphans
<1>7. KindsOK'
  BY <1>3, <1>4, Kinds DEF Ownership, KindsOK
<1>8. ClaimsOK'
  <2>1. \A v \in Workers : pc'[v] \in BusyLabels =>
                            v # w /\ pc[v] \in BusyLabels /\ own'[v] = own[v]
    BY <1>3, <1>4, Kinds
  <2>2. ASSUME NEW t \in TitleWorkers, pc'[t] \in BusyLabels
        PROVE  own'[t] \in fetching'
    <3>1. own[t] \in fetching /\ (w \in TitleWorkers => own[t] # r)
      BY <1>1, <2>1, <2>2, Kinds DEF Ownership, ClaimsOK, Busy
    <3> QED BY <2>1, <2>2, <3>1, Kinds
  <2>3. pc'[dw] \in BusyLabels => own'[dw] \in active'
    BY <2>1, Kinds DEF Ownership, ClaimsOK, Busy
  <2> QED BY <2>1, <2>2, <2>3, Kinds DEF Ownership, ClaimsOK, Busy
<1>9. FinalizersOK'
  <2>1. \A q \in Procs \ {w} : pc'[q] \in FinalizeLabels => Finalizing(q) /\ own'[q] = own[q]
    BY <1>3, <1>4 DEF Finalizing
  <2>2. pc'[w] \in FinalizeLabels => last /\ own'[w] = r
    BY <1>3, <1>4
  <2> QED BY <1>6, <2>1, <2>2 DEF Ownership, FinalizersOK, Finalizing
<1>10. OrphansOK'
  <2>1. \A q \in Procs : Finalizing(q) => q # w /\ pc'[q] \in FinalizeLabels /\ own'[q] = own[q]
    BY <1>1, <1>3, <1>4 DEF Finalizing
  <2>2. last => pc'[w] \in FinalizeLabels /\ own'[w] = r
    BY <1>3, <1>4
  <2> QED BY <1>1, <1>6, <2>1, <2>2 DEF Ownership, OrphansOK, Finalizing
<1>11. WaitersHaveAnAttempt'
  <2>1. \A c \in Clients : pc'[c] \in AwaitLabels => pc[c] = pc'[c] /\ own'[c] = own[c]
    BY <1>3, <1>4, Kinds DEF AwaitLabels
  <2> QED BY <1>5, <2>1 DEF Ownership, WaitersHaveAnAttempt, AwaitLabels
<1>12. OwnedIsRegistered' /\ MarksOK'
  BY <1>5 DEF Ownership, OwnedIsRegistered, MarksOK
<1> QED BY <1>7, <1>8, <1>9, <1>10, <1>11, <1>12 DEF Ownership

\* The download worker picks a job that is not marked.
LEMMA PickDownloadOwnership ==
  ASSUME TypeOK, TypeOK', Ownership, NEW r \in Runs, PickDownload(r)
  PROVE  Ownership'
<1>1. r \in Registry \ deleting
  BY DEF PickDownload, pickQueued, First, Queued
<1> QED BY <1>1, Kinds, PickOwnership DEF PickDownload, lifeVars, regVars

\* A title worker picks a job no other fetches, or lets go of it.
LEMMA TitleOwnership ==
  ASSUME TypeOK, TypeOK', Ownership, NEW t \in TitleWorkers,
         (\E r \in Runs : PickTitle(t, r)) \/ ReleaseFetch(t)
  PROVE  Ownership'
<1>1. ASSUME NEW r \in Runs, PickTitle(t, r)
      PROVE  Ownership'
  <2>1. r \in Registry \ deleting /\ r \notin fetching
    BY <1>1 DEF PickTitle, pickTitle, First, Untitled
  <2> QED BY <1>1, <2>1, Kinds, PickOwnership DEF PickTitle, lifeVars, regVars
<1>2. CASE ReleaseFetch(t)
  BY <1>2, Kinds, ReleaseOwnership
  DEF ReleaseFetch, FetchFinishes, lifeVars, regVars, TypeOK, FlagsOK
<1> QED BY <1>1, <1>2

-----------------------------------------------------------------------------
(* Removals. *)

\* A removal starts and goes on: the check of finalizeDeletion never fails.
LEMMA RemovingOwnership ==
  ASSUME TypeOK, TypeOK', Ownership, NEW p \in Workers \union Clients,
         Finalize(p) \/ RemoveFiles(p) \/ RemoveFails(p)
  PROVE  Ownership'
<1>1. Finalizing(p) /\ p \in Procs
  BY Kinds DEF Finalize, RemoveFiles, RemoveFails, Finalizing, FinalizeLabels
<1>2. Current(own[p]) /\ own[p] \in deleting
  BY <1>1 DEF Ownership, FinalizersOK, Orphans, Current
<1>3. Still /\ UNCHANGED own
  BY <1>2 DEF Finalize, RemoveFiles, RemoveFails, lifeVars, regVars, flagVars, Still
<1>4. \E to \in {"remove", "unregister", "stuck"} : Goto(p, to)
  BY <1>2 DEF Finalize, RemoveFiles, RemoveFails
<1>5. \A to \in {"remove", "unregister", "stuck"} :
        /\ to \in FinalizeLabels /\ to \in WorkerLabels /\ to \in ClientLabels
        /\ to \notin BusyLabels \union AwaitLabels
  BY DEF FinalizeLabels, WorkerLabels, ClientLabels, BusyLabels, AwaitLabels
<1>6. Grows
  BY <1>3, StillGrows
<1> QED BY <1>1, <1>3, <1>4, <1>5, <1>6, Kinds, OneMoves

\* The finalizer ends, and every request that waits for it goes on.
LEMMA Answered ==
  ASSUME TypeOK, Ownership, NEW p \in Procs, Finalizing(p), AnswerWaiters(p, own[p])
  PROVE  /\ KindsOK' /\ pc'[p] = "idle"
         /\ \A q \in Procs : pc'[q] \in BusyLabels => pc[q] \in BusyLabels /\ own'[q] = own[q]
         /\ \A q \in Procs : pc'[q] \in FinalizeLabels <=> q # p /\ Finalizing(q)
         /\ \A q \in Procs : q # p /\ Finalizing(q) => own'[q] = own[q]
         /\ \A q \in Procs : pc'[q] \in AwaitLabels =>
              pc[q] \in AwaitLabels /\ own'[q] = own[q] /\ own[q] # own[p]
<1>1. \A q \in Procs : q # p /\ pc[q] \notin AwaitLabels => pc'[q] = pc[q] /\ own'[q] = own[q]
  BY DEF AnswerWaiters, Waiting, AwaitLabels
<1>2. \A q \in Procs : pc[q] \in AwaitLabels =>
        \/ pc'[q] = pc[q] /\ own'[q] = own[q] /\ own[q] # own[p]
        \/ pc'[q] \in {"idle", "resubmit"}
  BY DEF AnswerWaiters, Waiting, AwaitLabels
<1>3. pc'[p] = "idle"
  BY DEF AnswerWaiters
<1>4. /\ {"idle", "resubmit"} \intersect (BusyLabels \union FinalizeLabels \union AwaitLabels) = {}
      /\ AwaitLabels \intersect (BusyLabels \union FinalizeLabels) = {}
      /\ AwaitLabels \intersect (WorkerLabels \union CloserLabels) = {}
      /\ {"idle", "resubmit"} \subseteq ClientLabels
      /\ "idle" \in WorkerLabels /\ "idle" \in CloserLabels
  BY DEF BusyLabels, FinalizeLabels, AwaitLabels, WorkerLabels, CloserLabels, ClientLabels
<1>5. KindsOK'
  BY <1>1, <1>2, <1>3, <1>4, Kinds DEF Ownership, KindsOK
<1> QED BY <1>1, <1>2, <1>3, <1>4, <1>5 DEF Finalizing

\* The removal is over: its job is gone, or not marked any more.
LEMMA RemovedOwnership ==
  ASSUME TypeOK, TypeOK', Ownership, NEW p \in Procs, Finalizing(p), AnswerWaiters(p, own[p]),
         UNCHANGED <<phase, created, active, fetching>>,
         \/ Registry' = Registry \ {own[p]} /\ UNCHANGED deleting
         \/ Registry' = Registry /\ deleting' = deleting \ {own[p]}
  PROVE  Ownership'
<1>1. own[p] \in Orphans
  BY DEF Ownership, FinalizersOK
<1>2. Orphans' = Orphans \ {own[p]}
  BY <1>1 DEF Orphans
<1>3. KindsOK' /\ ClaimsOK'
  BY Answered, Kinds DEF Ownership, ClaimsOK, Busy
<1>4. OwnedIsRegistered'
  BY <1>1 DEF Ownership, OwnedIsRegistered, Orphans
<1>5. FinalizersOK'
  BY <1>2, Answered DEF Ownership, FinalizersOK, Finalizing
<1>6. OrphansOK'
  BY <1>2, Answered DEF Ownership, OrphansOK, Finalizing
<1>7. WaitersHaveAnAttempt'
  BY Answered, Kinds DEF Ownership, WaitersHaveAnAttempt, AwaitLabels
<1>8. MarksOK'
  BY DEF Ownership, MarksOK
<1> QED BY <1>3, <1>4, <1>5, <1>6, <1>7, <1>8 DEF Ownership

\* Every step of finalizeDeletion.
LEMMA RemovalOwnership ==
  ASSUME TypeOK, TypeOK', Identity, Ownership, NEW p \in Workers \union Clients, Removal(p)
  PROVE  Ownership'
<1>1. CASE Finalize(p) \/ RemoveFiles(p) \/ RemoveFails(p)
  BY <1>1, RemovingOwnership
<1>2. ASSUME Unregister(p) \/ KeepCard(p)
      PROVE  /\ p \in Procs /\ Finalizing(p) /\ AnswerWaiters(p, own[p])
             /\ own[p] \in Registry
  <2>1. p \in Procs /\ Finalizing(p)
    BY <1>2, Kinds DEF Unregister, KeepCard, Finalizing, FinalizeLabels
  <2> QED BY <1>2, <2>1 DEF Unregister, KeepCard, Ownership, FinalizersOK, Orphans
<1>3. CASE Unregister(p)
  <2> DEFINE r == own[p]
  <2>1. jobs' = [jobs EXCEPT ![job[r].id] = NoRun]
    BY <1>2, <1>3 DEF Unregister, Current
  <2>2. Registry' = Registry \ {r}
    <3>1. r \in Runs /\ job[r].id \in Ids /\ jobs[job[r].id] = r
      BY <1>2, <1>3, Registered
    <3>2. \A i \in Ids : jobs[i] = r => i = job[r].id
      BY <3>1 DEF Identity, CardsOK, Runs, NoRun
    <3> QED BY <2>1, <3>1, <3>2 DEF Registry, TypeOK, RegistryOK
  <2> QED BY <1>2, <1>3, <2>2, RemovedOwnership DEF Unregister, lifeVars, flagVars
<1>4. CASE KeepCard(p)
  <2>1. deleting' = deleting \ {own[p]} /\ Registry' = Registry
    BY <1>2, <1>4 DEF KeepCard, Current, Registry
  <2> QED BY <1>2, <1>4, <2>1, RemovedOwnership DEF KeepCard, lifeVars
<1> QED BY <1>1, <1>3, <1>4 DEF Removal

-----------------------------------------------------------------------------
(* Close, and the life of the process. *)

\* Close owns no job and removes nothing.
LEMMA CloseOwnership ==
  ASSUME TypeOK, TypeOK', Ownership,
         Close \/ ConvertInterrupted \/ CloseReturns \/ \E r \in Runs : CloseSaves(r)
  PROVE  Ownership'
<1>1. Still
  BY DEF Close, ConvertInterrupted, CloseReturns, CloseSaves, ownFrame, lifeVars, regVars,
         flagVars, Still
<1>2. \E to \in {"draining", "saving", "save", "closed"} : Goto(closer, to) \/ WakeGoto(closer, to)
  BY DEF Close, ConvertInterrupted, CloseReturns, CloseSaves
<1>3. \A q \in Procs \ {closer} : own'[q] = own[q]
  BY DEF Close, ConvertInterrupted, CloseReturns, CloseSaves, Unowned, TypeOK, ProcsOK
<1>4. \A to \in {"draining", "saving", "save", "closed"} :
        to \in CloserLabels /\ to \notin FinalizeLabels \union AwaitLabels
  BY DEF CloserLabels, FinalizeLabels, AwaitLabels
<1>5. ~Finalizing(closer)
  BY DEF Ownership, KindsOK, Finalizing, CloserLabels, FinalizeLabels
<1>6. Grows
  BY <1>1, StillGrows
<1> QED BY <1>1, <1>2, <1>3, <1>4, <1>5, <1>6, Kinds, OneMoves

\* A process that is not running owns nothing.
Blank == /\ jobs = NoJobs /\ active = {} /\ fetching = {} /\ deleting = {}
         /\ pc = AllIdle

\* A process that is not running owns nothing.
LEMMA DownOwnership == Blank => Ownership
<1> SUFFICES ASSUME Blank PROVE Ownership
  OBVIOUS
<1> USE DEF Blank
<1>1. Registry = {}
  BY DEF Registry, NoJobs
<1>2. \A p \in Procs : pc[p] = "idle"
  BY DEF AllIdle
<1>3. /\ "idle" \in WorkerLabels /\ "idle" \in ClientLabels /\ "idle" \in CloserLabels
      /\ "idle" \notin BusyLabels \union FinalizeLabels \union AwaitLabels
  BY DEF BusyLabels, WorkerLabels, ClientLabels, CloserLabels, FinalizeLabels, AwaitLabels
<1>4. KindsOK /\ ClaimsOK
  BY <1>2, <1>3, Kinds DEF KindsOK, ClaimsOK, Busy
<1>5. FinalizersOK /\ OrphansOK /\ OwnedIsRegistered /\ MarksOK
  BY <1>1, <1>2, <1>3
  DEF FinalizersOK, Finalizing, OrphansOK, Orphans, OwnedIsRegistered, MarksOK
<1>6. WaitersHaveAnAttempt
  BY <1>2, Kinds DEF WaitersHaveAnAttempt
<1> QED BY <1>4, <1>5, <1>6 DEF Ownership

\* A process starts with nothing owned and nothing marked.
LEMMA ProcessOwnership ==
  ASSUME TypeOK, TypeOK', Ownership, Exit \/ Crash \/ RecoverFails \/ Boot \/ Recover \/ \E i \in Ids : Vanish(i)
  PROVE  Ownership'
<1>1. CASE Exit \/ Crash \/ RecoverFails
  <2>1. Blank'
    BY <1>1 DEF Exit, Crash, RecoverFails, Ends, PowerOff, NoJobs, AllIdle, Blank
  <2> QED BY <2>1, DownOwnership, PTL
<1>2. CASE Boot
  <2>1. UNCHANGED <<pc, own, jobs, created, active, fetching, deleting>>
        /\ phase # "serving" /\ phase' # "serving"
    BY <1>2 DEF Boot, procVars, regVars, flagVars
  <2>2. Registry' = Registry /\ Orphans' = Orphans
    BY <2>1 DEF Registry, Orphans
  <2> QED BY <2>1, <2>2 DEF Ownership, KindsOK, ClaimsOK, Busy, OwnedIsRegistered, FinalizersOK,
              OrphansOK, Finalizing, WaitersHaveAnAttempt, MarksOK
<1>3. CASE Recover
  <2>1. Registry = {} /\ deleting = {} /\ phase' = "serving"
        /\ UNCHANGED <<own, active, fetching, deleting>>
    BY <1>3 DEF Recover, flagVars, Ownership, MarksOK
  <2>2. created <= created'
    <3>1. IsFiniteSet(Bare)
      BY NamesAssumption, FS_Subset DEF Found, Bare
    <3>2. Cardinality(Bare) \in Nat
      BY <3>1, FS_CardinalityType
    <3> QED BY <1>3, <3>2, BoundsAssumption DEF Recover, TypeOK, RegistryOK, MaybeRun
  <2>3. Grows
    BY <2>1, <2>2 DEF Grows
  <2>4. \A q \in Procs : pc'[q] = pc[q] \/ (pc[q] = "waiting" /\ pc'[q] = "idle")
    BY <1>3 DEF Recover, Woken
  <2>5. /\ "idle" \notin BusyLabels \union FinalizeLabels \union AwaitLabels
        /\ "waiting" \notin FinalizeLabels
        /\ "idle" \in WorkerLabels /\ "idle" \in ClientLabels /\ "idle" \in CloserLabels
    BY DEF BusyLabels, FinalizeLabels, AwaitLabels, WorkerLabels, ClientLabels, CloserLabels
  <2>6. KindsOK'
    BY <2>4, <2>5, Kinds DEF Ownership, KindsOK
  <2>7. \A c \in Clients : pc'[c] \in AwaitLabels => own'[c] \in Registry \intersect deleting
    BY <2>1, <2>4, <2>5, Kinds DEF Ownership, WaitersHaveAnAttempt, AwaitLabels
  <2> QED BY <2>1, <2>3, <2>4, <2>5, <2>6, <2>7, Kinds, QuietOwnership DEF Busy, Finalizing
<1>4. ASSUME NEW i \in Ids, Vanish(i)
      PROVE  Ownership'
  BY <1>4, StillOwnership DEF Vanish, lifeVars, regVars, flagVars, procVars, Still
<1> QED BY <1>1, <1>2, <1>3, <1>4

\* Ownership is preserved by every step.
LEMMA OwnershipNext ==
  ASSUME TypeOK, TypeOK', Identity, Ownership, Next
  PROVE  Ownership'
<1>1. ASSUME NEW c \in Clients, NEW i \in Ids,
             \/ SubmitAnswered(c, i) \/ SubmitWaits(c, i) \/ SubmitRequeues(c, i)
             \/ SubmitNew(c, i) \/ SubmitUnsaved(c, i) \/ Retry(c, i) \/ Delete(c, i)
      PROVE  Ownership'
  BY <1>1, RequestOwnership, SubmitWaitsOwnership, SubmitNewOwnership, DeleteOwnership
<1>2. ASSUME NEW c \in Clients,
             \/ List(c) \/ Downgrade(c) \/ WaitTimesOut(c)
             \/ \E r \in Runs : StatFinds(c, r) \/ StatMisses(c, r)
      PROVE  Ownership'
  BY <1>2, RequestOwnership
<1>3. ASSUME NEW r \in Runs, AsyncSave(r)
      PROVE  Ownership'
  BY <1>3, StillOwnership
  DEF AsyncSave, BeginAsyncSave, EndAsyncSave, lifeVars, regVars, flagVars, procVars, Still
<1>4. CASE ReleaseDownload
  BY <1>4, Kinds, ReleaseOwnership
  DEF ReleaseDownload, DownloadFinishes, lifeVars, regVars, TypeOK, FlagsOK
<1>5. ASSUME NEW r \in Runs, PickDownload(r)
      PROVE  Ownership'
  BY <1>5, PickDownloadOwnership
<1> QED BY <1>1, <1>2, <1>3, <1>4, <1>5, StepCases, RemovalOwnership, SaveOwnership, RestOwnership,
        PipelineOwnership, FetchOwnership, TitleOwnership, CloseOwnership, ProcessOwnership

-----------------------------------------------------------------------------
\* The inductive invariant behind the three theorems below.
THEOREM OwnershipCorrect == Spec => []Ownership
<1>1. Init => Ownership
  BY DownOwnership DEF Init, Blank
<1>2. TypeOK /\ TypeOK' /\ Identity /\ Ownership /\ [Next]_vars => Ownership'
  <2> SUFFICES ASSUME TypeOK, TypeOK', Identity, Ownership, [Next]_vars PROVE Ownership'
    OBVIOUS
  <2>1. CASE UNCHANGED vars
    BY <2>1, StillOwnership DEF vars, lifeVars, regVars, flagVars, procVars, Still
  <2> QED BY <2>1, OwnershipNext
<1> QED BY <1>1, <1>2, TypeCorrect, IdentityCorrect, PTL DEF Spec

\* No removal or resubmit takes a job from under a worker that owns it.
THEOREM OwnedJobsStay == Spec => []OwnedIsRegistered
<1>1. Ownership => OwnedIsRegistered
  BY DEF Ownership
<1> QED BY <1>1, OwnershipCorrect, PTL

\* A request that waits for a removal waits for one that is in flight, so the
\* finalizer of that removal will close the attempt it waits on.
THEOREM WaitersAreAnswered == Spec => []WaitersHaveAnAttempt
<1>1. Ownership => WaitersHaveAnAttempt
  BY DEF Ownership
<1> QED BY <1>1, OwnershipCorrect, PTL

\* A marked job nobody owns has exactly one goroutine in finalizeDeletion, and
\* every other job has none: no removal is run twice, and none is forgotten.
THEOREM RemovalHasOneFinalizer == Spec => []OneFinalizer
<1>1. Ownership => OneFinalizer
  <2> SUFFICES ASSUME Ownership, NEW r \in Registry
               PROVE  IF r \in deleting /\ r \notin active \union fetching
                      THEN \E p \in Procs : Finalizers(r) = {p}
                      ELSE Finalizers(r) = {}
    BY DEF OneFinalizer
  <2>1. CASE r \in Orphans
    <3>1. PICK p \in Procs : Finalizing(p) /\ own[p] = r
      BY <2>1 DEF Ownership, OrphansOK
    <3>2. Finalizers(r) = {p}
      BY <3>1 DEF Ownership, FinalizersOK, Finalizing, Finalizers
    <3> QED BY <2>1, <3>2 DEF Orphans
  <2>2. CASE r \notin Orphans
    <3>1. Finalizers(r) = {}
      BY <2>2 DEF Ownership, FinalizersOK, Finalizing, Finalizers
    <3> QED BY <2>2, <3>1 DEF Orphans
  <2> QED BY <2>1, <2>2
<1> QED BY <1>1, OwnershipCorrect, PTL

=============================================================================
