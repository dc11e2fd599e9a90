-------------------------- MODULE PersistenceProofs --------------------------
(***************************************************************************)
(* What is on disk, for any number of requests, title workers, videos and  *)
(* restarts: a removed job never comes back, every card has its directory, *)
(* and once its saves are over a restart would find it as it is.           *)
(*                                                                         *)
(* All three rest on saveMu (LocksOK): it is held over a whole save, or a  *)
(* whole removal, of a job that stays registered meanwhile, and a snapshot *)
(* exists exactly during a save.  So no save comes between the removal of  *)
(* a directory and the end of its card.  RemovedOK and StoredOK say what a *)
(* directory holds, depending on its card; SyncOK says that a card differs *)
(* from its directory only while a later save is due, and PreOK that a     *)
(* download that is about to put its file into place has had its record    *)
(* changed from ready before.                                              *)
(*                                                                         *)
(* Last, the refinement: with these invariants every step of the manager   *)
(* is a step of Library, or changes nothing it shows.                      *)
(***************************************************************************)
EXTENDS ScheduleProofs, LibraryOfManager

\* The labels of saveCurrent, and of all that is done under saveMu.
WriteLabels == {"writeStart", "write"}
HoldLabels  == WriteLabels \union {"remove", "unregister", "stuck"}

\* A save of this job is under way.
InSave(r) == saveMu[r] = async \/ (saveMu[r] \in Procs /\ pc[saveMu[r]] \in WriteLabels)

\* The holder of saveMu works on the job under it, which stays registered; the
\* snapshot is there during a save only.
LocksOK ==
  /\ \A p \in Procs : pc[p] \in HoldLabels => saveMu[own[p]] = p
  /\ \A r \in Runs : /\ saveMu[r] \in Procs => pc[saveMu[r]] \in HoldLabels /\ own[saveMu[r]] = r
                     /\ saveMu[r] # free => r \in Registry
                     /\ IF InSave(r) THEN snap[r].run = r ELSE snap[r] = NoMeta

\* Nothing of a removed job is left, neither its record nor, once it is
\* unregistered, its directory.
RemovedOK ==
  /\ removed \intersect Registry = {} /\ \A r \in removed : r <= created
  /\ \A i \in Ids : /\ disk[i].meta.run \notin removed
                    /\ disk[i].meta.run = NoRun => disk[i].meta = NoMeta
                    /\ disk[i].dir \/ disk[i] = NoDir
                    /\ phase = "serving" /\ jobs[i] = NoRun =>
                         ~disk[i].video /\ (NoFaults => disk[i] = NoDir)
  /\ \A p \in Procs : pc[p] = "unregister" => disk[job[own[p]].id] = NoDir

\* While the storage works, no removal and no save has to be given up, and a
\* card that stays has its directory, and its file when it is ready.
StoredOK ==
  NoFaults =>
  /\ \A p \in Procs : pc[p] \notin {"stuck", "mark"}
  /\ \A i \in Ids : phase = "serving" /\ jobs[i] # NoRun /\ jobs[i] \notin deleting =>
       disk[i].dir /\ disk[i].meta.run \in {NoRun, jobs[i]}
  /\ left.vanish = MaxVanish =>
     /\ \A i \in Ids : jobs[i] # NoRun /\ jobs[i] \notin deleting
          /\ job[jobs[i]].status = "ready" =>
          disk[i].video
     /\ pc[dw] = "succeeded" => disk[job[own[dw]].id].video

-----------------------------------------------------------------------------
(* Quiet steps. *)

\* Directories, saves and removals stay where they are, and nothing gets ready
\* but a download that has succeeded.
Quiet ==
  /\ phase' = "serving" <=> phase = "serving"
  /\ UNCHANGED <<jobs, created, removed, disk, saveMu, snap>> /\ SameIds
  /\ left'.vanish = left.vanish /\ (NoFaults' => NoFaults)
  /\ deleting \subseteq deleting'
  /\ \A r \in Runs : job'[r].status = "ready" =>
                        job[r].status = "ready" \/ (r = own[dw] /\ pc[dw] = "succeeded")

\* Nobody gets hold of a lock or lets go of it, or has to give up a save.
Handless ==
  /\ \A p \in Procs : pc[p] \in HoldLabels \/ pc'[p] \in HoldLabels =>
                        pc'[p] = pc[p] /\ own'[p] = own[p]
  /\ \A p \in Procs : pc'[p] = "mark" => pc[p] = "mark"
  /\ NoFaults' /\ pc'[dw] = "succeeded" => pc[dw] = "succeeded" /\ own'[dw] = own[dw]

\* The zones of the labels.
LEMMA HoldZones ==
  /\ HoldLabels \intersect {"idle", "waiting", "mark", "succeeded"} = {}
  /\ WriteLabels \subseteq HoldLabels /\ HoldLabels \intersect FreeLabels = {}
  /\ "remove" \notin WriteLabels /\ "unregister" \notin WriteLabels /\ "stuck" \notin WriteLabels
  BY DEF HoldLabels, WriteLabels, FreeLabels

\* A holder has a job object in its hands.
LEMMA HolderTyped ==
  ASSUME TypeOK, NEW p \in Procs, pc[p] \in HoldLabels \union {"succeeded", "mark"}
  PROVE  own[p] \in Runs
  BY HoldZones DEF TypeOK, ProcsOK, HoldLabels, WriteLabels, FreeLabels

\* Nobody is called "unlocked" or "async save".
LEMMA HolderNames == free \notin Procs /\ async \notin Procs /\ free # async
  BY NamesAssumption DEF Procs, Workers, free, async, dw, closer

\* Steps that move nobody over a lock keep the locks.
LEMMA LocksKept ==
  ASSUME TypeOK, LocksOK, Handless, Registry \subseteq Registry', UNCHANGED <<saveMu, snap>>
  PROVE  LocksOK'
<1>1. \A p \in Procs : pc'[p] \in HoldLabels => saveMu'[own'[p]] = p
  BY DEF LocksOK, Handless
<1>2. ASSUME NEW r \in Runs
      PROVE  /\ saveMu'[r] \in Procs => pc'[saveMu'[r]] \in HoldLabels /\ own'[saveMu'[r]] = r
             /\ saveMu'[r] # free => r \in Registry'
  BY DEF LocksOK, Handless
<1>3. ASSUME NEW r \in Runs
      PROVE  InSave(r)' <=> InSave(r)
  BY HoldZones DEF LocksOK, Handless, InSave
<1>4. ASSUME NEW r \in Runs
      PROVE  IF InSave(r)' THEN snap'[r].run = r ELSE snap'[r] = NoMeta
  BY <1>3 DEF LocksOK
<1> QED BY <1>1, <1>2, <1>4 DEF LocksOK

\* Quiet steps keep what is on disk.
LEMMA QuietKeeps ==
  ASSUME TypeOK, TypeOK', Identity, LocksOK, RemovedOK, StoredOK, Quiet, Handless
  PROVE  LocksOK' /\ RemovedOK' /\ StoredOK'
<1>1. Registry' = Registry
  BY DEF Quiet, Registry
<1>2. LocksOK'
  BY <1>1, LocksKept DEF Quiet
<1>3. \A p \in Procs : pc'[p] = "unregister" => disk'[job'[own'[p]].id] = NoDir
  <2> SUFFICES ASSUME NEW p \in Procs, pc'[p] = "unregister"
               PROVE  disk'[job'[own'[p]].id] = NoDir
    OBVIOUS
  <2>1. pc[p] = "unregister" /\ own'[p] = own[p] /\ own[p] \in Runs
    BY HolderTyped DEF Handless, HoldLabels
  <2> QED BY <2>1 DEF Quiet, SameIds, RemovedOK
<1>4. RemovedOK'
  BY <1>1, <1>3 DEF RemovedOK, Quiet
<1>5. ASSUME NoFaults'
      PROVE  /\ \A p \in Procs : pc'[p] \notin {"stuck", "mark"}
             /\ \A i \in Ids : phase' = "serving" /\ jobs'[i] # NoRun
                  /\ jobs'[i] \notin deleting' =>
                  disk'[i].dir /\ disk'[i].meta.run \in {NoRun, jobs'[i]}
  BY <1>5 DEF StoredOK, Quiet, Handless, HoldLabels
<1>6. ASSUME NoFaults', left'.vanish = MaxVanish
      PROVE  /\ \A i \in Ids : jobs'[i] # NoRun /\ jobs'[i] \notin deleting'
                  /\ job'[jobs'[i]].status = "ready"
                  => disk'[i].video
             /\ pc'[dw] = "succeeded" => disk'[job'[own'[dw]].id].video
  <2>1. \A i \in Ids : jobs[i] # NoRun => jobs[i] \in Runs
    BY DEF TypeOK, RegistryOK, MaybeRun, Runs, NoRun
  <2>2. \A i \in Ids : jobs'[i] # NoRun /\ jobs'[i] \notin deleting'
          /\ job'[jobs'[i]].status = "ready"
                  => disk'[i].video
    BY <1>6, <2>1 DEF StoredOK, Quiet, Identity, CardsOK
  <2>3. ASSUME pc'[dw] = "succeeded"
        PROVE  disk'[job'[own'[dw]].id].video
    <3>1. pc[dw] = "succeeded" /\ own'[dw] = own[dw] /\ own[dw] \in Runs
      BY <1>6, <2>3, HolderTyped, Kinds DEF Handless
    <3> QED BY <1>6, <3>1 DEF Quiet, SameIds, StoredOK
  <2> QED BY <2>2, <2>3
<1> QED BY <1>2, <1>4, <1>5, <1>6 DEF StoredOK

\* One goroutine moves on, outside the locks.
LEMMA HandlessMove ==
  ASSUME TypeOK, NEW p \in Procs, NEW to, Goto(p, to) \/ WakeGoto(p, to),
         pc[p] \notin HoldLabels, to \notin HoldLabels \union {"mark"},
         to # "succeeded" \/ ~NoFaults',
         \A q \in Procs \ {p} : own'[q] = own[q]
  PROVE  Handless
<1>1. pc'[p] = to
      /\ \A q \in Procs \ {p} : pc'[q] = pc[q] \/ (pc[q] = "waiting" /\ pc'[q] = "idle")
  BY Moved
<1> QED BY <1>1, HoldZones, Kinds DEF Handless

\* Nobody moves.
LEMMA HandlessStill ==
  ASSUME UNCHANGED <<pc, own>> PROVE Handless
  BY DEF Handless

\* A storage fault is used up.
LEMMA FaultUsed ==
  ASSUME TypeOK, Fault
  PROVE  ~NoFaults' /\ left'.vanish = left.vanish /\ left'.restarts = left.restarts
  BY BoundsAssumption DEF Fault, NoFaults, TypeOK, StorageOK

-----------------------------------------------------------------------------
(* Saves that are due. *)

\* A record says what the job says; a directory would be recovered as the job is.
Same(m, r)     == m.titled = job[r].titled /\ m.status = job[r].status
Restores(d, r) == /\ d.meta.titled = job[r].titled
                  /\ \/ d.meta.status = job[r].status
                     \/ job[r].status = "failed" /\ RecoveredStatus(d) = "failed"

\* Somebody is going to save this job.
Due(r) == \/ pending[r] > 0
          \/ \E p \in Procs : own[p] = r /\ pc[p] \in {"saveStart", "save"}
          \/ pc[closer] \in {"saving", "save", "write"} /\ r \in todo[closer]

\* While the storage works, a card that no save is due for is on disk as it
\* is, or about to be, by the save that is under way.
SyncOK ==
  NoFaults /\ phase = "serving" =>
    \A i \in Ids : LET r == jobs[i] IN
      r # NoRun /\ r \notin deleting =>
        Due(r) \/ (IF InSave(r) THEN Same(snap[r], r) ELSE Restores(disk[i], r))

\* From its first save to publish a download is not recorded as ready.
RunLabels == {"writeStart", "prepare", "prepared", "downloading", "processing", "verifying",
              "publish"}
PreOK ==
  NoFaults /\ pc[dw] \in RunLabels /\ own[dw] \notin deleting =>
    /\ InSave(own[dw]) => snap[own[dw]].status # "ready"
    /\ pc[dw] # "writeStart" => disk[job[own[dw]].id].meta.status # "ready"

Persistence == LocksOK /\ RemovedOK /\ StoredOK /\ SyncOK /\ PreOK

\* Steps that leave a save due for each card they change; and that leave the
\* download where it is between its saves.
Synced ==
  NoFaults' => \A r \in Shown' :
    \/ Due(r)'
    \/ ~Due(r) /\ job'[r].status = job[r].status /\ job'[r].titled = job[r].titled
Level ==
  NoFaults' /\ pc'[dw] \in RunLabels =>
    \/ own[dw] \in deleting /\ own'[dw] = own[dw]
    \/ own'[dw] = own[dw] /\ pc[dw] \in RunLabels
       /\ (pc[dw] = "writeStart" <=> pc'[dw] = "writeStart")

\* A step that makes no difference to what is, or should be, on disk.
Harmless == Quiet /\ Handless /\ Synced /\ Level

\* SyncOK and PreOK after a step, job object by job object.
LEMMA SyncIntro ==
  ASSUME TypeOK',
         NoFaults' /\ phase' = "serving" =>
           \A i \in Ids, r \in Runs : jobs'[i] = r /\ r \notin deleting' =>
             Due(r)' \/ (IF InSave(r)' THEN Same(snap[r], r)' ELSE Restores(disk[i], r)')
  PROVE  SyncOK'
<1> SUFFICES ASSUME NoFaults', phase' = "serving", NEW i \in Ids, NEW r, r = jobs'[i],
                    r # NoRun, r \notin deleting'
             PROVE  Due(r)' \/ (IF InSave(r)' THEN Same(snap[r], r)' ELSE Restores(disk[i], r)')
  BY DEF SyncOK
<1>1. r \in Runs
  BY DEF TypeOK, RegistryOK, MaybeRun, Runs, NoRun
<1> QED BY <1>1

LEMMA PreIntro ==
  ASSUME TypeOK',
         NoFaults' /\ pc'[dw] \in RunLabels =>
           \A r \in Runs : own'[dw] = r /\ r \notin deleting' =>
             /\ InSave(r)' => snap'[r].status # "ready"
             /\ pc'[dw] # "writeStart" => disk'[job'[r].id].meta.status # "ready"
  PROVE  PreOK'
<1>1. pc'[dw] \in RunLabels => own'[dw] \in Runs
  BY Kinds DEF RunLabels, TypeOK, ProcsOK, FreeLabels
<1> QED BY <1>1 DEF PreOK

\* Harmless steps keep all of it.
LEMMA HarmlessKeeps ==
  ASSUME TypeOK, TypeOK', Identity, Ownership, Persistence, Harmless
  PROVE  Persistence'
<1>1. LocksOK' /\ RemovedOK' /\ StoredOK'
  BY QuietKeeps DEF Persistence, Harmless
<1>2. \A r \in Runs : InSave(r)' <=> InSave(r)
  BY HoldZones DEF Persistence, LocksOK, Harmless, Quiet, Handless, InSave
<1>3. ASSUME NoFaults', phase' = "serving", NEW i \in Ids, NEW r \in Runs, jobs'[i] = r,
             r \notin deleting'
      PROVE  Due(r)' \/ (IF InSave(r)' THEN Same(snap[r], r)' ELSE Restores(disk[i], r)')
  <2>1. NoFaults /\ phase = "serving" /\ jobs[i] = r /\ r \notin deleting
        /\ snap' = snap /\ disk' = disk
    BY <1>3 DEF Harmless, Quiet
  <2>2. r \in Shown' /\ r # NoRun
    BY <1>3 DEF Shown, Registry, Runs, NoRun
  <2>3. CASE /\ ~Due(r) /\ job'[r].status = job[r].status
             /\ job'[r].titled = job[r].titled
    <3>1. IF InSave(r) THEN Same(snap[r], r) ELSE Restores(disk[i], r)
      BY <2>1, <2>2, <2>3 DEF Persistence, SyncOK
    <3>2. Same(snap[r], r) => Same(snap[r], r)'
      BY <2>1, <2>3 DEF Same
    <3>3. Restores(disk[i], r) => Restores(disk[i], r)'
      BY <2>1, <2>3 DEF Restores, RecoveredStatus
    <3> QED BY <1>2, <3>1, <3>2, <3>3
  <2> QED BY <1>3, <2>2, <2>3 DEF Harmless, Synced
<1>4. SyncOK'
  BY <1>3, SyncIntro
<1>5. PreOK'
  <2> SUFFICES ASSUME NoFaults', pc'[dw] \in RunLabels, NEW r \in Runs, own'[dw] = r,
                      r \notin deleting'
               PROVE  /\ InSave(r)' => snap'[r].status # "ready"
                      /\ pc'[dw] # "writeStart" => disk'[job'[r].id].meta.status # "ready"
    BY PreIntro
  <2>1. /\ NoFaults /\ own[dw] = r /\ r \notin deleting /\ pc[dw] \in RunLabels
        /\ pc[dw] = "writeStart" <=> pc'[dw] = "writeStart"
    BY DEF Harmless, Quiet, Level
  <2>2. job'[r].id = job[r].id /\ disk' = disk /\ snap' = snap
    BY DEF Harmless, Quiet, SameIds
  <2> QED BY <1>2, <2>1, <2>2 DEF Persistence, PreOK
<1> QED BY <1>1, <1>4, <1>5 DEF Persistence

\* A goroutine that moves on from no save leaves what is due.
LEMMA DueKept ==
  ASSUME TypeOK, Ownership, NEW p \in Procs \ {closer}, NEW to, Goto(p, to) \/ WakeGoto(p, to),
         pc[p] \notin {"saveStart", "save"}, \A q \in Procs \ {p} : own'[q] = own[q],
         \A r \in Runs : pending[r] > 0 => pending'[r] > 0, todo'[closer] = todo[closer],
         NEW r \in Runs, Due(r)
  PROVE  Due(r)'
<1>1. \A q \in Procs \ {p} : pc'[q] = pc[q] \/ (pc[q] = "waiting" /\ pc'[q] = "idle")
  BY Moved
<1>2. pc'[closer] = pc[closer]
  BY <1>1, Kinds DEF Ownership, KindsOK, CloserLabels
<1>3. CASE pending[r] > 0
  BY <1>3 DEF Due
<1>4. CASE \E q \in Procs : own[q] = r /\ pc[q] \in {"saveStart", "save"}
  BY <1>1, <1>4 DEF Due
<1>5. CASE pc[closer] \in {"saving", "save", "write"} /\ r \in todo[closer]
  BY <1>2, <1>5 DEF Due
<1> QED BY <1>3, <1>4, <1>5 DEF Due

-----------------------------------------------------------------------------
(* Harmless steps. *)

\* Parts that the steps of the requests and of the workers have in common.
LEMMA JobKinds ==
  ASSUME TypeOK, NEW r \in Runs,
         \/ job' = job
         \/ \E s \in Statuses : job' = [job EXCEPT ![r].status = s]
         \/ \E b \in BOOLEAN : job' = [job EXCEPT ![r].titled = b]
         \/ \E n \in 0..TitleAttempts : job' = [job EXCEPT ![r].tries = n]
  PROVE  /\ SameIds
         /\ \A q \in Runs \ {r} : job'[q] = job[q]
<1> USE DEF TypeOK, RegistryOK, SameIds
<1>1. CASE job' = job
  BY <1>1
<1>2. ASSUME NEW s \in Statuses, job' = [job EXCEPT ![r].status = s]
      PROVE  SameIds /\ \A q \in Runs \ {r} : job'[q] = job[q]
  BY <1>2 DEF Job
<1>3. ASSUME NEW b \in BOOLEAN, job' = [job EXCEPT ![r].titled = b]
      PROVE  SameIds /\ \A q \in Runs \ {r} : job'[q] = job[q]
  BY <1>3 DEF Job
<1>4. ASSUME NEW n \in 0..TitleAttempts, job' = [job EXCEPT ![r].tries = n]
      PROVE  SameIds /\ \A q \in Runs \ {r} : job'[q] = job[q]
  BY <1>4 DEF Job
<1> QED BY <1>1, <1>2, <1>3, <1>4

LEMMA RequeueKind ==
  ASSUME TypeOK, NEW r \in Runs, requeueLocked(r)
  PROVE  /\ SameIds /\ job'[r].status # "ready"
         /\ \A q \in Runs \ {r} : job'[q] = job[q]
  BY DEF TypeOK, RegistryOK, Job, SameIds, requeueLocked

\* SpawnSave makes a save due for its job, and keeps those of the others.
LEMMA SpawnDue ==
  ASSUME TypeOK, NEW r \in Runs, SpawnSave(r)
  PROVE  Due(r)' /\ \A q \in Runs : pending[q] > 0 => pending'[q] > 0
  BY DEF SpawnSave, TypeOK, SavesOK, Due

\* The download worker stays where it is between its saves.
LEMMA LevelMove ==
  ASSUME TypeOK, NEW p \in Procs, NEW to, Goto(p, to) \/ WakeGoto(p, to),
         \A q \in Procs \ {p} : own'[q] = own[q],
         p = dw /\ to \in RunLabels =>
           /\ own'[dw] = own[dw]
           /\ \/ own[dw] \in deleting
              \/ pc[dw] \in RunLabels /\ (pc[dw] = "writeStart" <=> to = "writeStart")
  PROVE  Level
<1>1. pc'[p] = to
      /\ \A q \in Procs \ {p} : pc'[q] = pc[q] \/ (pc[q] = "waiting" /\ pc'[q] = "idle")
  BY Moved
<1>2. "idle" \notin RunLabels
  BY DEF RunLabels
<1> QED BY <1>1, <1>2, Kinds DEF Level

\* What was due stays due, and every card that changes is due.
LEMMA SyncedMove ==
  ASSUME TypeOK, TypeOK', Ownership, NEW p \in Procs \ {closer}, NEW to,
         Goto(p, to) \/ WakeGoto(p, to),
         pc[p] \notin {"saveStart", "save"}, \A q \in Procs \ {p} : own'[q] = own[q],
         \A r \in Runs : pending[r] > 0 => pending'[r] > 0, todo'[closer] = todo[closer],
         NoFaults' => \A r \in Shown' :
           Due(r)' \/ (job'[r].status = job[r].status /\ job'[r].titled = job[r].titled)
  PROVE  Synced
<1>1. ASSUME NEW r \in Shown', Due(r)
      PROVE  Due(r)'
  <2>1. r \in Runs
    BY DEF Shown, TypeOK, RegistryOK, Registry, Runs, MaybeRun, NoRun
  <2> QED BY <1>1, <2>1, DueKept
<1> QED BY <1>1 DEF Synced

\* A request that is no save, and is not at one of the labels under a lock.
LEMMA RequestHarmless ==
  ASSUME TypeOK, TypeOK', Identity, Ownership, NEW c \in Clients,
         \/ \E i \in Ids : SubmitAnswered(c, i) \/ SubmitWaits(c, i)
         \/ List(c) \/ Downgrade(c) \/ WaitTimesOut(c)
         \/ \E r \in Runs : StatFinds(c, r) \/ StatMisses(c, r)
  PROVE  Harmless
<1>1. UNCHANGED <<phase, jobs, created, removed, disk, saveMu, snap, deleting>>
  BY DEF SubmitAnswered, SubmitWaits, List, Downgrade, WaitTimesOut, StatFinds, StatMisses,
         ownFrame, lifeVars, regVars, flagVars, saveVars
<1>2. left'.vanish = left.vanish /\ (NoFaults' => NoFaults)
  BY FaultUsed
  DEF SubmitAnswered, SubmitWaits, List, Downgrade, WaitTimesOut, StatFinds, StatMisses, ownFrame,
      NoFaults
<1>3. UNCHANGED <<job, pending>> \/ (pc[c] = "downgrade" /\ SpawnSave(own[c])
                                   /\ job' = [job EXCEPT ![own[c]].status = "failed"])
  BY DEF SubmitAnswered, SubmitWaits, List, Downgrade, WaitTimesOut, StatFinds, StatMisses,
         ownFrame, regVars, saveVars
<1>4. pc[c] = "downgrade" => own[c] \in Runs
  BY Kinds DEF TypeOK, ProcsOK, FreeLabels
<1>5. SameIds /\ \A r \in Runs : job'[r] = job[r] \/ Due(r)'
  <2>1. CASE UNCHANGED job
    BY <2>1 DEF SameIds
  <2>2. CASE job' # job
    BY <1>3, <1>4, <2>2, SpawnDue, JobKinds DEF Statuses
  <2> QED BY <2>1, <2>2
<1>6. \A r \in Runs : pending[r] > 0 => pending'[r] > 0
  BY <1>3, <1>4, SpawnDue
<1>7. \A r \in Runs : job'[r].status = "ready" => job[r].status = "ready"
  BY RequestCalm DEF Calm
<1>8. /\ pc[c] \in {"idle", "resubmit", "listing", "downgrade", "awaitSubmit", "awaitDelete"}
      /\ \E to \in {"idle", "listing", "downgrade", "awaitSubmit"} : Goto(c, to)
  BY DEF SubmitAnswered, SubmitWaits, List, Downgrade, WaitTimesOut, StatFinds, StatMisses,
         Asks, ListNext
<1>9. \A q \in Procs \ {c} : own'[q] = own[q]
  BY DEF SubmitAnswered, SubmitWaits, List, Downgrade, WaitTimesOut, StatFinds, StatMisses,
         Unowned, TypeOK, ProcsOK
<1>10. todo'[closer] = todo[closer]
  BY Kinds DEF SubmitAnswered, SubmitWaits, List, Downgrade, WaitTimesOut, StatFinds, StatMisses,
         ownFrame, TypeOK, ProcsOK
<1>11. Handless /\ Level
  BY <1>8, <1>9, Kinds, HandlessMove, LevelMove DEF HoldLabels, WriteLabels
<1>12. Synced
  <2>1. \A r \in Shown' : r \in Runs
    BY DEF Shown, TypeOK, RegistryOK, Registry, Runs, MaybeRun, NoRun
  <2> QED BY <1>5, <1>6, <1>8, <1>9, <1>10, <2>1, Kinds, SyncedMove
<1> QED BY <1>1, <1>2, <1>5, <1>7, <1>11, <1>12 DEF Harmless, Quiet

\* A failed job is queued again, and its save spawned.
LEMMA RequeueHarmless ==
  ASSUME TypeOK, TypeOK', Identity, Ownership, NEW c \in Clients, NEW i \in Ids,
         SubmitRequeues(c, i) \/ Retry(c, i)
  PROVE  Harmless
<1> DEFINE r == jobs[i]
<1>1. /\ UNCHANGED <<phase, jobs, created, removed, disk, saveMu, snap, deleting, left, todo>>
      /\ r \in Runs /\ requeueLocked(r) /\ SpawnSave(r)
      /\ pc[c] \in {"idle", "resubmit"} /\ WakeGoto(c, "idle")
  BY DEF SubmitRequeues, Retry, Requeueable, requeueLocked, Asks, TypeOK, RegistryOK, MaybeRun,
         Runs, NoRun, lifeVars
<1>2. \A q \in Procs \ {c} : own'[q] = own[q]
  BY DEF SubmitRequeues, Retry, Unowned, TypeOK, ProcsOK
<1>3. SameIds /\ \A q \in Runs : job'[q] = job[q] \/ (Due(q)' /\ job'[q].status # "ready")
  BY <1>1, RequeueKind, SpawnDue
<1>4. \A q \in Runs : pending[q] > 0 => pending'[q] > 0
  BY <1>1, SpawnDue
<1>5. Handless /\ Level
  BY <1>1, <1>2, Kinds, HandlessMove, LevelMove DEF HoldLabels, WriteLabels
<1>6. Synced
  <2>1. \A q \in Shown' : q \in Runs
    BY DEF Shown, TypeOK, RegistryOK, Registry, Runs, MaybeRun, NoRun
  <2> QED BY <1>1, <1>2, <1>3, <1>4, <2>1, Kinds, SyncedMove
<1> QED BY <1>1, <1>3, <1>5, <1>6 DEF Harmless, Quiet, NoFaults

\* Delete marks a card.
LEMMA DeleteHarmless ==
  ASSUME TypeOK, TypeOK', Ownership, NEW c \in Clients, NEW i \in Ids, Delete(c, i)
  PROVE  Harmless
<1>1. /\ UNCHANGED <<phase, jobs, job, created, removed, disk, saveMu, snap, left, todo, pending>>
      /\ deleting \subseteq deleting' /\ pc[c] = "idle"
      /\ \E to \in {"awaitDelete", "finalize"} : Goto(c, to)
      /\ \A q \in Procs \ {c} : own'[q] = own[q]
  BY DEF Delete, Asks, lifeVars, regVars, saveVars, TypeOK, ProcsOK
<1>2. Handless /\ Level
  BY <1>1, Kinds, HandlessMove, LevelMove DEF HoldLabels, WriteLabels
<1>3. Synced
  BY <1>1, Kinds, SyncedMove
<1> QED BY <1>1, <1>2, <1>3 DEF Harmless, Quiet, SameIds, NoFaults

\* One goroutine moves on, and what it does to job objects is due to be saved.
LEMMA MoveHarmless ==
  ASSUME TypeOK, TypeOK', Ownership, NEW p \in Procs \ {closer}, NEW to,
         Goto(p, to) \/ WakeGoto(p, to), \A q \in Procs \ {p} : own'[q] = own[q],
         UNCHANGED <<phase, jobs, created, removed, disk, saveMu, snap, deleting>>,
         UNCHANGED left \/ Fault, todo'[closer] = todo[closer],
         pc[p] \notin HoldLabels \union {"saveStart", "save"},
         to \notin HoldLabels \union {"mark"}, to # "succeeded" \/ ~NoFaults',
         p = dw /\ to \in RunLabels =>
           /\ own'[dw] = own[dw]
           /\ \/ own[dw] \in deleting
              \/ pc[dw] \in RunLabels /\ (pc[dw] = "writeStart" <=> to = "writeStart"),
         \A r \in Runs : /\ pending[r] > 0 => pending'[r] > 0
                         /\ job'[r].id = job[r].id
                         /\ job'[r].status = "ready" => job[r].status = "ready"
                         /\ NoFaults' =>
                              Due(r)' \/ (job'[r].status = job[r].status
                                          /\ job'[r].titled = job[r].titled)
  PROVE  Harmless
<1>1. left'.vanish = left.vanish /\ (NoFaults' => NoFaults)
  BY FaultUsed DEF NoFaults
<1>2. Quiet
  BY <1>1 DEF Quiet, SameIds
<1>3. Handless
  BY HandlessMove
<1>4. Level
  BY LevelMove
<1>5. Synced
  <2>1. \A r \in Shown' : r \in Runs
    BY DEF Shown, TypeOK, RegistryOK, Registry, Runs, MaybeRun, NoRun
  <2> QED BY <2>1, SyncedMove
<1> QED BY <1>2, <1>3, <1>4, <1>5 DEF Harmless

\* The worker owns a job object while it is at work.
LEMMA BusyTyped ==
  ASSUME TypeOK, NEW w \in Workers, Busy(w)
  PROVE  own[w] \in Runs
  BY Kinds DEF TypeOK, ProcsOK, Busy, BusyLabels, FreeLabels

\* Steps of the download worker that change no job object.
LEMMA TurnHarmless ==
  ASSUME TypeOK, TypeOK', Ownership,
         \/ \E r \in Runs : PickDownload(r)
         \/ CheckContext \/ PublishNothing \/ PipelineFails \/ PipelineCanceled \/ ReleaseDownload
  PROVE  Harmless
<1>1. /\ UNCHANGED <<phase, jobs, job, created, removed, disk, saveMu, snap, pending, deleting>>
      /\ (UNCHANGED left \/ Fault) /\ todo' = todo
  BY DEF PickDownload, CheckContext, PublishNothing, PipelineFails, PipelineCanceled,
         ReleaseDownload, Moves, pcFrame, lifeVars, regVars, flagVars, saveVars
<1>2. /\ pc[dw] \notin HoldLabels \union {"saveStart", "save"}
      /\ \E to \in {"picked", "publish", "succeeded", "errored", "canceled", "finalize", "idle"} :
           /\ Goto(dw, to) \/ WakeGoto(dw, to)
           /\ to = "publish" => pc[dw] = "verifying" /\ own'[dw] = own[dw]
           /\ to = "succeeded" => Fault
  BY DEF PickDownload, CheckContext, PublishNothing, PipelineFails, PipelineCanceled,
         ReleaseDownload, Moves, pcFrame, PipelineLabels, HoldLabels, WriteLabels
<1>3. \A q \in Procs \ {dw} : own'[q] = own[q]
  BY Kinds DEF PickDownload, CheckContext, PublishNothing, PipelineFails, PipelineCanceled,
         ReleaseDownload, Moves, pcFrame, Unowned, TypeOK, ProcsOK
<1>4. Fault => ~NoFaults'
  BY FaultUsed
<1>5. {"picked", "publish", "succeeded", "errored", "canceled", "finalize", "idle"}
        \intersect (HoldLabels \union {"mark"}) = {}
      /\ {"picked", "succeeded", "errored", "canceled", "finalize", "idle"} \intersect
           RunLabels = {}
      /\ "verifying" \in RunLabels
  BY DEF HoldLabels, WriteLabels, RunLabels
<1> QED BY <1>1, <1>2, <1>3, <1>4, <1>5, Kinds, MoveHarmless

\* The download worker starts a job, or reports a stage.
LEMMA AdvanceHarmless ==
  ASSUME TypeOK, TypeOK', Ownership, StartDownload \/ \E stage \in InFlight : Report(stage)
  PROVE  Harmless
<1> DEFINE r == own[dw]
<1>1. /\ UNCHANGED <<phase, jobs, created, removed, disk, saveMu, snap, deleting, left, todo, own>>
      /\ Busy(dw) /\ r \in Runs /\ pc[dw] \notin HoldLabels \union {"saveStart", "save"}
  <2>1. /\ UNCHANGED <<phase, jobs, created, removed, disk, saveMu, snap, deleting, left, todo,
             own>>
        /\ pc[dw] \in {"picked", "prepared", "downloading", "processing"}
    BY DEF StartDownload, Report, NextStages, lifeVars, flagVars, saveVars
  <2>2. Busy(dw) /\ pc[dw] \notin HoldLabels \union {"saveStart", "save"}
    BY <2>1 DEF Busy, BusyLabels, HoldLabels, WriteLabels
  <2> QED BY <2>1, <2>2, BusyTyped, Kinds
<1>2. \/ pc[dw] = "picked" /\ Goto(dw, "saveStart")
      \/ pc[dw] \in RunLabels \ {"writeStart"} /\ \E to \in InFlight : Goto(dw, to)
  BY DEF StartDownload, Report, NextStages, RunLabels, InFlight
<1>3. /\ InFlight \subseteq RunLabels \ {"writeStart"} /\ InFlight \subseteq Statuses
      /\ "saveStart" \notin RunLabels /\ "ready" \notin InFlight
      /\ (InFlight \union {"saveStart"}) \intersect (HoldLabels \union {"mark", "succeeded"}) = {}
  BY DEF InFlight, RunLabels, HoldLabels, WriteLabels, Statuses, Unfinished
<1>4. /\ \A q \in Runs : pending[q] > 0 => pending'[q] > 0
      /\ job' = job \/ (Due(r)' /\ \E s \in InFlight : job' = [job EXCEPT ![r].status = s])
  <2>1. CASE StartDownload
    <3>1. pc'[dw] = "saveStart" /\ own'[dw] = r /\ pending' = pending
      BY <1>1, <2>1, Moved, Kinds DEF StartDownload, saveVars
    <3> QED BY <2>1, <3>1, Kinds DEF StartDownload, Due, InFlight
  <2>2. ASSUME NEW stage \in InFlight, Report(stage)
        PROVE  /\ \A q \in Runs : pending[q] > 0 => pending'[q] > 0
               /\ job' = job \/ (Due(r)' /\ job' = [job EXCEPT ![r].status = stage])
    BY <1>1, <2>2, SpawnDue DEF Report
  <2> QED BY <2>1, <2>2
<1>5. \A q \in Runs : /\ job'[q].id = job[q].id
                      /\ job'[q].status = "ready" => job[q].status = "ready"
                      /\ Due(q)' \/ (job'[q].status = job[q].status
                                     /\ job'[q].titled = job[q].titled)
  <2>1. CASE job' = job
    BY <2>1
  <2>2. ASSUME NEW s \in InFlight, job' = [job EXCEPT ![r].status = s], Due(r)'
        PROVE  /\ job'[r].status # "ready" /\ job'[r].id = job[r].id
               /\ \A q \in Runs \ {r} : job'[q] = job[q]
    BY <1>1, <1>3, <2>2 DEF TypeOK, RegistryOK, Job
  <2> QED BY <1>1, <1>4, <2>1, <2>2
<1> QED BY <1>1, <1>2, <1>3, <1>4, <1>5, Kinds, MoveHarmless

\* Steps of a title worker.
LEMMA TitleHarmless ==
  ASSUME TypeOK, TypeOK', Ownership, NEW t \in TitleWorkers,
         \/ \E r \in Runs : PickTitle(t, r)
         \/ \E label \in {"fetched", "rejected", "erred"} : FetchReturns(t, label)
         \/ StartFetch(t) \/ ApplyTitle(t) \/ ApplyRejection(t) \/ AfterError(t)
         \/ Pause(t) \/ BackoffCancelled(t) \/ BackoffElapses(t) \/ GiveUp(t)
         \/ ReleaseFetch(t)
  PROVE  Harmless
<1> DEFINE r == own[t]
<1>1. /\ UNCHANGED <<phase, jobs, created, removed, disk, saveMu, snap, pending, deleting, left>>
      /\ todo' = todo /\ t \in Procs \ {closer} /\ t # dw
  BY Kinds DEF PickTitle, FetchReturns, StartFetch, ApplyTitle, ApplyRejection, AfterError, Pause,
         BackoffCancelled, BackoffElapses, GiveUp, ReleaseFetch, Moves, pcFrame, jobFrame,
         lifeVars, regVars, flagVars, saveVars
<1>2. /\ pc[t] \in {"idle", "picked", "fetch", "fetched", "rejected", "erred", "pause", "backoff",
                    "giveUp", "release"}
      /\ \E to \in {"picked", "fetch", "fetched", "rejected", "erred", "release", "pause", "giveUp",
                    "backoff", "save", "finalize", "idle"} : Goto(t, to) \/ WakeGoto(t, to)
  BY DEF PickTitle, FetchReturns, StartFetch, ApplyTitle, ApplyRejection, AfterError, Pause,
         BackoffCancelled, BackoffElapses, GiveUp, ReleaseFetch, Moves
<1>3. \A q \in Procs \ {t} : own'[q] = own[q]
  BY DEF PickTitle, FetchReturns, StartFetch, ApplyTitle, ApplyRejection, AfterError, Pause,
         BackoffCancelled, BackoffElapses, GiveUp, ReleaseFetch, Moves, pcFrame, jobFrame,
         Unowned, TypeOK, ProcsOK
<1>4. \A q \in Runs : job'[q].status = "ready" => job[q].status = "ready"
  BY TitleCalm DEF Calm
<1>5. \A q \in Runs : /\ job'[q].id = job[q].id
                      /\ Due(q)' \/ (job'[q].status = job[q].status
                                     /\ job'[q].titled = job[q].titled)
  <2>1. CASE job' = job
    BY <2>1
  <2>2. CASE job' # job /\ ~GiveUp(t)
    <3>1. /\ pc[t] \in {"fetched", "rejected"} /\ Goto(t, "save") /\ own' = own
          /\ \/ \E b \in BOOLEAN : job' = [job EXCEPT ![r].titled = b]
             \/ job' = [job EXCEPT ![r].status = "failed"]
      BY <2>2, Zenon
      DEF PickTitle, FetchReturns, StartFetch, ApplyTitle, ApplyRejection, AfterError, Pause,
          BackoffCancelled, BackoffElapses, ReleaseFetch, Moves, pcFrame, jobFrame, regVars
    <3>2. r \in Runs /\ "failed" \in Statuses
      BY <1>1, <3>1, BusyTyped, Kinds DEF Busy, BusyLabels, Statuses
    <3>3. SameIds /\ \A q \in Runs \ {r} : job'[q] = job[q]
      BY <3>1, <3>2, JobKinds
    <3>4. Due(r)'
      BY <1>1, <3>1, Moved DEF Due
    <3> QED BY <3>1, <3>3, <3>4 DEF SameIds
  <2>3. CASE GiveUp(t)
    BY <2>3 DEF GiveUp, TypeOK, RegistryOK, Job
  <2> QED BY <2>1, <2>2, <2>3
<1>6. /\ {"idle", "picked", "fetch", "fetched", "rejected", "erred", "pause", "backoff",
          "giveUp", "release"} \intersect (HoldLabels \union {"saveStart", "save"}) = {}
      /\ {"picked", "fetch", "fetched", "rejected", "erred", "release", "pause", "giveUp",
          "backoff", "save", "finalize", "idle"} \intersect
            (HoldLabels \union {"mark", "succeeded"})
         = {}
  BY DEF HoldLabels, WriteLabels
<1> QED BY <1>1, <1>2, <1>3, <1>4, <1>5, <1>6, MoveHarmless

\* A worker goes to sleep or leaves, or gives up saving.
LEMMA RestHarmless ==
  ASSUME TypeOK, TypeOK', Ownership, StoredOK, NEW w \in Workers,
         Sleep(w) \/ ExitWorker(w) \/ Mark(w)
  PROVE  Harmless
<1>1. /\ UNCHANGED <<phase, jobs, created, removed, disk, saveMu, snap, pending, deleting, left>>
      /\ todo' = todo /\ own' = own /\ w \in Procs \ {closer}
  BY Kinds DEF Sleep, ExitWorker, Mark, Moves, pcFrame, jobFrame, lifeVars, regVars, flagVars,
               saveVars
<1>2. /\ pc[w] \in {"idle", "mark"}
      /\ \E to \in {"waiting", "exited", "release"} : Goto(w, to)
  BY DEF Sleep, ExitWorker, Mark, Moves
<1>3. {"idle", "mark", "waiting", "exited", "release"} \intersect (HoldLabels \union RunLabels) = {}
  BY DEF HoldLabels, WriteLabels, RunLabels
<1>4. \A q \in Runs : /\ job'[q].id = job[q].id
                      /\ job'[q].status = "ready" => job[q].status = "ready"
                      /\ NoFaults' => job'[q] = job[q]
  <2>1. CASE Sleep(w) \/ ExitWorker(w)
    BY <2>1 DEF Sleep, ExitWorker, Moves, pcFrame, regVars
  <2>2. CASE Mark(w)
    <3>1. own[w] \in Runs /\ pc[w] = "mark" /\ "failed" \in Statuses
      BY <2>2, BusyTyped DEF Mark, Busy, BusyLabels, Statuses
    <3>2. ~NoFaults'
      BY <1>1, <3>1 DEF StoredOK, NoFaults
    <3>3. job' = job \/ job' = [job EXCEPT ![own[w]].status = "failed"]
      BY <2>2 DEF Mark
    <3>4. \A q \in Runs : job'[q].status \in {job[q].status, "failed"}
      BY <3>1, <3>3, Failed
    <3>5. SameIds
      BY <3>1, <3>3, JobKinds
    <3> QED BY <3>2, <3>4, <3>5 DEF SameIds
  <2> QED BY <2>1, <2>2
<1> QED BY <1>1, <1>2, <1>3, <1>4, MoveHarmless

\* saveCurrent finds its job gone or going.
LEMMA SkipHarmless ==
  ASSUME TypeOK, TypeOK', Ownership, NEW p \in Workers \union {closer}, SkipSave(p)
  PROVE  Harmless
<1>1. /\ UNCHANGED <<phase, jobs, job, created, removed, disk, saveMu, snap, pending, deleting,
           left>>
      /\ todo' = todo /\ own' = own /\ p \in Procs /\ pc[p] \in {"saveStart", "save"}
      /\ own[p] \notin Shown
  BY Kinds DEF SkipSave, Moves, pcFrame, lifeVars, regVars, flagVars, saveVars, Saveable, Current,
               Shown
<1>2. /\ p = closer => pc[p] = "save"
      /\ Goto(p, Saved(p))
      /\ Saved(p) = IF pc[p] = "saveStart" THEN "prepare" ELSE IF p =
           closer THEN "saving" ELSE "release"
  BY <1>1 DEF SkipSave, Moves, Saved, Ownership, KindsOK, CloserLabels
<1>3. {"saveStart", "save", "prepare", "saving", "release", "idle"}
        \intersect (HoldLabels \union {"mark", "succeeded"}) = {}
      /\ {"saveStart", "save", "release", "saving"} \intersect RunLabels = {}
  BY DEF HoldLabels, WriteLabels, RunLabels
<1>4. Handless
  BY <1>1, <1>2, <1>3, HandlessMove
<1>5. p = dw => own[dw] \in deleting
  <2>1. p = dw => Busy(dw)
    BY <1>1 DEF Busy, BusyLabels
  <2> QED BY <1>1, <2>1 DEF Ownership, ClaimsOK, OwnedIsRegistered, Shown
<1>6. Level
  BY <1>1, <1>2, <1>3, <1>5, Kinds, LevelMove
<1>7. ASSUME NEW r \in Shown, Due(r)
      PROVE  Due(r)'
  <2>1. /\ pc'[p] = Saved(p)
        /\ \A q \in Procs \ {p} : pc'[q] = pc[q] \/ (pc[q] = "waiting" /\ pc'[q] = "idle")
    BY <1>1, <1>2, Moved
  <2>2. CASE pending[r] > 0
    BY <1>1, <2>2 DEF Due
  <2>3. CASE \E q \in Procs : own[q] = r /\ pc[q] \in {"saveStart", "save"}
    BY <1>1, <1>7, <2>1, <2>3 DEF Due
  <2>4. CASE pc[closer] \in {"saving", "save", "write"} /\ r \in todo[closer]
    BY <1>1, <1>2, <2>1, <2>4, Kinds DEF Due
  <2> QED BY <1>7, <2>2, <2>3, <2>4 DEF Due
<1>8. Shown' = Shown
  BY <1>1 DEF Shown, Registry
<1>9. Synced
  BY <1>1, <1>7, <1>8 DEF Synced
<1> QED BY <1>1, <1>4, <1>6, <1>9 DEF Harmless, Quiet, SameIds, NoFaults

\* Steps of Close that save nothing.
LEMMA CloseHarmless ==
  ASSUME TypeOK, TypeOK', Ownership, CloserOK,
         Close \/ ConvertInterrupted \/ CloseReturns \/ \E r \in Runs : CloseSaves(r)
  PROVE  Harmless
<1>1. /\ UNCHANGED <<phase, jobs, created, removed, disk, saveMu, snap, pending, deleting>>
      /\ \A q \in Procs \ {closer} : own'[q] = own[q]
      /\ left'.vanish = left.vanish /\ (NoFaults' <=> NoFaults)
  BY DEF Close, ConvertInterrupted, CloseReturns, CloseSaves, ownFrame, lifeVars, regVars,
         flagVars, saveVars, Unowned, Restart, NoFaults, TypeOK, ProcsOK, StorageOK
<1>2. /\ pc[closer] \in {"idle", "draining", "saving"}
      /\ \E to \in {"draining", "saving", "save", "closed"} :
           Goto(closer, to) \/ WakeGoto(closer, to)
  BY DEF Close, ConvertInterrupted, CloseReturns, CloseSaves, CloserOK
<1>3. {"idle", "draining", "saving", "save", "closed"}
        \intersect (HoldLabels \union {"mark", "succeeded"} \union RunLabels) = {}
  BY DEF HoldLabels, WriteLabels, RunLabels
<1>4. Handless /\ Level
  BY <1>1, <1>2, <1>3, Kinds, HandlessMove, LevelMove
<1>5. \A q \in Procs \ {closer} : pc'[q] = pc[q] \/ (pc[q] = "waiting" /\ pc'[q] = "idle")
  BY <1>2, Kinds, Moved
<1>6. ASSUME NEW r, Due(r), pc[closer] \in {"saving", "save", "write"} => r \notin todo[closer]
      PROVE  Due(r)'
  BY <1>1, <1>2, <1>5, <1>6 DEF Due
<1>7. ASSUME NEW r \in Runs
      PROVE  /\ job'[r].id = job[r].id /\ (job'[r].status = "ready" => job[r].status = "ready")
             /\ \/ Due(r)'
                \/ ~Due(r) /\ job'[r].status = job[r].status /\ job'[r].titled = job[r].titled
  <2>1. CASE Close
    <3>1. job' = job /\ pc[closer] = "idle"
      BY <2>1 DEF Close, regVars, CloserOK
    <3> QED BY <1>6, <3>1
  <2>2. CASE ConvertInterrupted
    <3>1. /\ pc[closer] = "draining" /\ pc'[closer] = "saving" /\ todo'[closer] = Interrupted
          /\ job'[r] = IF r \in Interrupted THEN [job[r] EXCEPT !.status = "failed"] ELSE job[r]
      BY <2>2, Kinds DEF ConvertInterrupted, Goto, TypeOK, ProcsOK
    <3>2. r \in Interrupted => Due(r)'
      BY <3>1 DEF Due
    <3>3. job[r] \in Job
      BY DEF TypeOK, RegistryOK
    <3> QED BY <1>6, <3>1, <3>2, <3>3 DEF Job
  <2>3. CASE CloseReturns
    BY <1>6, <2>3 DEF CloseReturns, ownFrame, regVars
  <2>4. ASSUME NEW s \in Runs, CloseSaves(s)
        PROVE  job' = job /\ (Due(r) => Due(r)')
    <3>1. /\ job' = job /\ pc'[closer] = "save" /\ own'[closer] = s
          /\ todo'[closer] = todo[closer] \ {s}
      BY <2>4, Kinds DEF CloseSaves, regVars, Goto, TypeOK, ProcsOK
    <3>2. r = s => Due(r)'
      BY <3>1, Kinds DEF Due
    <3>3. r \in todo[closer] /\ r # s => Due(r)'
      BY <3>1 DEF Due
    <3> QED BY <1>6, <3>1, <3>2, <3>3
  <2> QED BY <2>1, <2>2, <2>3, <2>4
<1>8. Synced
  <2>1. \A r \in Shown' : r \in Runs
    BY DEF Shown, TypeOK, RegistryOK, Registry, Runs, MaybeRun, NoRun
  <2> QED BY <1>7, <2>1 DEF Synced
<1> QED BY <1>1, <1>4, <1>7, <1>8 DEF Harmless, Quiet, SameIds

\* The workers are started.
LEMMA BootHarmless ==
  ASSUME TypeOK, Boot PROVE Harmless
<1>1. /\ UNCHANGED <<jobs, job, created, removed, disk, saveMu, snap, pending, deleting, left, pc,
                     own, todo>>
      /\ phase # "serving" /\ phase' # "serving"
  BY DEF Boot, regVars, flagVars, procVars, saveVars
<1>2. Handless
  BY <1>1, HandlessStill
<1>3. \A r : Due(r)' <=> Due(r)
  BY <1>1 DEF Due
<1>4. Synced /\ Level
  BY <1>1, <1>3 DEF Synced, Level
<1> QED BY <1>1, <1>2, <1>4 DEF Harmless, Quiet, SameIds, NoFaults

\* The end of a download leaves the result to its save.
LEMMA EndHarmless ==
  ASSUME TypeOK, TypeOK', Ownership, EndDownload
  PROVE  Harmless
<1> DEFINE r == own[dw]
<1>1. /\ UNCHANGED <<phase, jobs, created, removed, disk, saveMu, snap, pending, deleting, left,
                     todo, own>>
      /\ pc[dw] \in {"succeeded", "errored", "canceled"}
  BY DEF EndDownload, jobFrame, lifeVars, flagVars, saveVars
<1>2. r \in Runs
  BY <1>1, BusyTyped, Kinds DEF Busy, BusyLabels
<1>3. \/ job' = job /\ Goto(dw, "release")
      \/ Goto(dw, "save") /\ \E s \in {"ready", "failed"}, b \in BOOLEAN :
           (s = "ready" => pc[dw] = "succeeded")
           /\ job' = [job EXCEPT ![r].status = s, ![r].titled = b]
  <2>1. CASE ResultDropped(r)
    BY <2>1 DEF EndDownload
  <2>2. CASE ~ResultDropped(r)
    <3> DEFINE s == IF pc[dw] = "succeeded" THEN "ready" ELSE "failed"
    <3>1. Goto(dw, "save") /\ \E known \in BOOLEAN :
            job' = [job EXCEPT ![r].status = s, ![r].titled = @ \/ known]
      BY <2>2, Zenon DEF EndDownload
    <3>2. PICK known \in BOOLEAN : job' = [job EXCEPT ![r].status = s, ![r].titled = @ \/ known]
      BY <3>1, Zenon
    <3>3. job[r].titled \in BOOLEAN
      BY <1>2 DEF TypeOK, RegistryOK, Job
    <3>4. \E b \in BOOLEAN : job' = [job EXCEPT ![r].status = s, ![r].titled = b]
      BY <3>2, <3>3, Zenon
    <3> QED BY <3>1, <3>4
  <2> QED BY <2>1, <2>2
<1>4. {"succeeded", "errored", "canceled", "release", "save"}
        \intersect (HoldLabels \union {"mark"} \union RunLabels) = {}
  BY DEF HoldLabels, WriteLabels, RunLabels
<1>5. Handless /\ Level
  BY <1>1, <1>3, <1>4, Kinds, HandlessMove, LevelMove
<1>6. \A q \in Runs :
        /\ job'[q].id = job[q].id
        /\ job'[q].status = "ready" => job[q].status = "ready" \/ (q = r /\ pc[dw] = "succeeded")
        /\ Due(q)' \/ (job'[q].status = job[q].status /\ job'[q].titled = job[q].titled)
  <2>1. CASE job' = job
    BY <2>1
  <2>2. ASSUME Goto(dw, "save"), NEW s \in {"ready", "failed"}, NEW b \in BOOLEAN,
               s = "ready" => pc[dw] = "succeeded",
               job' = [job EXCEPT ![r].status = s, ![r].titled = b]
        PROVE  /\ job'[r].id = job[r].id /\ job'[r].status = s
               /\ \A q \in Runs \ {r} : job'[q] = job[q]
               /\ Due(r)'
    <3>1. pc'[dw] = "save"
      BY <2>2, Moved, Kinds
    <3>2. Due(r)'
      BY <1>1, <3>1, Kinds DEF Due
    <3> QED BY <1>2, <2>2, <3>2 DEF TypeOK, RegistryOK, Job
  <2> QED BY <1>1, <1>3, <2>1, <2>2
<1>7. Synced
  <2>1. \A q \in Shown' : q \in Runs
    BY DEF Shown, TypeOK, RegistryOK, Registry, Runs, MaybeRun, NoRun
  <2>2. pc[dw] \notin {"saveStart", "save"}
    BY <1>1
  <2>3. \A q \in Shown' : Due(q)'
          \/ (job'[q].status = job[q].status /\ job'[q].titled = job[q].titled)
    BY <1>6, <2>1
  <2>4. \A q \in Procs \ {dw} : own'[q] = own[q]
    BY <1>1
  <2>5. todo'[closer] = todo[closer] /\ \A q \in Runs : pending[q] > 0 => pending'[q] > 0
    BY <1>1
  <2>6. CASE Goto(dw, "release")
    BY <2>2, <2>3, <2>4, <2>5, <2>6, Kinds, SyncedMove
  <2>7. CASE Goto(dw, "save")
    BY <2>2, <2>3, <2>4, <2>5, <2>7, Kinds, SyncedMove
  <2> QED BY <1>3, <2>6, <2>7
<1> QED BY <1>1, <1>5, <1>6, <1>7 DEF Harmless, Quiet, SameIds, NoFaults

-----------------------------------------------------------------------------
(* Steps under saveMu. *)

\* The holder works on a card that is registered, and no two on the same.
LEMMA Holder ==
  ASSUME TypeOK, Identity, LocksOK, NEW p \in Procs, pc[p] \in HoldLabels
  PROVE  /\ own[p] \in Runs /\ own[p] \in Registry /\ saveMu[own[p]] = p
         /\ job[own[p]].id \in Ids /\ jobs[job[own[p]].id] = own[p]
<1>1. own[p] \in Runs /\ saveMu[own[p]] = p
  BY HolderTyped DEF LocksOK
<1>2. own[p] \in Registry
  BY <1>1, HolderNames DEF LocksOK
<1> QED BY <1>1, <1>2, Registered

\* All but this one stay where they are with their locks.
OthersHold(h) ==
  \A q \in Procs \ {h} : pc[q] \in HoldLabels \/ pc'[q] \in HoldLabels =>
                           pc'[q] = pc[q] /\ own'[q] = own[q]

LEMMA OthersMove ==
  ASSUME TypeOK, NEW p \in Procs, NEW to, Goto(p, to) \/ WakeGoto(p, to),
         \A q \in Procs \ {p} : own'[q] = own[q]
  PROVE  OthersHold(p)
<1>1. \A q \in Procs \ {p} : pc'[q] = pc[q] \/ (pc[q] = "waiting" /\ pc'[q] = "idle")
  BY Moved
<1> QED BY <1>1, HoldZones DEF OthersHold

\* A step about one job leaves the saves of the others alone.
LEMMA OthersSave ==
  ASSUME TypeOK, LocksOK, NEW h, OthersHold(h), NEW r \in Runs, NEW q \in Runs \ {r},
         saveMu'[q] = saveMu[q],
         h \in Procs /\ pc[h] \in HoldLabels => own[h] = r,
         h \in Procs /\ pc'[h] \in HoldLabels => own'[h] = r
  PROVE  InSave(q)' <=> InSave(q)
<1>1. CASE saveMu[q] \in Procs
  <2>1. pc[saveMu[q]] \in HoldLabels /\ own[saveMu[q]] = q
    BY <1>1 DEF LocksOK
  <2> QED BY <1>1, <2>1, HoldZones, HolderNames DEF OthersHold, InSave
<1>2. CASE saveMu[q] \notin Procs
  BY <1>2 DEF InSave
<1> QED BY <1>1, <1>2

\* saveMu is taken for a registered job.
LEMMA LockTaken ==
  ASSUME TypeOK, LocksOK, NEW h \in Procs \union {async}, OthersHold(h), NEW r \in Runs,
         r \in Registry, saveMu[r] = free, saveMu' = [saveMu EXCEPT ![r] = h],
         h \in Procs => pc[h] \notin HoldLabels /\ pc'[h] \in HoldLabels /\ own'[h] = r,
         \A q \in Runs \ {r} : snap'[q] = snap[q],
         IF h = async \/ pc'[h] \in WriteLabels THEN snap'[r].run = r ELSE snap'[r] = NoMeta,
         Registry' = Registry
  PROVE  LocksOK' /\ (InSave(r)' <=> h = async \/ pc'[h] \in WriteLabels)
<1>1. saveMu'[r] = h /\ \A q \in Runs \ {r} : saveMu'[q] = saveMu[q]
  BY DEF TypeOK, SavesOK
<1>2. \A p \in Procs : pc'[p] \in HoldLabels => saveMu'[own'[p]] = p
  <2>1. ASSUME NEW p \in Procs \ {h}, pc'[p] \in HoldLabels
        PROVE  saveMu'[own'[p]] = p
    <3>1. pc[p] \in HoldLabels /\ own'[p] = own[p] /\ own[p] \in Runs
      BY <2>1, HolderTyped DEF OthersHold
    <3>2. saveMu[own[p]] = p /\ own[p] # r
      BY <3>1, HolderNames DEF LocksOK
    <3> QED BY <1>1, <3>1, <3>2
  <2> QED BY <1>1, <2>1
<1>3. InSave(r)' <=> h = async \/ pc'[h] \in WriteLabels
  BY <1>1, HolderNames DEF InSave
<1>4. ASSUME NEW q \in Runs
      PROVE  /\ saveMu'[q] \in Procs => pc'[saveMu'[q]] \in HoldLabels /\ own'[saveMu'[q]] = q
             /\ saveMu'[q] # free => q \in Registry'
  <2>1. CASE q = r
    BY <1>1, <2>1, HolderNames
  <2>2. CASE q # r
    <3>1. saveMu[q] = h => h \notin Procs
      BY DEF LocksOK
    <3> QED BY <1>1, <2>2, <3>1 DEF LocksOK, OthersHold
  <2> QED BY <2>1, <2>2
<1>5. ASSUME NEW q \in Runs
      PROVE  IF InSave(q)' THEN snap'[q].run = q ELSE snap'[q] = NoMeta
  <2>1. CASE q = r
    BY <1>3, <2>1
  <2>2. CASE q # r
    <3>1. InSave(q)' <=> InSave(q)
      BY <1>1, <2>2, OthersSave
    <3> QED BY <2>2, <3>1 DEF LocksOK
  <2> QED BY <2>1, <2>2
<1> QED BY <1>2, <1>3, <1>4, <1>5 DEF LocksOK

\* saveMu is let go of.
LEMMA LockFreed ==
  ASSUME TypeOK, LocksOK, NEW h \in Procs \union {async}, OthersHold(h), NEW r \in Runs,
         saveMu[r] = h, saveMu' = [saveMu EXCEPT ![r] = free],
         h \in Procs => pc'[h] \notin HoldLabels,
         \A q \in Runs \ {r} : snap'[q] = snap[q], snap'[r] = NoMeta,
         Registry \ {r} \subseteq Registry'
  PROVE  LocksOK' /\ ~InSave(r)'
<1>1. saveMu'[r] = free /\ \A q \in Runs \ {r} : saveMu'[q] = saveMu[q]
  BY DEF TypeOK, SavesOK
<1>2. \A p \in Procs : pc'[p] \in HoldLabels => saveMu'[own'[p]] = p
  <2>1. ASSUME NEW p \in Procs \ {h}, pc'[p] \in HoldLabels
        PROVE  saveMu'[own'[p]] = p
    <3>1. pc[p] \in HoldLabels /\ own'[p] = own[p] /\ own[p] \in Runs
      BY <2>1, HolderTyped DEF OthersHold
    <3>2. saveMu[own[p]] = p /\ own[p] # r
      BY <3>1 DEF LocksOK
    <3> QED BY <1>1, <3>1, <3>2
  <2> QED BY <2>1
<1>3. ~InSave(r)'
  BY <1>1, HolderNames DEF InSave
<1>4. h \in Procs => pc[h] \in HoldLabels /\ own[h] = r
  BY DEF LocksOK
<1>5. ASSUME NEW q \in Runs
      PROVE  /\ saveMu'[q] \in Procs => pc'[saveMu'[q]] \in HoldLabels /\ own'[saveMu'[q]] = q
             /\ saveMu'[q] # free => q \in Registry'
  <2>1. CASE q = r
    BY <1>1, <2>1, HolderNames
  <2>2. CASE q # r
    <3>1. saveMu[q] = h => h \notin Procs
      BY <1>4, <2>2 DEF LocksOK
    <3> QED BY <1>1, <2>2, <3>1 DEF LocksOK, OthersHold
  <2> QED BY <2>1, <2>2
<1>6. ASSUME NEW q \in Runs
      PROVE  IF InSave(q)' THEN snap'[q].run = q ELSE snap'[q] = NoMeta
  <2>1. CASE q = r
    BY <1>3, <2>1
  <2>2. CASE q # r
    <3>1. InSave(q)' <=> InSave(q)
      BY <1>1, <1>4, <2>2, OthersSave
    <3> QED BY <2>2, <3>1 DEF LocksOK
  <2> QED BY <2>1, <2>2
<1> QED BY <1>2, <1>3, <1>5, <1>6 DEF LocksOK

\* One goroutine moves on: what is due for the jobs it does not go to save
\* now stays due.
LEMMA DueOfOthers ==
  ASSUME TypeOK, NEW p \in Procs, NEW to, Goto(p, to) \/ WakeGoto(p, to),
         \A q \in Procs \ {p} : own'[q] = own[q], todo'[closer] = todo[closer],
         p = closer => to \in {"saving", "save", "write"},
         p # closer => pc[closer] # "waiting",
         NEW r \in Runs, pending[r] > 0 => pending'[r] > 0, Due(r),
         own[p] # r \/ pc[p] \notin {"saveStart", "save"} \/ (p = closer /\ r \in todo[closer])
  PROVE  Due(r)'
<1>1. /\ pc'[p] = to
      /\ \A q \in Procs \ {p} : pc'[q] = pc[q] \/ (pc[q] = "waiting" /\ pc'[q] = "idle")
  BY Moved
<1>2. CASE pending[r] > 0
  BY <1>2 DEF Due
<1>3. CASE pc[closer] \in {"saving", "save", "write"} /\ r \in todo[closer]
  BY <1>1, <1>3, Kinds DEF Due
<1>4. ASSUME NEW q \in Procs, own[q] = r, pc[q] \in {"saveStart", "save"}
      PROVE  Due(r)'
  <2>1. CASE q # p
    BY <1>1, <1>4, <2>1 DEF Due
  <2>2. CASE q = p
    BY <1>1, <1>4, <2>2 DEF Due
  <2> QED BY <2>1, <2>2
<1> QED BY <1>2, <1>3, <1>4 DEF Due

\* A save in its first section takes the lock and the snapshot.
LEMMA SnapshotTaken ==
  ASSUME TypeOK, TypeOK', Identity, Ownership, Scheduling, Persistence,
         NEW h \in Procs \union {async}, NEW r \in Shown, OthersHold(h),
         Lock(r, h), Snapshot(r),
         UNCHANGED <<phase, jobs, job, created, removed, disk, left, deleting>>,
         h \in Procs => pc[h] \notin HoldLabels /\ pc'[h] \in WriteLabels /\ own'[h] = r,
         \A p \in Procs : pc'[p] \in {"mark", "succeeded"} => pc'[p] = pc[p] /\ own'[p] = own[p],
         \A q \in Shown \ {r} : Due(q) => Due(q)',
         pc'[dw] \in RunLabels => /\ own'[dw] = own[dw] /\ pc[dw] \in EarlyLabels
                                  /\ pc'[dw] # "writeStart" => pc[dw] \in RunLabels \ {"writeStart"}
                                  /\ h # dw => pc'[dw] = pc[dw]
  PROVE  Persistence'
<1>1. r \in Runs /\ r \in Registry
  BY ShownTyped
<1>2. /\ snap'[r] = MetaOf(r) /\ MetaOf(r).run = r
      /\ \A q \in Runs \ {r} : snap'[q] = snap[q] /\ saveMu'[q] = saveMu[q]
  BY <1>1 DEF Snapshot, Lock, MetaOf, TypeOK, SavesOK
<1>3. Registry' = Registry /\ Shown' = Shown
  BY DEF Registry, Shown
<1>4. LocksOK' /\ InSave(r)'
  BY <1>1, <1>2, <1>3, LockTaken, HoldZones DEF Lock, Persistence
<1>5. RemovedOK'
  <2>1. \A p \in Procs : pc'[p] = "unregister" => pc[p] = "unregister" /\ own'[p] = own[p]
    BY HoldZones DEF OthersHold, HoldLabels
  <2> QED BY <1>3, <2>1 DEF Persistence, RemovedOK, NoFaults
<1>6. StoredOK'
  <2>1. \A p \in Procs : pc'[p] = "stuck" => pc[p] = "stuck"
    BY HoldZones DEF OthersHold, HoldLabels
  <2>2. pc'[dw] = "succeeded" => pc[dw] = "succeeded" /\ own'[dw] = own[dw]
    BY Kinds
  <2>3. \A p \in Procs : pc'[p] = "mark" => pc[p] = "mark"
    OBVIOUS
  <2> QED BY <2>1, <2>2, <2>3 DEF Persistence, StoredOK, NoFaults
<1>7. \A q \in Runs \ {r} : InSave(q)' <=> InSave(q)
  BY <1>1, <1>2, OthersSave, HoldZones DEF Persistence
<1>8. SyncOK'
  <2> SUFFICES ASSUME NoFaults', phase' = "serving", NEW i \in Ids, NEW q \in Runs, jobs'[i] = q,
                      q \notin deleting'
               PROVE  Due(q)' \/ (IF InSave(q)' THEN Same(snap[q], q)' ELSE Restores(disk[i], q)')
    BY SyncIntro
  <2>1. CASE q = r
    BY <1>2, <1>4, <2>1 DEF Same, MetaOf
  <2>2. CASE q # r
    <3>1. q \in Shown /\ q # NoRun
      BY DEF Shown, Registry, Runs, NoRun
    <3>2. Due(q) \/ (IF InSave(q) THEN Same(snap[q], q) ELSE Restores(disk[i], q))
      BY <3>1 DEF Persistence, SyncOK, NoFaults
    <3>3. Due(q) => Due(q)'
      BY <2>2, <3>1
    <3>4. /\ Same(snap[q], q) => Same(snap[q], q)'
          /\ Restores(disk[i], q) => Restores(disk[i], q)'
      BY <1>2, <2>2 DEF Same, Restores, RecoveredStatus
    <3> QED BY <1>7, <2>2, <3>2, <3>3, <3>4
  <2> QED BY <2>1, <2>2
<1>9. PreOK'
  <2> SUFFICES ASSUME NoFaults', pc'[dw] \in RunLabels, NEW q \in Runs, own'[dw] = q,
                      q \notin deleting'
               PROVE  /\ InSave(q)' => snap'[q].status # "ready"
                      /\ pc'[dw] # "writeStart" => disk'[job'[q].id].meta.status # "ready"
    BY PreIntro
  <2>1. own[dw] = q /\ job[q].status # "ready"
    BY DEF Scheduling, ReadyOK
  <2>2. pc'[dw] # "writeStart" => disk[job[q].id].meta.status # "ready"
    BY <2>1 DEF Persistence, PreOK, NoFaults
  <2>3. InSave(q)' => snap'[q].status # "ready"
    <3>1. CASE q = r
      BY <1>2, <2>1, <3>1 DEF MetaOf
    <3>2. CASE q # r
      <4>1. h # dw
        BY <2>1, <3>2, Kinds
      <4>2. pc[dw] \in RunLabels
        BY <4>1
      <4> QED BY <1>2, <1>7, <2>1, <3>2, <4>2 DEF Persistence, PreOK, NoFaults
    <3> QED BY <3>1, <3>2
  <2> QED BY <2>2, <2>3
<1> QED BY <1>4, <1>5, <1>6, <1>8, <1>9 DEF Persistence

\* A save in its last section writes its snapshot, or reports an error.
LEMMA SnapshotStored ==
  ASSUME TypeOK, TypeOK', Identity, Ownership, Scheduling, Persistence,
         NEW h \in Procs \union {async}, NEW r \in Runs, OthersHold(h),
         saveMu[r] = h, InSave(r), Unlock(r), Forget(r), Stores(r) \/ FailsToStore(r),
         UNCHANGED <<phase, jobs, job, created, removed, deleting>>,
         h \in Procs => pc'[h] \notin HoldLabels,
         \A p \in Procs : pc'[p] = "mark" => pc[p] = "mark" \/ ~NoFaults',
         pc'[dw] = "succeeded" => pc[dw] = "succeeded" /\ own'[dw] = own[dw],
         \A q \in Runs : Due(q) => Due(q)',
         pc'[dw] \in RunLabels => own'[dw] = own[dw] /\ pc[dw] \in RunLabels,
         pc'[dw] \in RunLabels /\ pc[dw] = "writeStart" =>
           pc'[dw] = "writeStart" \/ (h = dw /\ own[dw] = r)
  PROVE  Persistence'
<1> DEFINE i == job[r].id
<1>1. r \in Registry /\ i \in Ids /\ jobs[i] = r /\ snap[r].run = r
  BY HolderNames, Registered DEF Persistence, LocksOK
<1>2. /\ snap'[r] = NoMeta /\ \A q \in Runs \ {r} : snap'[q] = snap[q] /\ saveMu'[q] = saveMu[q]
  BY DEF Forget, Unlock, TypeOK, SavesOK
<1>3. /\ \A j \in Ids \ {i} : disk'[j] = disk[j]
      /\ disk'[i] \in FailedSaves(disk[i], snap[r])
      /\ NoFaults' => NoFaults /\ left' = left /\ disk'[i] = Written(disk[i], snap[r])
  <2>1. CASE Stores(r)
    BY <1>1, <2>1 DEF Stores, FailedSaves, NoFaults, TypeOK, StorageOK
  <2>2. CASE FailsToStore(r)
    BY <1>1, <2>2, FaultUsed DEF FailsToStore, TypeOK, StorageOK
  <2> QED BY <2>1, <2>2
<1>4. /\ disk[i] \in Dir
      /\ disk'[i].video = disk[i].video
      /\ disk'[i].meta = disk[i].meta \/ disk'[i].meta = snap[r]
      /\ disk'[i].dir \/ disk'[i] = disk[i]
      /\ Written(disk[i], snap[r]).meta = snap[r]
  <2>1. disk[i] \in Dir
    BY <1>1 DEF TypeOK, StorageOK
  <2>2. ASSUME NEW d \in FailedSaves(disk[i], snap[r])
        PROVE  /\ d.video = disk[i].video
               /\ d.meta = disk[i].meta \/ d.meta = snap[r]
               /\ d.dir \/ d = disk[i]
    BY <2>1 DEF FailedSaves, Written, Dir
  <2>3. Written(disk[i], snap[r]).meta = snap[r]
    BY <2>1 DEF Written, Dir
  <2> QED BY <1>3, <2>1, <2>2, <2>3
<1>5. LocksOK' /\ ~InSave(r)' /\ Registry' = Registry
  <2>1. Registry' = Registry
    BY DEF Registry
  <2> QED BY <1>2, <2>1, LockFreed DEF Unlock, Persistence
<1>6. RemovedOK'
  <2>1. /\ snap[r].run # NoRun /\ r \notin removed
    BY <1>1 DEF Runs, NoRun, Persistence, RemovedOK
  <2>2. ASSUME NEW p \in Procs, pc'[p] = "unregister"
        PROVE  disk'[job'[own'[p]].id] = NoDir
    <3>1. p # h /\ pc[p] = "unregister" /\ own'[p] = own[p]
      BY <2>2 DEF OthersHold, HoldLabels
    <3>2. own[p] # r /\ own[p] \in Runs /\ job[own[p]].id \in Ids /\ jobs[job[own[p]].id] = own[p]
      BY <3>1, Holder DEF HoldLabels, Persistence
    <3>3. disk[job[own[p]].id] = NoDir /\ job[own[p]].id # i
      BY <1>1, <3>1, <3>2 DEF Persistence, RemovedOK
    <3> QED BY <1>3, <3>1, <3>2, <3>3
  <2>3. ASSUME NEW j \in Ids
        PROVE  /\ disk'[j].meta.run \notin removed
               /\ disk'[j].meta.run = NoRun => disk'[j].meta = NoMeta
               /\ disk'[j].dir \/ disk'[j] = NoDir
               /\ phase = "serving" /\ jobs[j] = NoRun =>
                    ~disk'[j].video /\ (NoFaults' => disk'[j] = NoDir)
    <3>1. CASE j = i
      BY <1>1, <1>4, <2>1, <3>1 DEF Persistence, RemovedOK
    <3>2. CASE j # i
      BY <1>3, <3>2 DEF Persistence, RemovedOK
    <3> QED BY <3>1, <3>2
  <2> QED BY <1>5, <2>2, <2>3 DEF Persistence, RemovedOK
<1>7. StoredOK'
  <2> SUFFICES ASSUME NoFaults' PROVE StoredOK'
    BY DEF StoredOK
  <2>1. \A p \in Procs : pc'[p] = "stuck" => pc[p] = "stuck"
    BY DEF OthersHold, HoldLabels
  <2>2. NoFaults /\ left' = left /\ disk'[i] = Written(disk[i], snap[r])
    BY <1>3
  <2>3. disk'[i].dir /\ disk'[i].meta = snap[r] /\ disk'[i].video = disk[i].video
    BY <1>4, <2>2 DEF Written, Dir
  <2>4. \A j \in Ids : disk'[j].video = disk[j].video
    BY <1>3, <2>3
  <2>5. \A j \in Ids : jobs[j] # NoRun => job[jobs[j]].id = j
    BY DEF Identity, CardsOK
  <2>6. pc[dw] = "succeeded" => job[own[dw]].id \in Ids
    <3>1. pc[dw] = "succeeded" => own[dw] \in Registry
      BY Kinds DEF Ownership, ClaimsOK, OwnedIsRegistered, Busy, BusyLabels
    <3> QED BY <3>1, Registered
  <2>7. \A j \in Ids : phase = "serving" /\ jobs[j] # NoRun /\ jobs[j] \notin deleting =>
          disk'[j].dir /\ disk'[j].meta.run \in {NoRun, jobs[j]}
    BY <1>1, <1>3, <2>2, <2>3 DEF Persistence, StoredOK
  <2> QED BY <2>1, <2>2, <2>4, <2>6, <2>7 DEF Persistence, StoredOK
<1>8. \A q \in Runs \ {r} : InSave(q)' <=> InSave(q)
  <2>1. h \in Procs => pc[h] \in HoldLabels /\ own[h] = r
    BY DEF Persistence, LocksOK
  <2> QED BY <1>2, <2>1, OthersSave DEF Persistence
<1>9. SyncOK'
  <2> SUFFICES ASSUME NoFaults', phase' = "serving", NEW j \in Ids, NEW q \in Runs, jobs'[j] = q,
                      q \notin deleting'
               PROVE  Due(q)' \/ (IF InSave(q)' THEN Same(snap[q], q)' ELSE Restores(disk[j], q)')
    BY SyncIntro
  <2>1. NoFaults /\ jobs[j] = q /\ q \notin deleting /\ q # NoRun
        /\ (Due(q) \/ IF InSave(q) THEN Same(snap[q], q) ELSE Restores(disk[j], q))
    BY <1>3 DEF Persistence, SyncOK, Runs, NoRun
  <2>2. CASE q = r
    <3>1. j = i /\ disk'[j].meta = snap[r]
      BY <1>1, <1>3, <1>4, <2>1, <2>2 DEF Identity, CardsOK
    <3>2. Due(q)' \/ Same(snap[q], q)
      BY <2>1, <2>2
    <3>3. Same(snap[q], q) => Restores(disk[j], q)'
      BY <2>2, <3>1 DEF Same, Restores
    <3> QED BY <1>5, <2>2, <3>2, <3>3
  <2>3. CASE q # r
    <3>1. j # i /\ disk'[j] = disk[j] /\ snap'[q] = snap[q]
      BY <1>1, <1>2, <1>3, <2>1, <2>3
    <3>2. /\ Same(snap[q], q) => Same(snap[q], q)'
          /\ Restores(disk[j], q) => Restores(disk[j], q)'
      BY <3>1 DEF Same, Restores, RecoveredStatus
    <3> QED BY <1>8, <2>1, <2>3, <3>2
  <2> QED BY <2>2, <2>3
<1>10. PreOK'
  <2> SUFFICES ASSUME NoFaults', pc'[dw] \in RunLabels, NEW q \in Runs, own'[dw] = q,
                      q \notin deleting'
               PROVE  /\ InSave(q)' => snap'[q].status # "ready"
                      /\ pc'[dw] # "writeStart" => disk'[job'[q].id].meta.status # "ready"
    BY PreIntro
  <2>1. /\ own[dw] = q /\ NoFaults /\ pc[dw] \in RunLabels
        /\ InSave(q) => snap[q].status # "ready"
        /\ pc[dw] # "writeStart" => disk[job[q].id].meta.status # "ready"
    BY <1>3 DEF Persistence, PreOK
  <2>2. q \in Registry /\ job[q].id \in Ids /\ jobs[job[q].id] = q
    <3>1. Busy(dw)
      BY <2>1 DEF Busy, BusyLabels, RunLabels
    <3> QED BY <2>1, <3>1, Registered DEF Ownership, ClaimsOK, OwnedIsRegistered
  <2>3. CASE q = r
    BY <1>3, <1>4, <1>5, <2>1, <2>3 DEF Written, Dir
  <2>4. CASE q # r
    <3>1. job[q].id # i /\ disk'[job[q].id] = disk[job[q].id] /\ snap'[q] = snap[q]
      BY <1>1, <1>2, <1>3, <2>2, <2>4
    <3> QED BY <1>8, <2>1, <2>4, <3>1
  <2> QED BY <2>3, <2>4
<1> QED BY <1>5, <1>6, <1>7, <1>9, <1>10 DEF Persistence

\* saveCurrent, called by a worker or by Close.
LEMMA SavePersistence ==
  ASSUME TypeOK, TypeOK', Identity, Ownership, Scheduling, Persistence,
         NEW p \in Workers \union {closer}, BeginSave(p) \/ EndSave(p)
  PROVE  Persistence'
<1> DEFINE r == own[p]
<1>1. /\ UNCHANGED <<phase, jobs, job, created, removed, pending, deleting, own, todo>>
      /\ p \in Procs
  BY Kinds DEF BeginSave, EndSave, lifeVars, regVars, flagVars
<1>2. p = closer => pc[p] \in {"save", "write"}
  BY DEF BeginSave, EndSave, Ownership, KindsOK, CloserLabels
<1>3. pc[closer] # "waiting"
  BY DEF Ownership, KindsOK, CloserLabels
<1>4. ASSUME NEW to, Goto(p, to)
      PROVE  /\ OthersHold(p) /\ pc'[p] = to
             /\ \A q \in Procs \ {p} : pc'[q] = pc[q] \/ (pc[q] = "waiting" /\ pc'[q] = "idle")
  BY <1>1, <1>4, Moved, OthersMove
<1>5. CASE BeginSave(p)
  <2> DEFINE to == IF pc[p] = "save" THEN "write" ELSE "writeStart"
  <2>1. /\ pc[p] \in {"saveStart", "save"} /\ Goto(p, to) /\ Lock(r, p) /\ Snapshot(r)
        /\ r \in Shown /\ UNCHANGED <<disk, left>>
    BY <1>5 DEF BeginSave, Saveable, Current, Shown
  <2>2. /\ to \in WriteLabels /\ to \notin {"mark", "succeeded"} /\ pc[p] \notin HoldLabels
        /\ "idle" \notin RunLabels /\ "write" \notin RunLabels
    BY <2>1 DEF WriteLabels, HoldLabels, RunLabels
  <2>3. ASSUME NEW q \in Shown \ {r}, Due(q)
        PROVE  Due(q)'
    BY <1>1, <1>2, <1>3, <2>1, <2>3, ShownTyped, DueOfOthers
  <2>4. pc'[dw] \in RunLabels => /\ pc[dw] \in EarlyLabels
                                 /\ pc'[dw] # "writeStart" => pc[dw] \in RunLabels \ {"writeStart"}
                                 /\ p # dw => pc'[dw] = pc[dw]
    <3>1. CASE p = dw
      BY <1>4, <2>1, <2>2, <3>1 DEF EarlyLabels
    <3>2. CASE p # dw
      BY <1>4, <2>1, <2>2, <3>2, Kinds DEF EarlyLabels, RunLabels
    <3> QED BY <3>1, <3>2
  <2>5. \A q \in Procs : pc'[q] \in {"mark", "succeeded"} => pc'[q] = pc[q]
    BY <1>4, <2>1, <2>2
  <2>6. OthersHold(p) /\ pc'[p] = to
    BY <1>4, <2>1
  <2>7. own'[p] = r /\ \A q \in Procs : own'[q] = own[q]
    BY <1>1
  <2> QED BY <1>1, <2>1, <2>2, <2>3, <2>4, <2>5, <2>6, <2>7, SnapshotTaken
<1>6. CASE EndSave(p)
  <2>1. /\ pc[p] \in WriteLabels /\ Unlock(r) /\ Forget(r)
        /\ \/ Stores(r) /\ Goto(p, Saved(p))
           \/ FailsToStore(r) /\ Goto(p, Unsaved(p))
    BY <1>6 DEF EndSave, WriteLabels
  <2>2. /\ Saved(p) = IF pc[p] = "writeStart" THEN "prepare"
                      ELSE IF p = closer THEN "saving" ELSE "release"
        /\ Unsaved(p) = IF pc[p] = "write" /\ p # closer THEN "mark" ELSE Saved(p)
    <3>1. pc[p] \in {"writeStart", "write"}
      BY <2>1 DEF WriteLabels
    <3>2. CASE pc[p] = "writeStart"
      BY <1>2, <3>2 DEF Saved, Unsaved
    <3>3. CASE pc[p] = "write"
      BY <3>3 DEF Saved, Unsaved
    <3> QED BY <3>1, <3>2, <3>3
  <2>3. PICK to : /\ Goto(p, to) /\ to \in {"prepare", "saving", "release", "mark"}
                  /\ to = "mark" => ~NoFaults'
                  /\ to = "prepare" => pc[p] = "writeStart"
                  /\ p = closer => to = "saving"
    BY <1>2, <2>1, <2>2, FaultUsed DEF FailsToStore
  <2>4. saveMu[r] = p /\ InSave(r)
    BY <1>1, <2>1, HoldZones DEF Persistence, LocksOK, InSave
  <2>5. r \in Runs
    BY <1>1, <2>1, HolderTyped, HoldZones
  <2>6. \A q \in Runs : Due(q) => Due(q)'
    BY <1>1, <1>3, <2>1, <2>3, DueOfOthers DEF WriteLabels
  <2>7. /\ pc'[p] = to /\ OthersHold(p)
        /\ \A q \in Procs \ {p} : pc'[q] = pc[q] \/ (pc[q] = "waiting" /\ pc'[q] = "idle")
    BY <1>4, <2>3
  <2>8. to \notin HoldLabels /\ to # "succeeded"
    BY <2>3 DEF HoldLabels, WriteLabels
  <2>9. \A q \in Procs : pc'[q] = "mark" => pc[q] = "mark" \/ ~NoFaults'
    BY <2>3, <2>7
  <2>10. pc'[dw] = "succeeded" => pc[dw] = "succeeded" /\ own'[dw] = own[dw]
    BY <1>1, <2>7, <2>8, Kinds
  <2>11. pc'[dw] \in RunLabels => /\ own'[dw] = own[dw] /\ pc[dw] \in RunLabels
                                  /\ pc[dw] = "writeStart" =>
                                       pc'[dw] = "writeStart" \/ (p = dw /\ own[dw] = r)
    BY <1>1, <2>3, <2>7, Kinds DEF RunLabels
  <2> QED BY <1>1, <2>1, <2>4, <2>5, <2>6, <2>7, <2>8, <2>9, <2>10, <2>11, SnapshotStored
<1> QED BY <1>5, <1>6

\* ... or spawned with go.
LEMMA AsyncPersistence ==
  ASSUME TypeOK, TypeOK', Identity, Ownership, Scheduling, Persistence, NEW r \in Runs, AsyncSave(r)
  PROVE  Persistence'
<1>1. UNCHANGED <<phase, jobs, job, created, removed, deleting, pc, own, todo>>
  BY DEF AsyncSave, BeginAsyncSave, EndAsyncSave, lifeVars, regVars, flagVars, procVars
<1>2. OthersHold(async)
  BY <1>1 DEF OthersHold
<1>3. pc'[dw] \in RunLabels => pc[dw] \in EarlyLabels
  BY <1>1 DEF RunLabels, EarlyLabels
<1>4. CASE BeginAsyncSave(r) /\ Saveable(r)
  <2>1. /\ Lock(r, async) /\ Snapshot(r) /\ r \in Shown /\ UNCHANGED <<disk, left>>
        /\ \A q \in Runs \ {r} : pending'[q] = pending[q]
    BY <1>4 DEF BeginAsyncSave, Saveable, Current, Shown, TypeOK, SavesOK
  <2>2. \A q \in Shown \ {r} : Due(q) => Due(q)'
    BY <1>1, <2>1, ShownTyped DEF Due
  <2> QED BY <1>1, <1>2, <1>3, <2>1, <2>2, Kinds, HolderNames, SnapshotTaken
<1>5. CASE BeginAsyncSave(r) /\ ~Saveable(r)
  <2>1. /\ UNCHANGED <<disk, left, saveMu, snap>> /\ r \notin Shown
        /\ \A q \in Runs \ {r} : pending'[q] = pending[q]
    BY <1>5 DEF BeginAsyncSave, Saveable, Current, Shown, TypeOK, SavesOK
  <2>2. Shown' = Shown /\ \A q \in Shown : Due(q) => Due(q)'
    BY <1>1, <2>1, ShownTyped DEF Due, Shown, Registry
  <2>3. Synced
    BY <1>1, <2>2 DEF Synced
  <2>4. Harmless
    BY <1>1, <2>1, <2>3, HandlessStill DEF Harmless, Quiet, Level, SameIds, NoFaults
  <2> QED BY <2>4, HarmlessKeeps
<1>6. CASE EndAsyncSave(r)
  <2>1. saveMu[r] = async /\ Unlock(r) /\ Forget(r) /\ (Stores(r) \/ FailsToStore(r))
        /\ UNCHANGED pending
    BY <1>6 DEF EndAsyncSave
  <2>2. InSave(r) /\ \A q \in Runs : Due(q) => Due(q)'
    BY <1>1, <2>1 DEF InSave, Due
  <2> QED BY <1>1, <1>2, <2>1, <2>2, Kinds, HolderNames, SnapshotStored
<1> QED BY <1>4, <1>5, <1>6 DEF AsyncSave

-----------------------------------------------------------------------------
(* Steps on the files. *)

\* The cards and the directories of the goroutines at work.
LEMMA OwnDirectory ==
  ASSUME TypeOK, Identity, Ownership, NEW p \in Procs, (p \in Workers /\ Busy(p)) \/ Finalizing(p)
  PROVE  /\ own[p] \in Runs /\ own[p] \in Registry /\ own[p] <= created
         /\ job[own[p]].id \in Ids /\ jobs[job[own[p]].id] = own[p]
         /\ Finalizing(p) => own[p] \in deleting /\ (Busy(dw) => own[dw] # own[p])
<1>1. own[p] \in Registry
  BY DEF Ownership, ClaimsOK, OwnedIsRegistered, FinalizersOK, Orphans, Workers
<1>2. Finalizing(p) => own[p] \in deleting /\ (Busy(dw) => own[dw] # own[p])
  BY DEF Ownership, ClaimsOK, FinalizersOK, Orphans
<1> QED BY <1>1, <1>2, Registered

\* A goroutine changes the directory of the card it works on.
LEMMA DirectoryChanges ==
  ASSUME TypeOK, TypeOK', Identity, Ownership, Persistence,
         NEW p \in Procs, NEW to, Goto(p, to), UNCHANGED <<own, todo>>,
         UNCHANGED <<phase, jobs, job, created, removed, saveMu, snap, pending, deleting>>,
         UNCHANGED left \/ Fault,
         (p = dw /\ Busy(dw)) \/ Finalizing(p), p # closer,
         NEW i \in Ids, i = job[own[p]].id, \A j \in Ids \ {i} : disk'[j] = disk[j],
         disk'[i].meta \in {disk[i].meta, NoMeta}, disk'[i].dir \/ disk'[i] = NoDir,
         pc[p] \in HoldLabels <=> to \in HoldLabels,
         pc[p] \notin WriteLabels \union {"saveStart", "save"},
           to \notin WriteLabels \union {"mark"},
         to = "stuck" => ~NoFaults', to = "unregister" => disk'[i] = NoDir,
         to = "succeeded" => p = dw /\ disk'[i].video,
         to \in RunLabels => p = dw /\ pc[p] \in RunLabels,
         NoFaults' /\ own[p] \notin deleting =>
           /\ disk'[i].dir /\ disk'[i].meta = disk[i].meta /\ (disk[i].video => disk'[i].video)
           /\ RecoveredStatus(disk[i]) = "failed" => RecoveredStatus(disk'[i]) = "failed"
  PROVE  Persistence'
<1> DEFINE r == own[p]
<1>1. r \in Runs /\ r \in Registry /\ jobs[i] = r /\ r # NoRun
  BY OwnDirectory, Kinds DEF Runs, NoRun
<1>2. /\ pc'[p] = to /\ OthersHold(p)
      /\ \A q \in Procs \ {p} : pc'[q] = pc[q] \/ (pc[q] = "waiting" /\ pc'[q] = "idle")
  BY Moved, OthersMove
<1>3. Registry' = Registry
  BY DEF Registry
<1>4. \A q \in Runs : InSave(q)' <=> InSave(q)
  <2>1. \A q \in Procs : pc'[q] \in WriteLabels <=> pc[q] \in WriteLabels
    BY <1>2, HoldZones DEF OthersHold
  <2> QED BY <2>1 DEF InSave
<1>5. LocksOK'
  <2>1. \A q \in Procs : pc'[q] \in HoldLabels <=> pc[q] \in HoldLabels
    BY <1>2 DEF OthersHold
  <2> QED BY <1>3, <1>4, <2>1 DEF Persistence, LocksOK
<1>6. NoFaults' => NoFaults /\ left' = left
  BY FaultUsed DEF NoFaults
<1>7. RemovedOK'
  <2>1. ASSUME NEW q \in Procs, pc'[q] = "unregister"
        PROVE  disk'[job'[own'[q]].id] = NoDir
    <3>1. CASE q = p
      BY <1>2, <2>1, <3>1
    <3>2. CASE q # p
      <4>1. pc[q] = "unregister" /\ Finalizing(q)
        BY <1>2, <2>1, <3>2 DEF OthersHold, HoldLabels, Finalizing, FinalizeLabels
      <4>2. own[q] # r
        <5>1. CASE Finalizing(p)
          BY <3>2, <4>1, <5>1 DEF Ownership, FinalizersOK
        <5>2. CASE p = dw /\ Busy(dw)
          BY <4>1, <5>2, OwnDirectory
        <5> QED BY <5>1, <5>2
      <4>3. job[own[q]].id \in Ids /\ job[own[q]].id # i
        BY <1>1, <4>1, <4>2, OwnDirectory
      <4> QED BY <4>1, <4>3 DEF Persistence, RemovedOK
    <3> QED BY <3>1, <3>2
  <2>2. NoMeta.run = NoRun /\ NoRun \notin removed
    BY DEF NoMeta, NoRun, Runs, TypeOK, RegistryOK
  <2>3. ASSUME NEW j \in Ids
        PROVE  /\ disk'[j].meta.run \notin removed
               /\ disk'[j].meta.run = NoRun => disk'[j].meta = NoMeta
               /\ disk'[j].dir \/ disk'[j] = NoDir
               /\ phase = "serving" /\ jobs[j] = NoRun =>
                    ~disk'[j].video /\ (NoFaults' => disk'[j] = NoDir)
    <3>1. CASE j = i
      BY <1>1, <2>2, <3>1 DEF Persistence, RemovedOK
    <3>2. CASE j # i
      BY <1>6, <3>2 DEF Persistence, RemovedOK
    <3> QED BY <3>1, <3>2
  <2> QED BY <1>3, <2>1, <2>3 DEF Persistence, RemovedOK
<1>8. StoredOK'
  <2> SUFFICES ASSUME NoFaults' PROVE StoredOK'
    BY DEF StoredOK
  <2>1. \A q \in Procs : pc'[q] \notin {"stuck", "mark"}
    BY <1>2, <1>6 DEF Persistence, StoredOK
  <2>2. \A j \in Ids : phase = "serving" /\ jobs[j] # NoRun /\ jobs[j] \notin deleting =>
          disk'[j].dir /\ disk'[j].meta.run \in {NoRun, jobs[j]}
    BY <1>1, <1>6 DEF Persistence, StoredOK
  <2>3. ASSUME left'.vanish = MaxVanish
        PROVE  \A j \in Ids : jobs[j] # NoRun /\ jobs[j] \notin deleting
                                /\ job[jobs[j]].status = "ready" => disk'[j].video
    BY <1>1, <1>6, <2>3 DEF Persistence, StoredOK
  <2>4. ASSUME left'.vanish = MaxVanish, pc'[dw] = "succeeded"
        PROVE  disk'[job[own[dw]].id].video
    <3>1. CASE p = dw
      BY <1>2, <2>4, <3>1
    <3>2. CASE p # dw
      <4>1. pc[dw] = "succeeded" /\ Busy(dw)
        BY <1>2, <2>4, <3>2, Kinds DEF Busy, BusyLabels
      <4>2. own[dw] # r
        BY <3>2, <4>1, OwnDirectory
      <4>3. disk[job[own[dw]].id].video
        BY <1>6, <2>4, <4>1 DEF Persistence, StoredOK
      <4>4. job[own[dw]].id \in Ids /\ jobs[job[own[dw]].id] = own[dw]
        BY <4>1, OwnDirectory, Kinds
      <4> QED BY <1>1, <4>2, <4>3, <4>4
    <3> QED BY <3>1, <3>2
  <2> QED BY <2>1, <2>2, <2>3, <2>4 DEF StoredOK
<1>9. SyncOK'
  <2> SUFFICES ASSUME NoFaults', phase' = "serving", NEW j \in Ids, NEW q \in Runs, jobs'[j] = q,
                      q \notin deleting'
               PROVE  Due(q)' \/ (IF InSave(q)' THEN Same(snap[q], q)' ELSE Restores(disk[j], q)')
    BY SyncIntro
  <2>1. /\ NoFaults /\ jobs[j] = q /\ q \notin deleting /\ q # NoRun /\ snap' = snap /\ job' = job
        /\ (Due(q) \/ IF InSave(q) THEN Same(snap[q], q) ELSE Restores(disk[j], q))
    BY <1>6 DEF Persistence, SyncOK, Runs, NoRun
  <2>2. Due(q) => Due(q)'
    BY <1>1, DueKept
  <2>3. Same(snap[q], q) => Same(snap[q], q)'
    BY <2>1 DEF Same
  <2>4. Restores(disk[j], q) => Restores(disk[j], q)'
    <3>1. CASE j = i
      <4>1. q = r /\ r \notin deleting
        BY <1>1, <2>1, <3>1
      <4>2. /\ disk'[j].meta = disk[j].meta
            /\ RecoveredStatus(disk[j]) = "failed" => RecoveredStatus(disk'[j]) = "failed"
        BY <3>1, <4>1
      <4>3. job'[q] = job[q]
        BY <2>1
      <4> QED BY <4>2, <4>3 DEF Restores
    <3>2. CASE j # i
      BY <2>1, <3>2 DEF Restores
    <3> QED BY <3>1, <3>2
  <2> QED BY <1>4, <2>1, <2>2, <2>3, <2>4
<1>10. PreOK'
  <2> SUFFICES ASSUME NoFaults', pc'[dw] \in RunLabels, NEW q \in Runs, own'[dw] = q,
                      q \notin deleting'
               PROVE  /\ InSave(q)' => snap'[q].status # "ready"
                      /\ pc'[dw] # "writeStart" => disk'[job'[q].id].meta.status # "ready"
    BY PreIntro
  <2>1. /\ own[dw] = q /\ NoFaults /\ pc[dw] \in RunLabels /\ q \notin deleting
        /\ pc'[dw] # "writeStart" => pc[dw] # "writeStart"
    BY <1>2, <1>6, Kinds DEF RunLabels, WriteLabels
  <2>2. /\ InSave(q) => snap[q].status # "ready"
        /\ pc[dw] # "writeStart" => disk[job[q].id].meta.status # "ready"
    BY <2>1 DEF Persistence, PreOK
  <2>3. job[q].id \in Ids
    BY <2>1, OwnDirectory, Kinds DEF Busy, BusyLabels, RunLabels
  <2>4. disk'[job[q].id].meta = disk[job[q].id].meta
    <3>1. CASE job[q].id = i
      <4>1. q = r
        BY <1>1, <2>1, <3>1, OwnDirectory, Kinds DEF Busy, BusyLabels, RunLabels
      <4> QED BY <2>1, <3>1, <4>1
    <3>2. CASE job[q].id # i
      BY <2>3, <3>2
    <3> QED BY <3>1, <3>2
  <2> QED BY <1>4, <2>1, <2>2, <2>4
<1> QED BY <1>5, <1>7, <1>8, <1>9, <1>10 DEF Persistence

\* The steps of finalizeDeletion and of the pipeline that only touch files.
LEMMA FilePersistence ==
  ASSUME TypeOK, TypeOK', Identity, Ownership, Persistence,
         \/ MakeWork
         \/ Publish
         \/ \E p \in Procs \ {closer} : RemoveFiles(p) \/ RemoveFails(p)
  PROVE  Persistence'
<1> USE DEF lifeVars, regVars, flagVars, fetchVars, saveVars
<1>1. CASE MakeWork
  <2> DEFINE i == job[own[dw]].id
  <2>1. pc[dw] = "prepare" /\ Goto(dw, "prepared") /\ disk' = [disk EXCEPT ![i].dir = TRUE]
        /\ Busy(dw) /\ i \in Ids
    BY <1>1, OwnDirectory, Kinds DEF MakeWork, Busy, BusyLabels
  <2>2. disk[i] \in Dir /\ disk'[i] = [disk[i] EXCEPT !.dir = TRUE]
        /\ \A j \in Ids \ {i} : disk'[j] = disk[j]
    BY <2>1 DEF TypeOK, StorageOK
  <2>3. disk'[i].dir /\ disk'[i].meta = disk[i].meta /\ disk'[i].video = disk[i].video
    BY <2>2 DEF Dir
  <2>4. RecoveredStatus(disk'[i]) = RecoveredStatus(disk[i])
    BY <2>3 DEF RecoveredStatus
  <2>5. /\ "prepare" \notin HoldLabels \union {"saveStart", "save"} /\ "prepare" \in RunLabels
        /\ "prepared" \notin HoldLabels \union {"mark", "stuck", "unregister", "succeeded"}
    BY DEF HoldLabels, WriteLabels, RunLabels
  <2>6. /\ UNCHANGED <<own, todo>> /\ UNCHANGED left
        /\ UNCHANGED <<phase, jobs, job, created, removed, saveMu, snap, pending, deleting>>
    BY <1>1 DEF MakeWork
  <2>7. dw \in Procs /\ dw # closer /\ i = job[own[dw]].id
    BY Kinds
  <2> HIDE DEF i
  <2>8. /\ pc[dw] \in HoldLabels <=> "prepared" \in HoldLabels
        /\ pc[dw] \notin WriteLabels \union {"saveStart", "save"}
        /\ "prepared" \notin WriteLabels \union {"mark"}
    BY <2>1, <2>5, HoldZones
  <2>9. "prepared" \in RunLabels => pc[dw] \in RunLabels
    BY <2>1, <2>5
  <2>10. /\ disk'[i].meta \in {disk[i].meta, NoMeta} /\ (disk'[i].dir \/ disk'[i] = NoDir)
         /\ NoFaults' /\ own[dw] \notin deleting =>
              /\ disk'[i].dir /\ disk'[i].meta = disk[i].meta /\ (disk[i].video => disk'[i].video)
              /\ RecoveredStatus(disk[i]) = "failed" => RecoveredStatus(disk'[i]) = "failed"
    BY <2>3, <2>4
  <2> QED BY <2>1, <2>2, <2>3, <2>6, <2>7, <2>8, <2>9, <2>10, DirectoryChanges
<1>2. CASE Publish
  <2> DEFINE i == job[own[dw]].id
  <2>1. pc[dw] = "publish" /\ Goto(dw, "succeeded") /\ disk' = [disk EXCEPT ![i].video = TRUE]
        /\ Busy(dw) /\ i \in Ids /\ disk[i].dir
    BY <1>2, OwnDirectory, Kinds DEF Publish, Busy, BusyLabels
  <2>2. disk[i] \in Dir /\ disk'[i] = [disk[i] EXCEPT !.video = TRUE]
        /\ \A j \in Ids \ {i} : disk'[j] = disk[j]
    BY <2>1 DEF TypeOK, StorageOK
  <2>3. disk'[i].dir /\ disk'[i].meta = disk[i].meta /\ disk'[i].video
    BY <2>1, <2>2 DEF Dir
  <2>4. /\ "publish" \notin HoldLabels \union {"saveStart", "save"} /\ "publish" \in RunLabels
        /\ "succeeded" \notin HoldLabels \union RunLabels /\ "publish" # "writeStart"
    BY DEF HoldLabels, WriteLabels, RunLabels
  <2>5. NoFaults' /\ own[dw] \notin deleting => RecoveredStatus(disk'[i]) = RecoveredStatus(disk[i])
    <3>1. UNCHANGED left
      BY <1>2 DEF Publish
    <3>2. NoFaults' /\ own[dw] \notin deleting => disk[i].meta.status # "ready"
      BY <2>1, <2>4, <3>1 DEF Persistence, PreOK, NoFaults
    <3> QED BY <2>3, <3>2 DEF RecoveredStatus
  <2>6. /\ UNCHANGED <<own, todo>> /\ UNCHANGED left
        /\ UNCHANGED <<phase, jobs, job, created, removed, saveMu, snap, pending, deleting>>
    BY <1>2 DEF Publish
  <2>7. dw \in Procs /\ dw # closer /\ i = job[own[dw]].id
    BY Kinds
  <2> HIDE DEF i
  <2>8. /\ pc[dw] \in HoldLabels <=> "succeeded" \in HoldLabels
        /\ pc[dw] \notin WriteLabels \union {"saveStart", "save"}
        /\ "succeeded" \notin WriteLabels \union {"mark"}
    BY <2>1, <2>4, HoldZones
  <2>9. "succeeded" \in RunLabels => pc[dw] \in RunLabels
    BY <2>1, <2>4
  <2>10. /\ disk'[i].meta \in {disk[i].meta, NoMeta} /\ (disk'[i].dir \/ disk'[i] = NoDir)
         /\ NoFaults' /\ own[dw] \notin deleting =>
              /\ disk'[i].dir /\ disk'[i].meta = disk[i].meta /\ (disk[i].video => disk'[i].video)
              /\ RecoveredStatus(disk[i]) = "failed" => RecoveredStatus(disk'[i]) = "failed"
    BY <2>3, <2>5
  <2> QED BY <2>1, <2>2, <2>3, <2>6, <2>7, <2>8, <2>9, <2>10, DirectoryChanges
<1>3. ASSUME NEW p \in Procs \ {closer}, RemoveFiles(p) \/ RemoveFails(p)
      PROVE  Persistence'
  <2> DEFINE i == job[own[p]].id
  <2>1. /\ pc[p] = "remove" /\ Finalizing(p)
        /\ UNCHANGED <<own, todo, phase, jobs, job, created, removed, saveMu, snap, pending,
             deleting>>
    BY <1>3 DEF RemoveFiles, RemoveFails, Finalizing, FinalizeLabels
  <2>2. i \in Ids /\ own[p] \in deleting /\ disk[i] \in Dir /\ (disk[i].dir \/ disk[i] = NoDir)
    BY <2>1, OwnDirectory DEF Persistence, RemovedOK, TypeOK, StorageOK
  <2>3. PICK d \in PartialRemovals(disk[i]) :
          /\ disk' = [disk EXCEPT ![i] = d]
          /\ \/ Goto(p, "unregister") /\ d = NoDir /\ UNCHANGED left
             \/ Goto(p, "stuck") /\ Fault
    BY <1>3 DEF RemoveFiles, RemoveFails, PartialRemovals
  <2>4. d.meta \in {disk[i].meta, NoMeta} /\ (d.dir \/ d = NoDir)
    <3>1. CASE d = NoDir
      BY <3>1 DEF NoDir
    <3>2. CASE d # NoDir
      <4>1. d \in [dir : {disk[i].dir}, meta : {disk[i].meta, NoMeta},
              video : {disk[i].video, FALSE}]
        BY <3>2 DEF PartialRemovals
      <4>2. d.dir = disk[i].dir /\ d.meta \in {disk[i].meta, NoMeta}
              /\ d.video \in {disk[i].video, FALSE}
            /\ d = [dir |-> d.dir, meta |-> d.meta, video |-> d.video]
        BY <4>1
      <4>3. ASSUME disk[i] = NoDir
            PROVE  d = NoDir
        <5>1. disk[i].dir = FALSE /\ disk[i].meta = NoMeta /\ disk[i].video = FALSE
          BY <4>3 DEF NoDir
        <5>2. d.dir = FALSE /\ d.meta = NoMeta /\ d.video = FALSE
          BY <4>2, <5>1
        <5> QED BY <4>2, <5>2, Zenon DEF NoDir
      <4> QED BY <2>2, <3>2, <4>2, <4>3
    <3> QED BY <3>1, <3>2
  <2>5. disk'[i] = d /\ \A j \in Ids \ {i} : disk'[j] = disk[j]
    BY <2>2, <2>3 DEF TypeOK, StorageOK
  <2>6. /\ {"remove", "unregister", "stuck"} \subseteq HoldLabels
        /\ {"remove", "unregister", "stuck"} \intersect (RunLabels \union WriteLabels) = {}
    BY DEF HoldLabels, WriteLabels, RunLabels
  <2>7. CASE Goto(p, "unregister") /\ d = NoDir /\ UNCHANGED left
    BY <2>1, <2>2, <2>4, <2>5, <2>6, <2>7, DirectoryChanges DEF i
  <2>8. CASE Goto(p, "stuck") /\ Fault
    BY <2>1, <2>2, <2>4, <2>5, <2>6, <2>8, FaultUsed, DirectoryChanges DEF i
  <2> QED BY <2>3, <2>7, <2>8
<1> QED BY <1>1, <1>2, <1>3

\* Steps on one job that is marked and stays so, unless the storage failed.
LEMMA OthersSynced ==
  ASSUME TypeOK, TypeOK', Persistence, NEW r \in Runs, r \in deleting,
         NoFaults' => NoFaults /\ r \in deleting', UNCHANGED <<phase, disk>>,
         \A q \in Runs \ {r} : /\ InSave(q)' <=> InSave(q)
                               /\ snap'[q] = snap[q] /\ job'[q] = job[q]
                               /\ Due(q) => Due(q)'
                               /\ q \in deleting => q \in deleting',
         \A i \in Ids : jobs'[i] \in {NoRun, jobs[i]},
         pc'[dw] \in RunLabels => pc'[dw] = pc[dw] /\ own'[dw] = own[dw]
  PROVE  SyncOK' /\ PreOK'
<1>1. SyncOK'
  <2> SUFFICES ASSUME NoFaults', phase' = "serving", NEW j \in Ids, NEW q \in Runs, jobs'[j] = q,
                      q \notin deleting'
               PROVE  Due(q)' \/ (IF InSave(q)' THEN Same(snap[q], q)' ELSE Restores(disk[j], q)')
    BY SyncIntro
  <2>1. q # r /\ jobs[j] = q /\ q \notin deleting /\ NoFaults /\ q # NoRun
    BY DEF Runs, NoRun
  <2>2. Due(q) \/ IF InSave(q) THEN Same(snap[q], q) ELSE Restores(disk[j], q)
    BY <2>1 DEF Persistence, SyncOK
  <2>3. /\ Same(snap[q], q) => Same(snap[q], q)'
        /\ Restores(disk[j], q) => Restores(disk[j], q)'
    BY <2>1 DEF Same, Restores, RecoveredStatus
  <2> QED BY <2>1, <2>2, <2>3
<1>2. PreOK'
  <2> SUFFICES ASSUME NoFaults', pc'[dw] \in RunLabels, NEW q \in Runs, own'[dw] = q,
                      q \notin deleting'
               PROVE  /\ InSave(q)' => snap'[q].status # "ready"
                      /\ pc'[dw] # "writeStart" => disk'[job'[q].id].meta.status # "ready"
    BY PreIntro
  <2>1. q # r /\ own[dw] = q /\ q \notin deleting /\ NoFaults
    OBVIOUS
  <2> QED BY <2>1 DEF Persistence, PreOK
<1> QED BY <1>1, <1>2

\* finalizeDeletion takes saveMu of a marked card.
LEMMA FinalizePersistence ==
  ASSUME TypeOK, TypeOK', Identity, Ownership, Persistence, NEW p \in Procs \ {closer}, Finalize(p)
  PROVE  Persistence'
<1> DEFINE r == own[p]
<1>1. Finalizing(p)
  BY DEF Finalize, Finalizing, FinalizeLabels
<1>2. /\ r \in Registry /\ r \in Runs /\ r \in deleting
      /\ pc[p] = "finalize" /\ saveMu[r] = free
      /\ saveMu' = [saveMu EXCEPT ![r] = p] /\ Goto(p, "remove")
      /\ UNCHANGED <<own, phase, jobs, job, created, removed, deleting, todo, snap, pending, disk,
                     left>>
  BY <1>1, OwnDirectory DEF Finalize, Current, Lock, lifeVars, regVars, flagVars
<1> HIDE DEF r
<1>3. "finalize" \notin HoldLabels /\ "remove" \in HoldLabels
      /\ "remove" \notin RunLabels \union WriteLabels
  BY DEF HoldLabels, WriteLabels, RunLabels
<1>4. /\ pc'[p] = "remove" /\ OthersHold(p) /\ own'[p] = r
      /\ \A q \in Procs \ {p} : pc'[q] = pc[q] \/ (pc[q] = "waiting" /\ pc'[q] = "idle")
  BY <1>2, Moved, OthersMove DEF r
<1>5. snap[r] = NoMeta
  BY <1>2, HolderNames DEF Persistence, LocksOK, InSave
<1>6. Registry' = Registry
  BY <1>2 DEF Registry
<1>7. LocksOK'
  BY <1>2, <1>3, <1>4, <1>5, <1>6, LockTaken, HolderNames DEF Persistence
<1>8. RemovedOK'
  BY <1>2, <1>4, <1>6 DEF Persistence, RemovedOK, OthersHold, HoldLabels, NoFaults
<1>9. StoredOK'
  <2>1. \A q \in Procs : pc'[q] \in {"stuck", "mark", "succeeded"} => pc'[q] = pc[q]
    BY <1>4
  <2> QED BY <1>2, <2>1, Kinds DEF Persistence, StoredOK, NoFaults
<1>10. \A q \in Runs \ {r} : InSave(q)' <=> InSave(q)
  BY <1>2, <1>3, <1>4, OthersSave DEF Persistence, TypeOK, SavesOK
<1>11. \A q \in Runs \ {r} : Due(q) => Due(q)'
  BY <1>2, DueKept
<1>12. pc'[dw] \in RunLabels => pc'[dw] = pc[dw]
  BY <1>3, <1>4, Kinds DEF RunLabels
<1>13. SyncOK' /\ PreOK'
  BY <1>2, <1>10, <1>11, <1>12, OthersSynced DEF NoFaults
<1> QED BY <1>7, <1>8, <1>9, <1>13 DEF Persistence

\* An attempt is closed: nobody is moved but its waiters and its finalizer.
LEMMA AttemptClosed ==
  ASSUME TypeOK, NEW p \in Procs, NEW r, AnswerWaiters(p, r)
  PROVE  /\ pc'[p] = "idle" /\ OthersHold(p)
         /\ \A q \in Procs \ {p} : \/ pc'[q] = pc[q] /\ own'[q] = own[q]
                                   \/ pc[q] \in AwaitLabels /\ pc'[q] \in {"idle", "resubmit"}
<1>1. pc'[p] = "idle"
  BY DEF AnswerWaiters
<1>2. ASSUME NEW q \in Procs \ {p}
      PROVE  \/ pc'[q] = pc[q] /\ own'[q] = own[q]
             \/ pc[q] \in AwaitLabels /\ pc'[q] \in {"idle", "resubmit"}
  BY DEF AnswerWaiters, Waiting, AwaitLabels
<1>3. \A l \in HoldLabels : l \notin AwaitLabels /\ l \notin {"idle", "resubmit"}
  BY DEF HoldLabels, WriteLabels, AwaitLabels
<1> QED BY <1>1, <1>2, <1>3 DEF OthersHold

LEMMA AttemptDue ==
  ASSUME TypeOK, NEW p \in Procs \ {closer}, NEW r, AnswerWaiters(p, r),
         pc[p] \notin {"saveStart", "save"}, pc[closer] \notin AwaitLabels,
         UNCHANGED todo, NEW q \in Runs, pending[q] > 0 => pending'[q] > 0, Due(q)
  PROVE  Due(q)'
<1>1. /\ pc'[closer] = pc[closer]
      /\ \A u \in Procs : pc[u] \in {"saveStart", "save"} => pc'[u] = pc[u] /\ own'[u] = own[u]
  BY AttemptClosed, Kinds DEF AwaitLabels
<1> QED BY <1>1 DEF Due

\* The card goes after its directory.
LEMMA UnregisterPersistence ==
  ASSUME TypeOK, TypeOK', Identity, Ownership, Persistence,
         NEW p \in Procs \ {closer}, Unregister(p)
  PROVE  Persistence'
<1> DEFINE r == own[p]
           i == job[r].id
<1>1. pc[p] = "unregister" /\ Finalizing(p)
  BY DEF Unregister, Finalizing, FinalizeLabels
<1>2. /\ r \in Registry /\ r \in Runs /\ r \in deleting /\ r <= created /\ i \in Ids /\ jobs[i] = r
      /\ jobs' = [jobs EXCEPT ![i] = NoRun] /\ removed' = removed \union {r}
      /\ saveMu' = [saveMu EXCEPT ![r] = free] /\ AnswerWaiters(p, r)
      /\ UNCHANGED <<phase, job, created, deleting, todo, snap, pending, disk, left>>
  BY <1>1, OwnDirectory DEF Unregister, Current, Unlock, lifeVars, flagVars
<1> HIDE DEF r
<1>3. /\ "unregister" \in HoldLabels /\ "idle" \notin HoldLabels \union RunLabels
      /\ "unregister" \notin RunLabels \union WriteLabels
      /\ \A l \in RunLabels : l # "idle" /\ l # "resubmit"
  BY DEF HoldLabels, WriteLabels, RunLabels, AwaitLabels
<1>4. /\ pc'[p] = "idle" /\ OthersHold(p)
      /\ \A q \in Procs \ {p} : \/ pc'[q] = pc[q] /\ own'[q] = own[q]
                                \/ pc[q] \in AwaitLabels /\ pc'[q] \in {"idle", "resubmit"}
  BY <1>2, AttemptClosed
<1>5. saveMu[r] = p /\ ~InSave(r) /\ snap[r] = NoMeta
  <2>1. saveMu[r] = p
    BY <1>1, <1>3 DEF Persistence, LocksOK, r
  <2>2. ~InSave(r)
    BY <1>1, <1>3, <2>1, HolderNames DEF InSave
  <2> QED BY <1>2, <2>1, <2>2 DEF Persistence, LocksOK
<1>6. /\ jobs'[i] = NoRun /\ \A j \in Ids \ {i} : jobs'[j] = jobs[j]
      /\ \A j \in Ids \ {i} : jobs[j] # r
  BY <1>2 DEF TypeOK, RegistryOK, Identity, CardsOK, Runs, NoRun
<1>7. Registry' = Registry \ {r}
  <2>1. NoRun \notin Runs
    BY DEF NoRun, Runs
  <2> QED BY <1>2, <1>6, <2>1 DEF Registry
<1>8. LocksOK'
  <2>1. snap' = snap /\ pc'[p] \notin HoldLabels /\ p \in Procs \union {async}
    BY <1>2, <1>3, <1>4
  <2>2. Registry \ {r} \subseteq Registry' /\ LocksOK
    BY <1>7 DEF Persistence
  <2> QED BY <1>2, <1>4, <1>5, <2>1, <2>2, LockFreed
<1>9. disk[i] = NoDir
  BY <1>1 DEF Persistence, RemovedOK, r
<1>10. RemovedOK'
  <2>1. removed' \intersect Registry' = {} /\ \A q \in removed' : q <= created'
    BY <1>2, <1>7 DEF Persistence, RemovedOK
  <2>2. disk[i].meta.run = NoRun /\ ~disk[i].video /\ NoRun \notin removed'
    BY <1>2, <1>9 DEF NoDir, NoMeta, TypeOK, RegistryOK, Runs, NoRun
  <2>3. ASSUME NEW j \in Ids
        PROVE  /\ disk'[j].meta.run \notin removed'
               /\ disk'[j].meta.run = NoRun => disk'[j].meta = NoMeta
               /\ disk'[j].dir \/ disk'[j] = NoDir
               /\ phase' = "serving" /\ jobs'[j] = NoRun =>
                    ~disk'[j].video /\ (NoFaults' => disk'[j] = NoDir)
    <3>1. CASE j = i
      BY <1>2, <1>9, <2>2, <3>1 DEF Persistence, RemovedOK
    <3>2. CASE j # i
      <4>1. disk[j].meta.run # r
        BY <1>2, <3>2 DEF Identity, RecordsOK
      <4> QED BY <1>2, <1>6, <3>2, <4>1 DEF Persistence, RemovedOK, NoFaults
    <3> QED BY <3>1, <3>2
  <2>4. \A q \in Procs : pc'[q] = "unregister" => disk'[job'[own'[q]].id] = NoDir
    BY <1>2, <1>3, <1>4 DEF Persistence, RemovedOK, OthersHold
  <2> QED BY <2>1, <2>3, <2>4 DEF RemovedOK
<1>11. StoredOK'
  <2>1. \A q \in Procs : pc'[q] \in {"stuck", "mark", "succeeded"} =>
          pc'[q] = pc[q] /\ own'[q] = own[q]
    BY <1>4 DEF AwaitLabels
  <2>2. \A j \in Ids : jobs'[j] # NoRun => jobs'[j] = jobs[j]
    BY <1>6
  <2> QED BY <1>2, <2>1, <2>2, Kinds DEF Persistence, StoredOK, NoFaults
<1>12. \A q \in Runs \ {r} : InSave(q)' <=> InSave(q)
  BY <1>2, <1>3, <1>4, OthersSave DEF Persistence, TypeOK, SavesOK, r
<1>13. \A q \in Runs : Due(q) => Due(q)'
  <2>1. pc[closer] \notin AwaitLabels /\ pc[p] \notin {"saveStart", "save"}
    BY <1>1 DEF Ownership, KindsOK, CloserLabels, AwaitLabels
  <2> QED BY <1>2, <2>1, AttemptDue
<1>14. pc'[dw] \in RunLabels => pc'[dw] = pc[dw] /\ own'[dw] = own[dw]
  BY <1>3, <1>4, Kinds
<1>15. SyncOK' /\ PreOK'
  BY <1>2, <1>6, <1>12, <1>13, <1>14, OthersSynced DEF NoFaults
<1> QED BY <1>8, <1>10, <1>11, <1>15 DEF Persistence

\* A card whose directory could not be removed comes back.
LEMMA KeepPersistence ==
  ASSUME TypeOK, TypeOK', Identity, Ownership, Persistence,
         NEW p \in Procs \ {closer}, KeepCard(p)
  PROVE  Persistence'
<1> DEFINE r == own[p]
<1>1. pc[p] = "stuck" /\ Finalizing(p) /\ ~NoFaults
  <2>1. pc[p] = "stuck"
    BY DEF KeepCard
  <2> QED BY <2>1 DEF Finalizing, FinalizeLabels, Persistence, StoredOK
<1>2. /\ r \in Registry /\ r \in Runs
      /\ \/ job' = job
         \/ job' = [job EXCEPT ![r].status = "failed"]
      /\ saveMu' = [saveMu EXCEPT ![r] = free] /\ AnswerWaiters(p, r)
      /\ UNCHANGED <<phase, jobs, created, removed, snap, disk, left>>
  BY <1>1, OwnDirectory DEF KeepCard, Unlock, lifeVars
<1>3. SameIds
  BY <1>2, JobKinds DEF Statuses
<1> HIDE DEF r
<1>4. ~NoFaults' /\ Registry' = Registry
  BY <1>1, <1>2 DEF NoFaults, Registry
<1>5. pc'[p] = "idle" /\ OthersHold(p)
  BY <1>2, AttemptClosed
<1>6. "stuck" \in HoldLabels /\ "idle" \notin HoldLabels /\ "stuck" \notin WriteLabels
  BY DEF HoldLabels, WriteLabels
<1>7. saveMu[r] = p /\ snap[r] = NoMeta
  <2>1. saveMu[r] = p
    BY <1>1, <1>6 DEF Persistence, LocksOK, r
  <2>2. ~InSave(r)
    BY <1>1, <1>6, <2>1, HolderNames DEF InSave
  <2> QED BY <1>2, <2>1, <2>2 DEF Persistence, LocksOK
<1>8. LocksOK'
  <2>1. snap' = snap /\ pc'[p] \notin HoldLabels /\ p \in Procs \union {async} /\ LocksOK
        /\ Registry \ {r} \subseteq Registry'
    BY <1>2, <1>4, <1>5, <1>6 DEF Persistence
  <2> QED BY <1>2, <1>5, <1>7, <2>1, LockFreed
<1>9. RemovedOK'
  <2>1. ASSUME NEW q \in Procs, pc'[q] = "unregister"
        PROVE  disk'[job'[own'[q]].id] = NoDir
    <3>1. pc[q] = "unregister" /\ own'[q] = own[q] /\ own[q] \in Runs
      BY <1>5, <2>1, HolderTyped DEF OthersHold, HoldLabels
    <3> QED BY <1>2, <1>3, <3>1 DEF SameIds, Persistence, RemovedOK
  <2> QED BY <1>2, <1>4, <2>1 DEF Persistence, RemovedOK
<1> QED BY <1>4, <1>8, <1>9 DEF Persistence, StoredOK, SyncOK, PreOK

\* A job object comes into being with its directory, under a name of its own.
LEMMA SubmitPersistence ==
  ASSUME TypeOK, TypeOK', Identity, Ownership, Persistence, NEW c \in Clients, NEW i \in Ids,
         SubmitNew(c, i)
  PROVE  Persistence'
<1> DEFINE n == created + 1
<1>1. /\ n \in Runs /\ created' = n /\ created \in Nat /\ jobs[i] = NoRun
      /\ job' = [job EXCEPT ![n] = NewJob(i)] /\ jobs' = [jobs EXCEPT ![i] = n]
      /\ disk' = [disk EXCEPT ![i] = NewDir(@)] /\ WakeGoto(c, "idle")
      /\ \A q \in Procs \ {c} : own'[q] = own[q]
      /\ UNCHANGED <<phase, removed, deleting, saveMu, snap, pending, todo, left>>
      /\ phase = "serving" /\ pc[c] \in {"idle", "resubmit"}
  BY BoundsAssumption DEF SubmitNew, Asks, Unowned, Admissible, TypeOK, RegistryOK, ProcsOK, Runs,
     MaybeRun, lifeVars, flagVars, saveVars
<1> HIDE DEF n
<1>2. /\ n \notin Registry /\ n \notin removed /\ n \notin deleting /\ n # NoRun
      /\ \A q \in Registry : q <= created /\ q # n
  <2>1. \A q \in Registry : q <= created
    BY DEF Registry, Identity, CardsOK
  <2>2. \A q \in Runs : q <= created => q # n
    BY <1>1 DEF n, Runs
  <2>3. \A q \in Registry : q \in Runs
    BY RegistryTyped DEF TypeOK
  <2> QED BY <1>1, <2>1, <2>2, <2>3 DEF Runs, NoRun, Persistence, RemovedOK, Ownership, MarksOK,
          TypeOK, FlagsOK, RegistryOK
<1>3. /\ job'[n] = NewJob(i) /\ \A q \in Runs \ {n} : job'[q] = job[q]
      /\ jobs'[i] = n /\ \A j \in Ids \ {i} : jobs'[j] = jobs[j]
      /\ disk'[i] = NewDir(disk[i]) /\ \A j \in Ids \ {i} : disk'[j] = disk[j]
  BY <1>1 DEF TypeOK, RegistryOK, StorageOK
<1>4. /\ disk'[i].dir /\ disk'[i].video = disk[i].video
      /\ disk'[i].meta = [run |-> n, status |-> "queued", titled |-> FALSE]
  BY <1>3 DEF NewDir, Written, NewMeta, n, TypeOK, StorageOK, Dir
<1>5. Registry' = Registry \union {n}
  <2>1. jobs \in [Ids -> MaybeRun]
    BY DEF TypeOK, RegistryOK
  <2> QED BY <1>1, <1>2, <1>3, <2>1 DEF Registry
<1>6. /\ pc'[c] = "idle" /\ OthersHold(c)
      /\ \A q \in Procs \ {c} : pc'[q] = pc[q] \/ (pc[q] = "waiting" /\ pc'[q] = "idle")
  BY <1>1, Moved, OthersMove, Kinds
<1>7. pc[c] \notin HoldLabels /\ "idle" \notin HoldLabels \union RunLabels
      /\ "waiting" \notin RunLabels
  BY <1>1 DEF HoldLabels, WriteLabels, RunLabels
<1>8. Handless
  BY <1>6, <1>7, <1>1, Kinds DEF OthersHold, Handless
<1>9. LocksOK'
  BY <1>1, <1>5, <1>8, LocksKept DEF Persistence
<1>10. \A q \in Runs : InSave(q)' <=> InSave(q)
  BY <1>1, <1>8, HoldZones DEF Persistence, LocksOK, Handless, InSave
<1>11. ASSUME NEW q \in Procs, pc[q] \in HoldLabels
       PROVE  own[q] \in Runs \ {n} /\ job[own[q]].id \in Ids \ {i}
  <2>1. own[q] \in Registry /\ own[q] \in Runs /\ job[own[q]].id \in Ids
          /\ jobs[job[own[q]].id] = own[q]
    BY <1>11, Holder DEF Persistence
  <2> QED BY <1>1, <1>2, <2>1 DEF Runs, NoRun
<1>12. RemovedOK'
  <2>1. ASSUME NEW q \in Procs, pc'[q] = "unregister"
        PROVE  disk'[job'[own'[q]].id] = NoDir
    <3>1. pc[q] = "unregister" /\ own'[q] = own[q] /\ pc[q] \in HoldLabels
      BY <1>8, <2>1 DEF Handless, HoldLabels
    <3>2. job'[own'[q]].id = job[own[q]].id /\ job[own[q]].id \in Ids \ {i}
      BY <1>3, <1>11, <3>1
    <3> QED BY <1>3, <3>1, <3>2 DEF Persistence, RemovedOK
  <2>2. removed' \intersect Registry' = {} /\ \A q \in removed' : q <= created'
    <3>1. \A q \in removed : q \in Nat /\ q <= created /\ q # n
      BY <1>2 DEF Persistence, RemovedOK, TypeOK, RegistryOK, Runs
    <3>2. removed' \intersect Registry' = {}
      BY <1>1, <1>2, <1>5 DEF Persistence, RemovedOK
    <3> QED BY <1>1, <3>1, <3>2 DEF n
  <2>3. ASSUME NEW j \in Ids
        PROVE  /\ disk'[j].meta.run \notin removed'
               /\ disk'[j].meta.run = NoRun => disk'[j].meta = NoMeta
               /\ disk'[j].dir \/ disk'[j] = NoDir
               /\ phase' = "serving" /\ jobs'[j] = NoRun =>
                    ~disk'[j].video /\ (NoFaults' => disk'[j] = NoDir)
    <3>1. CASE j = i
      BY <1>1, <1>2, <1>3, <1>4, <3>1
    <3>2. CASE j # i
      BY <1>1, <1>3, <3>2 DEF Persistence, RemovedOK, NoFaults
    <3> QED BY <3>1, <3>2
  <2> QED BY <2>1, <2>2, <2>3 DEF RemovedOK
<1>13. pc'[dw] \in RunLabels \union {"succeeded"} =>
         /\ pc'[dw] = pc[dw] /\ own'[dw] = own[dw]
         /\ own[dw] \in Runs \ {n} /\ job[own[dw]].id \in Ids \ {i}
  <2> SUFFICES ASSUME pc'[dw] \in RunLabels \union {"succeeded"}
               PROVE  /\ pc'[dw] = pc[dw] /\ own'[dw] = own[dw]
                      /\ own[dw] \in Runs \ {n} /\ job[own[dw]].id \in Ids \ {i}
    OBVIOUS
  <2>1. pc'[dw] = pc[dw] /\ own'[dw] = own[dw]
    BY <1>1, <1>6, <1>7, Kinds
  <2>2. Busy(dw)
    BY <2>1 DEF Busy, BusyLabels, RunLabels
  <2>3. own[dw] \in Registry /\ own[dw] \in Runs
        /\ job[own[dw]].id \in Ids /\ jobs[job[own[dw]].id] = own[dw]
    BY <2>2, OwnDirectory, Kinds
  <2> QED BY <1>1, <1>2, <2>1, <2>3 DEF Runs, NoRun
<1>14. StoredOK'
  <2> SUFFICES ASSUME NoFaults' PROVE StoredOK'
    BY DEF StoredOK
  <2>1. NoFaults
    BY <1>1 DEF NoFaults
  <2>2. \A q \in Procs : pc'[q] \notin {"stuck", "mark"}
    BY <1>6, <2>1 DEF Persistence, StoredOK
  <2>3. ASSUME NEW j \in Ids, phase' = "serving", jobs'[j] # NoRun, jobs'[j] \notin deleting'
        PROVE  disk'[j].dir /\ disk'[j].meta.run \in {NoRun, jobs'[j]}
    BY <1>1, <1>3, <1>4, <2>1, <2>3 DEF Persistence, StoredOK
  <2>4. ASSUME left'.vanish = MaxVanish
        PROVE  /\ \A j \in Ids : jobs'[j] # NoRun /\ jobs'[j] \notin deleting'
                                   /\ job'[jobs'[j]].status = "ready" => disk'[j].video
               /\ pc'[dw] = "succeeded" => disk'[job'[own'[dw]].id].video
    <3>1. ASSUME NEW j \in Ids, jobs'[j] # NoRun, jobs'[j] \notin deleting',
                 job'[jobs'[j]].status = "ready"
          PROVE  disk'[j].video
      <4>1. j # i
        BY <1>3, <3>1 DEF NewJob
      <4>2. jobs'[j] = jobs[j] /\ jobs[j] \in Registry /\ jobs[j] \in Runs
        BY <1>3, <3>1, <4>1, RegistryTyped DEF Registry, TypeOK
      <4>3. job'[jobs[j]] = job[jobs[j]]
        BY <1>2, <1>3, <4>2
      <4> QED BY <1>1, <1>3, <2>1, <2>4, <3>1, <4>1, <4>2, <4>3 DEF Persistence, StoredOK
    <3>2. ASSUME pc'[dw] = "succeeded"
          PROVE  disk'[job'[own'[dw]].id].video
      BY <1>1, <1>3, <1>13, <2>1, <2>4, <3>2 DEF Persistence, StoredOK
    <3> QED BY <3>1, <3>2
  <2> QED BY <2>2, <2>3, <2>4 DEF StoredOK
<1>15. SyncOK'
  <2> SUFFICES ASSUME NoFaults', phase' = "serving", NEW j \in Ids, NEW q \in Runs, jobs'[j] = q,
                      q \notin deleting'
               PROVE  Due(q)' \/ (IF InSave(q)' THEN Same(snap[q], q)' ELSE Restores(disk[j], q)')
    BY SyncIntro
  <2>1. CASE j = i
    <3>1. q = n /\ job'[q].status = "queued" /\ job'[q].titled = FALSE
      BY <1>3, <2>1 DEF NewJob
    <3>2. ~InSave(q)'
      <4>1. saveMu[n] = free
        BY <1>1, <1>2 DEF Persistence, LocksOK
      <4> QED BY <1>10, <3>1, <4>1, HolderNames DEF InSave
    <3>3. Restores(disk[j], q)'
      <4>1. disk'[j].meta.status = "queued" /\ disk'[j].meta.titled = FALSE
        BY <1>4, <2>1
      <4> QED BY <3>1, <4>1 DEF Restores
    <3> QED BY <3>2, <3>3
  <2>2. CASE j # i
    <3>1. /\ jobs[j] = q /\ q # n /\ job'[q] = job[q] /\ disk'[j] = disk[j] /\ NoFaults
          /\ phase = "serving" /\ q \notin deleting /\ q # NoRun /\ snap' = snap
      BY <1>1, <1>2, <1>3, <2>2 DEF Registry, NoFaults, Runs, NoRun
    <3>2. Due(q) \/ IF InSave(q) THEN Same(snap[q], q) ELSE Restores(disk[j], q)
      BY <3>1 DEF Persistence, SyncOK
    <3>3. Due(q) => Due(q)'
      BY <1>1, DueKept, Kinds
    <3>4. /\ Same(snap[q], q) => Same(snap[q], q)'
          /\ Restores(disk[j], q) => Restores(disk[j], q)'
      BY <3>1 DEF Same, Restores, RecoveredStatus
    <3> QED BY <1>10, <3>2, <3>3, <3>4
  <2> QED BY <2>1, <2>2
<1>16. PreOK'
  <2> SUFFICES ASSUME NoFaults', pc'[dw] \in RunLabels, NEW q \in Runs, own'[dw] = q,
                      q \notin deleting'
               PROVE  /\ InSave(q)' => snap'[q].status # "ready"
                      /\ pc'[dw] # "writeStart" => disk'[job'[q].id].meta.status # "ready"
    BY PreIntro
  <2>1. /\ own[dw] = q /\ pc'[dw] = pc[dw] /\ job'[q] = job[q] /\ job[q].id \in Ids \ {i}
        /\ NoFaults /\ q \notin deleting
    BY <1>1, <1>3, <1>13 DEF NoFaults
  <2> QED BY <1>1, <1>3, <1>10, <2>1 DEF Persistence, PreOK
<1> QED BY <1>9, <1>12, <1>14, <1>15, <1>16 DEF Persistence

\* A submission that cannot be saved leaves part of its directory at most.
LEMMA RefusePersistence ==
  ASSUME TypeOK, TypeOK', Identity, Ownership, Persistence, NEW c \in Clients, NEW i \in Ids,
         SubmitUnsaved(c, i)
  PROVE  Persistence'
<1> DEFINE n == created + 1
<1>1. /\ n \in Runs /\ created' = n /\ created \in Nat /\ jobs[i] = NoRun
      /\ job' = [job EXCEPT ![n] = NewJob(i)] /\ Goto(c, "idle")
      /\ \A q \in Procs \ {c} : own'[q] = own[q]
      /\ UNCHANGED <<phase, jobs, removed, saveMu, snap>>
      /\ phase = "serving" /\ pc[c] \in {"idle", "resubmit"} /\ ~NoFaults'
  BY BoundsAssumption, FaultUsed DEF SubmitUnsaved, Asks, Unowned, Admissible, TypeOK, RegistryOK,
     ProcsOK, Runs, MaybeRun, lifeVars, flagVars, saveVars
<1> HIDE DEF n
<1>2. n \notin removed /\ n # NoRun /\ \A q \in Registry : q \in Runs /\ q # n
  <2>1. \A q \in Runs : q <= created => q # n
    BY <1>1 DEF n, Runs
  <2>2. \A q \in Registry : q \in Runs /\ q <= created
    BY RegistryTyped DEF TypeOK, Registry, Identity, CardsOK
  <2> QED BY <1>1, <2>1, <2>2 DEF Runs, NoRun, Persistence, RemovedOK, TypeOK, RegistryOK
<1>3. \A q \in Runs \ {n} : job'[q] = job[q]
  BY <1>1 DEF TypeOK, RegistryOK
<1>4. PICK d \in FailedSaves(disk[i], NewMeta) : disk' = [disk EXCEPT ![i] = d]
  BY DEF SubmitUnsaved
<1>5. disk'[i] = d /\ disk[i] \in Dir /\ \A j \in Ids \ {i} : disk'[j] = disk[j]
  BY <1>4 DEF TypeOK, StorageOK
<1>6. /\ d.video = disk[i].video
      /\ d.meta = disk[i].meta \/ d.meta.run = n
      /\ d.dir \/ d = disk[i]
  <2>1. NewMeta.run = n
    BY DEF NewMeta, n
  <2> QED BY <1>5, <2>1 DEF FailedSaves, Written, Dir
<1>7. pc'[c] = "idle" /\ OthersHold(c)
  BY <1>1, Moved, OthersMove, Kinds
<1>8. pc[c] \notin HoldLabels /\ "idle" \notin HoldLabels
  BY <1>1 DEF HoldLabels, WriteLabels
<1>9. \A q \in Procs : pc'[q] = "mark" => pc[q] = "mark"
  <2>1. \A q \in Procs \ {c} : pc'[q] = pc[q] \/ (pc[q] = "waiting" /\ pc'[q] = "idle")
    BY <1>1, Moved, Kinds
  <2> QED BY <1>7, <2>1
<1>10. Handless
  BY <1>1, <1>7, <1>8, <1>9 DEF OthersHold, Handless
<1>11. Registry' = Registry
  BY <1>1 DEF Registry
<1>12. LocksOK'
  BY <1>1, <1>10, <1>11, LocksKept DEF Persistence
<1>13. RemovedOK'
  <2>1. ASSUME NEW q \in Procs, pc'[q] = "unregister"
        PROVE  disk'[job'[own'[q]].id] = NoDir
    <3>1. pc[q] = "unregister" /\ own'[q] = own[q] /\ pc[q] \in HoldLabels
      BY <1>10, <2>1 DEF Handless, HoldLabels
    <3>2. /\ own[q] \in Registry /\ own[q] \in Runs /\ job[own[q]].id \in Ids
          /\ jobs[job[own[q]].id] = own[q]
      BY <3>1, Holder DEF Persistence
    <3>3. job'[own'[q]].id = job[own[q]].id /\ job[own[q]].id # i
      BY <1>1, <1>2, <1>3, <3>1, <3>2 DEF Runs, NoRun
    <3> QED BY <1>5, <3>1, <3>2, <3>3 DEF Persistence, RemovedOK
  <2>2. removed' \intersect Registry' = {} /\ \A q \in removed' : q <= created'
    <3>1. \A q \in removed : q \in Nat /\ q <= created
      BY DEF Persistence, RemovedOK, TypeOK, RegistryOK, Runs
    <3> QED BY <1>1, <1>11, <3>1 DEF n, Persistence, RemovedOK
  <2>3. ASSUME NEW j \in Ids
        PROVE  /\ disk'[j].meta.run \notin removed'
               /\ disk'[j].meta.run = NoRun => disk'[j].meta = NoMeta
               /\ disk'[j].dir \/ disk'[j] = NoDir
               /\ phase' = "serving" /\ jobs'[j] = NoRun =>
                    ~disk'[j].video /\ (NoFaults' => disk'[j] = NoDir)
    <3>1. CASE j = i
      BY <1>1, <1>2, <1>5, <1>6, <3>1 DEF Persistence, RemovedOK
    <3>2. CASE j # i
      BY <1>1, <1>5, <3>2 DEF Persistence, RemovedOK
    <3> QED BY <3>1, <3>2
  <2> QED BY <2>1, <2>2, <2>3 DEF RemovedOK
<1> QED BY <1>1, <1>12, <1>13 DEF Persistence, StoredOK, SyncOK, PreOK

-----------------------------------------------------------------------------
(* The end and the beginning of a process. *)

\* A dead process holds no locks.
LEMMA DeadLocks ==
  ASSUME saveMu' = AllUnlocked, snap' = NoSnapshots, pc' = AllIdle
  PROVE  LocksOK'
<1>1. \A r \in Runs : saveMu'[r] = free /\ snap'[r] = NoMeta
  BY DEF AllUnlocked, NoSnapshots
<1>2. \A p \in Procs : pc'[p] \notin HoldLabels
  BY DEF AllIdle, HoldLabels, WriteLabels
<1> QED BY <1>1, <1>2, HolderNames DEF LocksOK, InSave

\* What a crash leaves of a directory has no record of a removed job.
LEMMA TornRecords ==
  ASSUME TypeOK, Identity, Persistence, NEW i \in Ids, NEW d \in Torn(i)
  PROVE  /\ \/ d.meta \in {disk[i].meta, NoMeta}
            \/ jobs[i] # NoRun /\ d.meta.run = jobs[i]
         /\ d.dir \/ d = NoDir
<1>1. disk[i] \in Dir /\ (disk[i].dir \/ disk[i] = NoDir)
  BY DEF TypeOK, StorageOK, Persistence, RemovedOK
<1>2. CASE d = disk[i]
  BY <1>1, <1>2
<1>3. CASE d \in HalfRemoved(i)
  <2>1. CASE d = NoDir
    BY <2>1 DEF NoDir
  <2>2. CASE d # NoDir
    <3>1. d \in [dir : {disk[i].dir}, meta : {disk[i].meta, NoMeta}, video : {disk[i].video, FALSE}]
      BY <1>3, <2>2 DEF HalfRemoved, PartialRemovals
    <3>2. d.dir = disk[i].dir /\ d.meta \in {disk[i].meta, NoMeta}
            /\ d.video \in {disk[i].video, FALSE}
          /\ d = [dir |-> d.dir, meta |-> d.meta, video |-> d.video]
      BY <3>1
    <3>3. ASSUME disk[i] = NoDir
          PROVE  d = NoDir
      <4>1. disk[i].dir = FALSE /\ disk[i].meta = NoMeta /\ disk[i].video = FALSE
        BY <3>3 DEF NoDir
      <4>2. d.dir = FALSE /\ d.meta = NoMeta /\ d.video = FALSE
        BY <3>2, <4>1
      <4> QED BY <3>2, <4>2, Zenon DEF NoDir
    <3> QED BY <1>1, <2>2, <3>2, <3>3
  <2> QED BY <2>1, <2>2
<1>4. ASSUME NEW r \in Runs, Saving(r, i), d \in FailedSaves(disk[i], snap[r])
      PROVE  /\ d.meta = disk[i].meta \/ (jobs[i] # NoRun /\ d.meta.run = jobs[i])
             /\ d.dir \/ d = disk[i]
  <2>1. snap[r].run = r /\ r \in Registry
    BY <1>4, HolderNames DEF Saving, Persistence, LocksOK, InSave
  <2>2. jobs[i] = r /\ r # NoRun
    BY <1>4, <2>1, Registered DEF Saving, Runs, NoRun
  <2> QED BY <1>1, <1>4, <2>1, <2>2 DEF FailedSaves, Written, Dir
<1>5. CASE d \in HalfSaved(i)
  BY <1>1, <1>4, <1>5 DEF HalfSaved
<1>6. CASE d \in HalfSubmitted(i)
  BY <1>1, <1>6 DEF HalfSubmitted, Dir
<1> QED BY <1>2, <1>3, <1>5, <1>6 DEF Torn

LEMMA EndedRecords ==
  ASSUME TypeOK, TypeOK', Identity, Persistence, Exit \/ Crash \/ RecoverFails, NEW i \in Ids
  PROVE  /\ \/ disk'[i].meta \in {disk[i].meta, NoMeta}
            \/ jobs[i] # NoRun /\ disk'[i].meta.run = jobs[i]
         /\ disk'[i].dir \/ disk'[i] = NoDir
<1>1. CASE disk'[i] = disk[i]
  BY <1>1 DEF Persistence, RemovedOK
<1>2. CASE disk'[i] # disk[i]
  <2>1. disk'[i] \in Torn(i)
    BY <1>2 DEF Exit, Crash, RecoverFails, Ends, Residues
  <2> QED BY <2>1, TornRecords
<1> QED BY <1>1, <1>2

\* The process exits, or crashes.
LEMMA EndPersistence ==
  ASSUME TypeOK, TypeOK', Identity, Persistence, Exit \/ Crash \/ RecoverFails
  PROVE  Persistence'
<1>1. PowerOff /\ phase' = "down"
  BY DEF Exit, Crash, RecoverFails, Ends, PowerOff
<1>2. LocksOK'
  BY <1>1, DeadLocks DEF PowerOff
<1>3. /\ \A i \in Ids : jobs'[i] = NoRun
      /\ \A p \in Procs : pc'[p] = "idle"
      /\ UNCHANGED <<created, removed>>
  BY <1>1 DEF PowerOff, NoJobs, AllIdle
<1>4. Registry' = {}
  BY <1>3 DEF Registry
<1>5. ASSUME NEW i \in Ids
      PROVE  /\ disk'[i].meta \in {disk[i].meta, NoMeta} \/ disk'[i].meta.run \in Registry
             /\ disk'[i].dir \/ disk'[i] = NoDir
  BY EndedRecords DEF Registry
<1>6. RemovedOK'
  <2>1. NoMeta.run = NoRun /\ NoRun \notin removed /\ NoRun \notin Registry
    BY DEF NoMeta, NoRun, Runs, TypeOK, RegistryOK, Registry
  <2>2. ASSUME NEW i \in Ids
        PROVE  /\ disk'[i].meta.run \notin removed
               /\ disk'[i].meta.run = NoRun => disk'[i].meta = NoMeta
               /\ disk'[i].dir \/ disk'[i] = NoDir
    BY <1>5, <2>1 DEF Persistence, RemovedOK
  <2> QED BY <1>1, <1>3, <1>4, <2>2 DEF Persistence, RemovedOK
<1>7. StoredOK' /\ SyncOK' /\ PreOK'
  BY <1>1, <1>3, Kinds DEF StoredOK, SyncOK, PreOK, RunLabels
<1> QED BY <1>2, <1>6, <1>7 DEF Persistence

\* Nobody is at work, and nothing is marked, before the process serves.
LEMMA Asleep ==
  ASSUME TypeOK, Ownership, Scheduling, phase # "serving"
  PROVE  /\ Registry = {} /\ deleting = {} /\ saveMu = AllUnlocked
         /\ \A p \in Procs : pc[p] \notin HoldLabels \union RunLabels \union {"mark", "succeeded"}
<1>1. Registry = {} /\ deleting = {} /\ saveMu = AllUnlocked /\ ~closing
  BY DEF Ownership, MarksOK, Scheduling, IdleOK
<1>2. ASSUME NEW p \in Procs
      PROVE  pc[p] \notin HoldLabels \union RunLabels \union {"mark", "succeeded"}
  <2>1. ~Finalizing(p)
    BY <1>1 DEF Ownership, FinalizersOK, Orphans
  <2>2. p \in Workers => ~Busy(p)
    BY <1>1 DEF Ownership, ClaimsOK, OwnedIsRegistered, Workers
  <2>3. CASE p \in Workers
    BY <2>1, <2>2, <2>3 DEF Ownership, KindsOK, WorkerLabels, Busy, BusyLabels, Finalizing,
       FinalizeLabels, HoldLabels, WriteLabels, RunLabels
  <2>4. CASE p \in Clients
    BY <2>1, <2>4 DEF Ownership, KindsOK, ClientLabels, AwaitLabels, Finalizing,
       FinalizeLabels, HoldLabels, WriteLabels, RunLabels
  <2>5. CASE p = closer
    BY <1>1, <2>5 DEF Scheduling, CloserOK, HoldLabels, WriteLabels, RunLabels
  <2> QED BY <2>3, <2>4, <2>5 DEF Procs
<1> QED BY <1>1, <1>2

\* The runs Recover registers, and the statuses it gives to them.
LEMMA RunsFound ==
  ASSUME TypeOK, Persistence, NEW i \in Ids, NEW rank,
         NEW stamp \in Bijection(Bare, created + 1 .. created + Cardinality(Bare)), NEW unread,
         Registers(rank, stamp, unread)
  PROVE  /\ jobs'[i] = IF i \in Found THEN RunFound(i, stamp) ELSE NoRun
         /\ i \notin Found => disk[i] = NoDir
         /\ i \in Found \ Bare => RunFound(i, stamp) = disk[i].meta.run /\ disk[i].meta # NoMeta
         /\ i \in Bare => RunFound(i, stamp) > created /\ disk[i].meta = NoMeta
<1>1. jobs'[i] = IF i \in Found THEN RunFound(i, stamp) ELSE NoRun
  BY DEF Registers
<1>2. i \notin Found => disk[i] = NoDir
  BY DEF Found, Persistence, RemovedOK
<1>3. i \in Found \ Bare => RunFound(i, stamp) = disk[i].meta.run /\ disk[i].meta # NoMeta
  BY DEF RunFound, Bare
<1>4. ASSUME i \in Bare
      PROVE  RunFound(i, stamp) > created
  <2>1. stamp[i] \in created + 1 .. created + Cardinality(Bare)
    BY <1>4 DEF Bijection, Injection
  <2>2. created \in Nat
    BY DEF TypeOK, RegistryOK, MaybeRun
  <2> QED BY <1>4, <2>1, <2>2 DEF RunFound
<1>5. i \in Bare => disk[i].meta = NoMeta
  BY DEF Bare
<1> QED BY <1>1, <1>2, <1>3, <1>4, <1>5

LEMMA JobsFound ==
  ASSUME TypeOK, TypeOK', Identity, Identity', Persistence, NEW i \in Ids, NEW rank,
         NEW stamp \in Bijection(Bare, created + 1 .. created + Cardinality(Bare)), NEW unread,
         Registers(rank, stamp, unread), jobs'[i] # NoRun
  PROVE  /\ disk[i].dir /\ disk[i].meta.run \in {NoRun, jobs'[i]}
         /\ job'[jobs'[i]].status = IF i \in unread THEN "failed" ELSE RecoveredStatus(disk[i])
         /\ job'[jobs'[i]].titled = disk[i].meta.titled
<1>1. i \in Found /\ RunFound(i, stamp) = jobs'[i] /\ disk[i].dir
  BY RunsFound DEF Found
<1>2. disk[i].meta.run \in {NoRun, jobs'[i]}
  BY RunsFound, <1>1 DEF NoMeta
<1>3. jobs'[i] \in Runs
  BY DEF TypeOK, RegistryOK, MaybeRun, Runs, NoRun
<1>4. ASSUME NEW j \in Found, RunFound(j, stamp) = jobs'[i]
      PROVE  j = i
  <2>1. j \in Ids /\ jobs'[j] = jobs'[i]
    BY RunsFound, <1>4 DEF Found
  <2> QED BY <2>1 DEF Identity, CardsOK
<1>5. (CHOOSE k \in Found : RunFound(k, stamp) = jobs'[i]) = i
  BY <1>1, <1>4
<1>6. job'[jobs'[i]] = JobRecovered(i, rank, unread)
  <2>1. \E k \in Found : RunFound(k, stamp) = jobs'[i]
    BY <1>1
  <2> QED BY <1>3, <1>5, <2>1 DEF Registers
<1> QED BY <1>1, <1>2, <1>6 DEF JobRecovered

\* Recover registers what is there as it is there.
LEMMA RecoverPersistence ==
  ASSUME TypeOK, TypeOK', Identity, Identity', Ownership, Scheduling, Persistence, Recover
  PROVE  Persistence'
<1>1. PICK rank \in Bijection(Found, 1..Cardinality(Found)),
           stamp \in Bijection(Bare, created + 1 .. created + Cardinality(Bare)),
           unread \in Unread :
             /\ Registers(rank, stamp, unread)
             /\ IF unread = {} THEN UNCHANGED left ELSE Fault
  BY DEF Recover
<1>2. /\ phase = "booting" /\ phase' = "serving" /\ pc' = Woken
      /\ created' = created + Cardinality(Bare)
      /\ UNCHANGED <<removed, deleting, own, todo, saveMu, snap, pending, disk>>
      /\ left'.vanish = left.vanish
      /\ NoFaults' => NoFaults /\ unread = {}
  BY <1>1, FaultUsed DEF Recover, flagVars, saveVars, NoFaults
<1>3. /\ Registry = {} /\ deleting = {} /\ saveMu = AllUnlocked
      /\ \A p \in Procs : pc[p] \notin HoldLabels \union RunLabels \union {"mark", "succeeded"}
  BY <1>2, Asleep
<1>4. "idle" \notin HoldLabels \union RunLabels \union {"mark", "succeeded"}
  BY DEF HoldLabels, WriteLabels, RunLabels
<1>5. \A p \in Procs : pc'[p] \notin HoldLabels \union RunLabels \union {"mark", "succeeded"}
  BY <1>2, <1>3, <1>4 DEF Woken
<1>6. \A r \in Runs : saveMu'[r] = free /\ ~InSave(r) /\ ~InSave(r)' /\ snap'[r] = NoMeta
  <2>1. \A r \in Runs : saveMu[r] = free
    BY <1>3 DEF AllUnlocked
  <2> QED BY <1>2, <2>1, HolderNames DEF InSave, Persistence, LocksOK
<1>7. LocksOK'
  BY <1>5, <1>6, HolderNames DEF LocksOK
<1>8. ASSUME NEW i \in Ids
      PROVE  /\ jobs'[i] = IF i \in Found THEN RunFound(i, stamp) ELSE NoRun
             /\ i \notin Found => disk[i] = NoDir
             /\ i \in Found \ Bare => RunFound(i, stamp) = disk[i].meta.run /\ disk[i].meta # NoMeta
             /\ i \in Bare => RunFound(i, stamp) > created /\ disk[i].meta = NoMeta
  BY <1>1, RunsFound
<1>9. RemovedOK'
  <2>1. ASSUME NEW r \in removed
        PROVE  r \notin Registry' /\ r <= created'
    <3>1. r \in Nat /\ created \in Nat /\ r <= created
      BY DEF Persistence, RemovedOK, TypeOK, RegistryOK, Runs, MaybeRun
    <3>2. r <= created'
      <4>1. created' \in Nat /\ (\A i \in Ids : disk[i].meta.run <= created)
        BY <1>2 DEF TypeOK, RegistryOK, MaybeRun, Identity, RecordsOK
      <4>2. IsFiniteSet(Bare)
        BY FS_Subset, NamesAssumption DEF Bare, Found
      <4> QED BY <1>2, <3>1, <4>2, FS_CardinalityType
    <3>3. ASSUME NEW i \in Ids, jobs'[i] = r
          PROVE  FALSE
      BY <1>8, <3>1, <3>3 DEF Persistence, RemovedOK, NoRun, Runs, TypeOK, RegistryOK
    <3> QED BY <3>2, <3>3 DEF Registry
  <2>2. \A i \in Ids : jobs'[i] = NoRun => disk'[i] = NoDir
    <3> SUFFICES ASSUME NEW i \in Ids, jobs'[i] = NoRun, disk'[i] # NoDir PROVE FALSE
      OBVIOUS
    <3>1. i \in Found /\ RunFound(i, stamp) = NoRun
      BY <1>2, <1>8
    <3>2. created \in Nat
      BY DEF TypeOK, RegistryOK, MaybeRun
    <3>3. i \notin Bare
      BY <1>8, <3>1, <3>2 DEF NoRun
    <3> QED BY <1>8, <3>1, <3>3 DEF Persistence, RemovedOK
  <2>3. ~NoDir.video
    BY DEF NoDir
  <2>4. \A p \in Procs : pc'[p] # "unregister"
    BY <1>5 DEF HoldLabels
  <2> QED BY <1>2, <2>1, <2>2, <2>3, <2>4 DEF Persistence, RemovedOK
<1>10. ASSUME NEW i \in Ids, jobs'[i] # NoRun
       PROVE  /\ disk[i].dir /\ disk[i].meta.run \in {NoRun, jobs'[i]}
              /\ unread = {} => job'[jobs'[i]].status = RecoveredStatus(disk[i])
              /\ job'[jobs'[i]].titled = disk[i].meta.titled
  BY <1>1, <1>10, JobsFound
<1>11. StoredOK'
  <2>1. \A i \in Ids : RecoveredStatus(disk[i]) = "ready" => disk[i].video
    BY DEF RecoveredStatus
  <2>2. \A p \in Procs : pc'[p] \notin {"stuck", "mark", "succeeded"}
    BY <1>5 DEF HoldLabels
  <2> QED BY <1>2, <1>10, <2>1, <2>2, Kinds DEF StoredOK
<1>12. SyncOK'
  <2> SUFFICES ASSUME NoFaults', phase' = "serving", NEW j \in Ids, NEW q \in Runs, jobs'[j] = q,
                      q \notin deleting'
               PROVE  Due(q)' \/ (IF InSave(q)' THEN Same(snap[q], q)' ELSE Restores(disk[j], q)')
    BY SyncIntro
  <2>1. /\ job'[q].status = RecoveredStatus(disk[j]) /\ job'[q].titled = disk[j].meta.titled
        /\ disk' = disk
    BY <1>2, <1>10 DEF Runs, NoRun
  <2>2. RecoveredStatus(disk[j]) \in {disk[j].meta.status, "failed"}
    BY DEF RecoveredStatus
  <2> QED BY <1>6, <2>1, <2>2 DEF Restores, RecoveredStatus
<1>13. PreOK'
  BY <1>5, Kinds DEF PreOK
<1> QED BY <1>7, <1>9, <1>11, <1>12, <1>13 DEF Persistence

\* Somebody else removes a file.
LEMMA VanishPersistence ==
  ASSUME TypeOK, TypeOK', Identity, Persistence, NEW i \in Ids, Vanish(i)
  PROVE  Persistence'
<1>1. /\ UNCHANGED <<phase, jobs, job, created, removed, deleting, pc, own, todo, saveMu, snap,
                     pending>>
      /\ disk' = [disk EXCEPT ![i].video = FALSE] /\ disk[i].video
      /\ left'.faults = left.faults /\ left'.vanish # MaxVanish
  BY BoundsAssumption DEF Vanish, lifeVars, regVars, flagVars, procVars, saveVars, TypeOK, StorageOK
<1>2. /\ disk[i] \in Dir /\ disk'[i] = [disk[i] EXCEPT !.video = FALSE]
      /\ \A j \in Ids \ {i} : disk'[j] = disk[j]
  BY <1>1 DEF TypeOK, StorageOK
<1>3. disk'[i].dir = disk[i].dir /\ disk'[i].meta = disk[i].meta /\ ~disk'[i].video
  BY <1>2 DEF Dir
<1>4. disk[i].dir /\ disk[i] # NoDir
  BY <1>1 DEF NoDir, Persistence, RemovedOK
<1>5. \A j \in Ids : disk'[j].dir = disk[j].dir /\ disk'[j].meta = disk[j].meta
  BY <1>2, <1>3
<1>6. Registry' = Registry /\ (NoFaults' <=> NoFaults) /\ \A r \in Runs : InSave(r)' <=> InSave(r)
  BY <1>1 DEF Registry, NoFaults, InSave
<1>7. LocksOK'
  BY <1>1, <1>6 DEF Persistence, LocksOK
<1>8. RemovedOK'
  <2>1. ASSUME NEW q \in Procs, pc[q] = "unregister"
        PROVE  disk'[job[own[q]].id] = NoDir
    <3>1. job[own[q]].id \in Ids
      BY <2>1, Holder DEF Persistence, HoldLabels
    <3> QED BY <1>2, <1>4, <2>1, <3>1 DEF Persistence, RemovedOK
  <2>2. ASSUME NEW j \in Ids
        PROVE  /\ disk'[j].meta.run \notin removed
               /\ disk'[j].meta.run = NoRun => disk'[j].meta = NoMeta
               /\ disk'[j].dir \/ disk'[j] = NoDir
               /\ phase = "serving" /\ jobs[j] = NoRun =>
                    ~disk'[j].video /\ (NoFaults => disk'[j] = NoDir)
    <3>1. CASE j = i
      BY <1>1, <1>3, <1>4, <3>1 DEF Persistence, RemovedOK
    <3>2. CASE j # i
      BY <1>2, <3>2 DEF Persistence, RemovedOK
    <3> QED BY <3>1, <3>2
  <2> QED BY <1>1, <1>6, <2>1, <2>2 DEF Persistence, RemovedOK
<1>9. StoredOK'
  BY <1>1, <1>5, <1>6 DEF Persistence, StoredOK
<1>10. SyncOK'
  <2> SUFFICES ASSUME NoFaults', phase' = "serving", NEW j \in Ids, NEW q \in Runs, jobs'[j] = q,
                      q \notin deleting'
               PROVE  Due(q)' \/ (IF InSave(q)' THEN Same(snap[q], q)' ELSE Restores(disk[j], q)')
    BY SyncIntro
  <2>1. Due(q) \/ IF InSave(q) THEN Same(snap[q], q) ELSE Restores(disk[j], q)
    BY <1>1, <1>6 DEF Persistence, SyncOK, Runs, NoRun
  <2>2. (Due(q) => Due(q)') /\ (Same(snap[q], q) => Same(snap[q], q)')
    BY <1>1 DEF Due, Same
  <2>3. RecoveredStatus(disk[j]) = "failed" => RecoveredStatus(disk'[j]) = "failed"
    <3>1. disk'[j].meta = disk[j].meta /\ (disk'[j].video => disk[j].video)
      BY <1>1, <1>2, <1>3
    <3> QED BY <3>1 DEF RecoveredStatus
  <2>4. Restores(disk[j], q) => Restores(disk[j], q)'
    <3>1. disk'[j].meta = disk[j].meta /\ job' = job
      BY <1>1, <1>5
    <3> QED BY <2>3, <3>1 DEF Restores
  <2> QED BY <1>6, <2>1, <2>2, <2>4
<1>11. PreOK'
  <2> SUFFICES ASSUME NoFaults', pc'[dw] \in RunLabels, NEW q \in Runs, own'[dw] = q,
                      q \notin deleting'
               PROVE  /\ InSave(q)' => snap'[q].status # "ready"
                      /\ pc'[dw] # "writeStart" => disk'[job'[q].id].meta.status # "ready"
    BY PreIntro
  <2>1. \A j \in Ids \union {NoId} : disk'[j].meta = disk[j].meta
    <3>1. disk'[NoId] = disk[NoId]
      BY <1>1, NamesAssumption DEF TypeOK, StorageOK
    <3> QED BY <1>5, <3>1
  <2>2. job[q].id \in Ids \union {NoId}
    BY DEF TypeOK, RegistryOK, Job
  <2> QED BY <1>1, <1>6, <2>1, <2>2 DEF Persistence, PreOK
<1> QED BY <1>7, <1>8, <1>9, <1>10, <1>11 DEF Persistence

-----------------------------------------------------------------------------
(* The invariant, and what follows. *)

LEMMA PersistenceInit ==
  ASSUME Init PROVE Persistence
<1>1. /\ \A p \in Procs : pc[p] = "idle" /\ own[p] = NoRun
      /\ \A r \in Runs : saveMu[r] = free /\ snap[r] = NoMeta
      /\ \A i \in Ids : jobs[i] = NoRun /\ disk[i] = NoDir
      /\ phase = "down" /\ removed = {}
  BY DEF Init, AllIdle, AllUnowned, AllUnlocked, NoSnapshots, NoJobs
<1>2. "idle" \notin HoldLabels \union RunLabels
  BY DEF HoldLabels, WriteLabels, RunLabels
<1>3. LocksOK
  BY <1>1, <1>2, HolderNames DEF LocksOK, InSave
<1>4. RemovedOK
  <2>1. \A i \in Ids : disk[i].meta = NoMeta /\ ~disk[i].video
    BY <1>1 DEF NoDir
  <2>2. \A p \in Procs : pc[p] # "unregister"
    BY <1>1
  <2> QED BY <1>1, <2>1, <2>2 DEF RemovedOK
<1>5. StoredOK /\ SyncOK /\ PreOK
  BY <1>1, <1>2, Kinds DEF StoredOK, SyncOK, PreOK
<1> QED BY <1>3, <1>4, <1>5 DEF Persistence

LEMMA PersistenceNext ==
  ASSUME TypeOK, TypeOK', Identity, Identity', Ownership, Scheduling, Persistence, Next
  PROVE  Persistence'
<1> USE HarmlessKeeps
<1>1. ASSUME NEW c \in Clients,
             \/ \E i \in Ids : SubmitAnswered(c, i) \/ SubmitWaits(c, i)
             \/ List(c) \/ Downgrade(c) \/ WaitTimesOut(c)
             \/ \E r \in Runs : StatFinds(c, r) \/ StatMisses(c, r)
      PROVE  Persistence'
  BY <1>1, RequestHarmless
<1>2. ASSUME NEW c \in Clients, NEW i \in Ids,
             \/ SubmitRequeues(c, i) \/ Retry(c, i) \/ Delete(c, i)
             \/ SubmitNew(c, i) \/ SubmitUnsaved(c, i)
      PROVE  Persistence'
  BY <1>2, RequeueHarmless, DeleteHarmless, SubmitPersistence, RefusePersistence
<1>3. ASSUME NEW p \in Workers \union Clients, Removal(p)
      PROVE  Persistence'
  <2>1. p \in Procs \ {closer}
    BY Kinds
  <2> QED BY <1>3, <2>1, FilePersistence, FinalizePersistence, UnregisterPersistence,
             KeepPersistence DEF Removal
<1>4. ASSUME NEW p \in Workers \union {closer}, Saves(p)
      PROVE  Persistence'
  BY <1>4, SavePersistence, SkipHarmless DEF Saves
<1>5. ASSUME NEW r \in Runs, AsyncSave(r)
      PROVE  Persistence'
  BY <1>5, AsyncPersistence
<1>6. ASSUME NEW w \in Workers, Sleep(w) \/ ExitWorker(w) \/ Mark(w)
      PROVE  Persistence'
  BY <1>6, RestHarmless DEF Persistence
<1>7. CASE StartDownload \/ EndDownload \/ ReleaseDownload \/ \E r \in Runs : PickDownload(r)
  BY <1>7, AdvanceHarmless, EndHarmless, TurnHarmless
<1>8. CASE Pipeline
  BY <1>8, FilePersistence, AdvanceHarmless, TurnHarmless DEF Pipeline
<1>9. ASSUME NEW t \in TitleWorkers,
             \/ \E r \in Runs : PickTitle(t, r)
             \/ \E label \in {"fetched", "rejected", "erred"} : FetchReturns(t, label)
             \/ StartFetch(t) \/ ApplyTitle(t) \/ ApplyRejection(t) \/ AfterError(t)
             \/ Pause(t) \/ BackoffCancelled(t) \/ BackoffElapses(t) \/ GiveUp(t)
             \/ ReleaseFetch(t)
      PROVE  Persistence'
  BY <1>9, TitleHarmless
<1>10. CASE Close \/ ConvertInterrupted \/ CloseReturns \/ \E r \in Runs : CloseSaves(r)
  BY <1>10, CloseHarmless DEF Scheduling
<1>11. CASE Exit \/ Crash \/ RecoverFails \/ Boot \/ Recover \/ \E i \in Ids : Vanish(i)
  BY <1>11, EndPersistence, BootHarmless, RecoverPersistence, VanishPersistence
<1> QED BY <1>1, <1>2, <1>3, <1>4, <1>5, <1>6, <1>7, <1>8, <1>9, <1>10, <1>11, StepCases

LEMMA PersistenceStill ==
  ASSUME Persistence, UNCHANGED vars
  PROVE  Persistence'
  BY DEF Persistence, LocksOK, InSave, RemovedOK, StoredOK, SyncOK, PreOK, Registry, Due, Same,
     Restores, RecoveredStatus, NoFaults, vars, lifeVars, regVars, flagVars, procVars, fetchVars,
     saveVars

\* Locks, directories and records agree as described at the top.
THEOREM PersistenceCorrect == Spec => []Persistence
<1>1. TypeOK /\ TypeOK' /\ Identity /\ Identity' /\ Ownership /\ Scheduling /\ Persistence
        /\ [Next]_vars => Persistence'
  BY PersistenceNext, PersistenceStill
<1> QED BY <1>1, PersistenceInit, TypeCorrect, IdentityCorrect, OwnershipCorrect,
           SchedulingCorrect, PTL DEF Spec

\* A job whose deletion was confirmed never comes back, as a card or on disk.
THEOREM RemovalIsFinal == Spec => []RemovedStaysRemoved
<1>1. Persistence => RemovedStaysRemoved
  BY DEF Persistence, RemovedOK, RemovedStaysRemoved, NoFaults
<1> QED BY <1>1, PersistenceCorrect, PTL

\* While the storage works a restart at any moment finds every card again,
\* and a card that says ready has its file.
THEOREM CardsSurvive == Spec => []CardsAreOnDisk
<1>1. Persistence => CardsAreOnDisk
  BY DEF Persistence, StoredOK, CardsAreOnDisk
<1> QED BY <1>1, PersistenceCorrect, PTL

\* Once its saves are over a card is on disk as it is in memory, in whatever
\* order they were made.
THEOREM SavesConverge == Spec => []SettledMatchesDisk
<1>1. TypeOK /\ Scheduling /\ Persistence => SettledMatchesDisk
  <2> SUFFICES ASSUME TypeOK, Scheduling, Persistence, NoFaults, phase = "serving", NEW i \in Ids,
                      NEW r, r = jobs[i], r # NoRun, Settled(r)
               PROVE  /\ disk[i].meta.titled = job[r].titled
                      /\ \/ job[r].status = RecoveredStatus(disk[i])
                         \/ job[r].status = "ready" /\ ~disk[i].video
    BY DEF SettledMatchesDisk
  <2>1. r \in Shown /\ r \notin active /\ r \notin deleting
    BY DEF Settled, Shown, Registry
  <2>2. pc[closer] # "draining" /\ pc[closer] \notin {"saving", "save", "write"}
    BY DEF Settled, Scheduling, CloserOK
  <2>3. job[r].status \notin InFlight
    BY <2>1, <2>2 DEF Scheduling, InFlightOK
  <2>4. ~Due(r)
    BY <2>2 DEF Due, Settled, SaveLabels
  <2>5. ~InSave(r)
    BY HolderNames DEF InSave, Settled
  <2>6. Restores(disk[i], r)
    BY <2>1, <2>4, <2>5 DEF Persistence, SyncOK
  <2>7. CASE job[r].status = "failed" /\ RecoveredStatus(disk[i]) = "failed"
    BY <2>6, <2>7 DEF Restores
  <2>8. CASE disk[i].meta.status = job[r].status
    <3>1. CASE disk[i].meta = NoMeta
      BY <2>6, <2>8, <3>1 DEF Restores, RecoveredStatus, NoMeta
    <3>2. CASE disk[i].meta # NoMeta
      BY <2>3, <2>6, <2>8, <3>2 DEF Restores, RecoveredStatus
    <3> QED BY <3>1, <3>2
  <2> QED BY <2>6, <2>7, <2>8 DEF Restores
<1> QED BY <1>1, PersistenceCorrect, TypeCorrect, SchedulingCorrect, PTL

\* What Downloader.tla and Files.tla assume of their caller.  saveMu belongs to
\* a job object and a directory to a video; still there is one user of a
\* directory at a time: whoever holds a saveMu holds that of the card its video
\* has now, so two of Save and Remove never meet, nor does one of them meet the
\* first save of a new card, which Submit makes without saveMu when the video has
\* no card.  A worker at work, the pipeline among them, works on a card that is
\* registered, and never on the video somebody is removing.
StoreCallsOrdered ==
  /\ \A r \in Runs : saveMu[r] # free => jobs[job[r].id] = r
  /\ \A w \in Workers : Busy(w) => jobs[job[own[w]].id] = own[w]
  /\ \A w \in Workers, p \in Procs :
       Busy(w) /\ pc[p] = "remove" => job[own[w]].id # job[own[p]].id

\* One user of a video's files at a time, for any number of requests and workers
\* (saveMu in saveCurrent and finalizeDeletion, active and fetching).
THEOREM StoreIsUsedInOrder == Spec => []StoreCallsOrdered
<1>1. TypeOK /\ Identity /\ Ownership /\ Persistence => StoreCallsOrdered
  <2> SUFFICES ASSUME TypeOK, Identity, Ownership, Persistence PROVE StoreCallsOrdered
    OBVIOUS
  <2>1. \A r \in Runs : Current(r) => jobs[job[r].id] = r
    BY Bounded DEF Identity
  <2>2. \A r \in Runs : saveMu[r] # free => Current(r)
    BY DEF Persistence, LocksOK, Current
  <2>3. ASSUME NEW w \in Workers, Busy(w)
        PROVE  own[w] \in active \union fetching /\ own[w] \in Runs /\ Current(own[w])
    <3>1. own[w] \in active \union fetching
      BY <2>3, Kinds DEF Ownership, ClaimsOK, Workers
    <3>2. own[w] \in Registry
      BY <3>1 DEF Ownership, OwnedIsRegistered
    <3> QED BY <3>1, <3>2, RegistryTyped DEF Current, TypeOK
  <2>4. ASSUME NEW w \in Workers, NEW p \in Procs, Busy(w), pc[p] = "remove"
        PROVE  job[own[w]].id # job[own[p]].id
    <3>1. own[p] \in Registry /\ own[p] \notin active \union fetching
      BY <2>4 DEF Ownership, FinalizersOK, Finalizing, FinalizeLabels, Orphans
    <3>2. own[p] \in Runs /\ Current(own[p])
      BY <3>1, RegistryTyped DEF Current, TypeOK
    <3> QED BY <2>1, <2>3, <2>4, <3>1, <3>2
  <2> QED BY <2>1, <2>2, <2>3, <2>4 DEF StoreCallsOrdered
<1> QED BY <1>1, PersistenceCorrect, TypeCorrect, IdentityCorrect, OwnershipCorrect, PTL

-----------------------------------------------------------------------------
(* The manager implements Library.  While the process serves a card shows    *)
(* what is in memory, otherwise what is on disk, so the ends of the process  *)
(* need that a directory with a card records no run but the card's           *)
(* (OwnRecords), whatever saves and removals have failed.                    *)

\* What the directory of a card records is of that card.
OwnRecords == \A i \in Ids : jobs[i] # NoRun => disk[i].meta.run \in {NoRun, jobs[i]}

\* The steps that touch directories, locks or the registry; all others are quiet.
TouchesDisk ==
  \/ MakeWork \/ Publish \/ \E i \in Ids : Vanish(i)
  \/ \E p \in Workers \union Clients : Removal(p)
  \/ \E p \in Workers \union {closer} : Saves(p)
  \/ \E r \in Runs : AsyncSave(r)

Admits == \E c \in Clients, i \in Ids : SubmitNew(c, i) \/ SubmitUnsaved(c, i)

\* Every step is quiet, touches a directory, admits a job, or begins or ends
\* the process.
LEMMA QuietOrNot ==
  ASSUME TypeOK, TypeOK', Identity, Ownership, Scheduling, Persistence, Next
  PROVE  Quiet \/ TouchesDisk \/ Admits \/ Exit \/ Crash \/ RecoverFails \/ Recover
<1>0. Harmless => Quiet
  BY DEF Harmless
<1>1. ASSUME NEW c \in Clients,
             \/ \E i \in Ids : SubmitAnswered(c, i) \/ SubmitWaits(c, i)
             \/ List(c) \/ Downgrade(c) \/ WaitTimesOut(c)
             \/ \E r \in Runs : StatFinds(c, r) \/ StatMisses(c, r)
      PROVE  Quiet
  BY <1>0, <1>1, RequestHarmless
<1>2. ASSUME NEW c \in Clients, NEW i \in Ids, SubmitRequeues(c, i) \/ Retry(c, i) \/ Delete(c, i)
      PROVE  Quiet
  BY <1>0, <1>2, RequeueHarmless, DeleteHarmless
<1>3. ASSUME NEW w \in Workers, Sleep(w) \/ ExitWorker(w) \/ Mark(w)
      PROVE  Quiet
  BY <1>0, <1>3, RestHarmless DEF Persistence
<1>4. CASE StartDownload \/ EndDownload \/ ReleaseDownload \/ \E r \in Runs : PickDownload(r)
  BY <1>0, <1>4, AdvanceHarmless, EndHarmless, TurnHarmless
<1>5. CASE Pipeline
  BY <1>0, <1>5, AdvanceHarmless, TurnHarmless DEF Pipeline, TouchesDisk
<1>6. ASSUME NEW t \in TitleWorkers,
             \/ \E r \in Runs : PickTitle(t, r)
             \/ \E label \in {"fetched", "rejected", "erred"} : FetchReturns(t, label)
             \/ StartFetch(t) \/ ApplyTitle(t) \/ ApplyRejection(t) \/ AfterError(t)
             \/ Pause(t) \/ BackoffCancelled(t) \/ BackoffElapses(t) \/ GiveUp(t)
             \/ ReleaseFetch(t)
      PROVE  Quiet
  BY <1>0, <1>6, TitleHarmless
<1>7. CASE Close \/ ConvertInterrupted \/ CloseReturns \/ \E r \in Runs : CloseSaves(r)
  BY <1>0, <1>7, CloseHarmless DEF Scheduling
<1>8. CASE Boot
  BY <1>0, <1>8, BootHarmless
<1> QED BY <1>1, <1>2, <1>3, <1>4, <1>5, <1>6, <1>7, <1>8, StepCases DEF TouchesDisk, Admits

\* One directory changes, if any: it keeps its record, loses it, or gets the
\* record of the card it belongs to; and only finalizeDeletion takes a card.
LEMMA DirectoryTouched ==
  ASSUME TypeOK, TypeOK', Identity, Ownership, Persistence, TouchesDisk
  PROVE  /\ UNCHANGED <<phase, created>>
         /\ \A i \in Ids : \/ disk'[i].meta \in {disk[i].meta, NoMeta}
                           \/ jobs[i] # NoRun /\ disk'[i].meta.run = jobs[i]
         /\ UNCHANGED <<jobs, removed>> \/ \E p \in Workers \union Clients : Unregister(p)
<1> USE DEF lifeVars, regVars, flagVars, fetchVars, procVars, saveVars
<1>1. \A i \in Ids : disk[i] \in Dir
  BY DEF TypeOK, StorageOK
<1>2. CASE MakeWork \/ Publish
  <2>1. UNCHANGED <<phase, created, jobs, removed>>
    BY <1>2 DEF MakeWork, Publish
  <2>2. \/ disk' = [disk EXCEPT ![job[own[dw]].id].dir = TRUE]
        \/ disk' = [disk EXCEPT ![job[own[dw]].id].video = TRUE]
    BY <1>2 DEF MakeWork, Publish
  <2>3. \A i \in Ids : disk'[i].meta = disk[i].meta
    BY <1>1, <2>2 DEF Dir, TypeOK, StorageOK
  <2> QED BY <2>1, <2>3
<1>3. ASSUME NEW i \in Ids, Vanish(i)
      PROVE  /\ UNCHANGED <<phase, created, jobs, removed>>
             /\ \A j \in Ids : disk'[j].meta = disk[j].meta
  <2>1. UNCHANGED <<phase, created, jobs, removed>> /\ disk' = [disk EXCEPT ![i].video = FALSE]
    BY <1>3 DEF Vanish
  <2> QED BY <1>1, <2>1 DEF Dir, TypeOK, StorageOK
<1>4. ASSUME NEW p \in Workers \union Clients, Removal(p)
      PROVE  /\ UNCHANGED <<phase, created>>
             /\ \A i \in Ids : disk'[i].meta \in {disk[i].meta, NoMeta}
             /\ UNCHANGED <<jobs, removed>> \/ Unregister(p)
  <2>1. CASE Finalize(p) \/ Unregister(p) \/ KeepCard(p)
    BY <2>1 DEF Finalize, Unregister, KeepCard
  <2>2. CASE RemoveFiles(p) \/ RemoveFails(p)
    <3>1. UNCHANGED <<phase, created, jobs, removed>>
      BY <2>2 DEF RemoveFiles, RemoveFails
    <3>2. PICK j, d : d \in PartialRemovals(disk[j]) /\ disk' = [disk EXCEPT ![j] = d]
      BY <2>2 DEF RemoveFiles, RemoveFails, PartialRemovals
    <3>3. \A i \in Ids : disk'[i] \in {disk[i]} \union PartialRemovals(disk[i])
      BY <3>2 DEF TypeOK, StorageOK
    <3>4. ASSUME NEW i \in Ids, NEW e \in {disk[i]} \union PartialRemovals(disk[i])
          PROVE  e.meta \in {disk[i].meta, NoMeta}
      <4>1. CASE e = disk[i] \/ e = NoDir
        BY <4>1 DEF NoDir
      <4>2. CASE e \in [dir : {disk[i].dir}, meta : {disk[i].meta, NoMeta},
                        video : {disk[i].video, FALSE}]
        BY <4>2
      <4> QED BY <3>4, <4>1, <4>2 DEF PartialRemovals
    <3> QED BY <3>1, <3>3, <3>4
  <2> QED BY <1>4, <2>1, <2>2 DEF Removal
<1>5. ASSUME NEW r \in Runs, InSave(r), Stores(r) \/ FailsToStore(r)
      PROVE  \A i \in Ids : \/ disk'[i].meta = disk[i].meta
                            \/ jobs[i] # NoRun /\ disk'[i].meta.run = jobs[i]
  <2>1. snap[r].run = r /\ r \in Registry
    BY <1>5, HolderNames DEF InSave, Persistence, LocksOK
  <2>2. job[r].id \in Ids /\ jobs[job[r].id] = r /\ r # NoRun
    BY <2>1, Registered DEF Runs, NoRun
  <2>3. PICK d \in FailedSaves(disk[job[r].id], snap[r]) : disk' = [disk EXCEPT ![job[r].id] = d]
    BY <1>5 DEF Stores, FailsToStore, FailedSaves
  <2>4. d.meta = disk[job[r].id].meta \/ d.meta = snap[r]
    BY <1>1, <2>2 DEF FailedSaves, Written, Dir
  <2> QED BY <2>1, <2>2, <2>3, <2>4 DEF TypeOK, StorageOK
<1>6. ASSUME NEW p \in Workers \union {closer}, Saves(p)
      PROVE  /\ UNCHANGED <<phase, created, jobs, removed>>
             /\ \A i \in Ids : \/ disk'[i].meta = disk[i].meta
                               \/ jobs[i] # NoRun /\ disk'[i].meta.run = jobs[i]
  <2>1. CASE BeginSave(p) \/ SkipSave(p)
    BY <2>1 DEF BeginSave, SkipSave, Moves, pcFrame
  <2>2. CASE EndSave(p)
    <3>1. p \in Procs /\ pc[p] \in WriteLabels /\ pc[p] \in HoldLabels
      BY <2>2, Kinds DEF EndSave, WriteLabels, HoldLabels
    <3>2. own[p] \in Runs /\ InSave(own[p])
      BY <3>1, Holder DEF InSave, Persistence
    <3> QED BY <1>5, <2>2, <3>2 DEF EndSave
  <2> QED BY <1>6, <2>1, <2>2 DEF Saves
<1>7. ASSUME NEW r \in Runs, AsyncSave(r)
      PROVE  /\ UNCHANGED <<phase, created, jobs, removed>>
             /\ \A i \in Ids : \/ disk'[i].meta = disk[i].meta
                               \/ jobs[i] # NoRun /\ disk'[i].meta.run = jobs[i]
  <2>1. CASE BeginAsyncSave(r)
    BY <2>1 DEF BeginAsyncSave
  <2>2. CASE EndAsyncSave(r)
    BY <1>5, <2>2 DEF EndAsyncSave, InSave
  <2> QED BY <1>7, <2>1, <2>2 DEF AsyncSave
<1> QED BY <1>2, <1>3, <1>4, <1>6, <1>7 DEF TouchesDisk

\* OwnRecords is preserved by every step.
LEMMA OwnRecordsNext ==
  ASSUME TypeOK, TypeOK', Identity, Ownership, Scheduling, Persistence, OwnRecords, Next
  PROVE  OwnRecords'
<1>1. CASE Quiet
  BY <1>1 DEF Quiet, OwnRecords
<1>2. CASE TouchesDisk
  <2>1. \A i \in Ids : jobs'[i] \in {jobs[i], NoRun}
    <3>1. ASSUME NEW p \in Workers \union Clients, Unregister(p)
          PROVE  \A i \in Ids : jobs'[i] \in {jobs[i], NoRun}
      BY <3>1 DEF Unregister, TypeOK, RegistryOK
    <3> QED BY <1>2, <3>1, DirectoryTouched
  <2>2. NoMeta.run = NoRun
    BY DEF NoMeta
  <2> QED BY <1>2, <2>1, <2>2, DirectoryTouched DEF OwnRecords
<1>3. ASSUME NEW c \in Clients, NEW i \in Ids, SubmitNew(c, i)
      PROVE  OwnRecords'
  <2>1. /\ jobs' = [jobs EXCEPT ![i] = created + 1]
        /\ disk' = [disk EXCEPT ![i] = Written(@, NewMeta)]
    BY <1>3 DEF SubmitNew, NewDir
  <2>2. jobs'[i] = created + 1 /\ \A j \in Ids \ {i} : jobs'[j] = jobs[j] /\ disk'[j] = disk[j]
    BY <2>1 DEF TypeOK, RegistryOK, StorageOK
  <2>3. disk'[i].meta.run = created + 1
    BY <2>1 DEF TypeOK, StorageOK, Written, NewMeta, Dir
  <2> QED BY <2>2, <2>3 DEF OwnRecords
<1>4. ASSUME NEW c \in Clients, NEW i \in Ids, SubmitUnsaved(c, i)
      PROVE  OwnRecords'
  <2>1. jobs' = jobs /\ jobs[i] = NoRun /\ \A j \in Ids \ {i} : disk'[j] = disk[j]
    BY <1>4 DEF SubmitUnsaved, Admissible, TypeOK, StorageOK
  <2> QED BY <2>1 DEF OwnRecords
<1>5. CASE Exit \/ Crash \/ RecoverFails
  BY <1>5 DEF Exit, Crash, RecoverFails, Ends, PowerOff, NoJobs, OwnRecords
<1>6. CASE Recover
  <2>1. PICK rank, stamp, unread : Registers(rank, stamp, unread)
    BY <1>6 DEF Recover
  <2>2. \A i \in Ids : jobs'[i] # NoRun => i \in Found /\ jobs'[i] = RunFound(i, stamp)
    BY <2>1 DEF Registers
  <2> QED BY <1>6, <2>2 DEF Recover, OwnRecords, RunFound, Bare, NoMeta
<1> QED BY <1>1, <1>2, <1>3, <1>4, <1>5, <1>6, QuietOrNot DEF Admits

\* A step of a serving process changes the status of one job at most, unless it
\* is Close that fails the jobs that were interrupted.
OneStatus == \E r : \A q \in Runs \ {r} : job'[q].status = job[q].status

LEMMA StatusSet ==
  ASSUME TypeOK, NEW r, NEW new, job' = [job EXCEPT ![r] = new]
  PROVE  OneStatus
<1>1. \A q \in Runs \ {r} : job'[q] = job[q]
  BY DEF TypeOK, RegistryOK
<1> QED BY <1>1 DEF OneStatus

LEMMA StatusMoves ==
  ASSUME TypeOK, Next, ~ConvertInterrupted, ~Exit, ~Crash, ~RecoverFails, ~Recover
  PROVE  OneStatus
<1> USE DEF lifeVars, regVars, ownFrame, pcFrame
<1>1. UNCHANGED job => OneStatus
  BY DEF OneStatus
<1>2. ASSUME NEW c \in Clients, NEW i \in Ids,
             \/ SubmitAnswered(c, i) \/ SubmitWaits(c, i) \/ SubmitRequeues(c, i)
             \/ SubmitNew(c, i) \/ SubmitUnsaved(c, i) \/ Retry(c, i) \/ Delete(c, i)
      PROVE  OneStatus
  <2>1. CASE SubmitAnswered(c, i) \/ SubmitWaits(c, i) \/ Delete(c, i)
    BY <1>1, <2>1 DEF SubmitAnswered, SubmitWaits, Delete
  <2>2. CASE SubmitNew(c, i) \/ SubmitUnsaved(c, i)
    BY <2>2, StatusSet DEF SubmitNew, SubmitUnsaved
  <2>3. CASE SubmitRequeues(c, i) \/ Retry(c, i)
    <3>1. job' = [job EXCEPT ![jobs[i]].status = "queued", ![jobs[i]].seq = lastSeq + 1]
      BY <2>3 DEF SubmitRequeues, Retry, requeueLocked
    <3>2. \A q \in Runs \ {jobs[i]} : job'[q] = job[q]
      BY <3>1 DEF TypeOK, RegistryOK
    <3> QED BY <3>2 DEF OneStatus
  <2> QED BY <1>2, <2>1, <2>2, <2>3
<1>3. ASSUME NEW c \in Clients,
             \/ List(c) \/ Downgrade(c) \/ WaitTimesOut(c)
             \/ \E r \in Runs : StatFinds(c, r) \/ StatMisses(c, r)
      PROVE  OneStatus
  BY <1>1, <1>3, StatusSet DEF List, Downgrade, WaitTimesOut, StatFinds, StatMisses
<1>4. ASSUME NEW p, Removal(p) \/ Saves(p)
      PROVE  OneStatus
  BY <1>1, <1>4, StatusSet DEF Removal, Finalize, RemoveFiles, RemoveFails, Unregister, KeepCard,
     Saves, BeginSave, SkipSave, EndSave, Moves
<1>5. ASSUME NEW r \in Runs, AsyncSave(r) \/ PickDownload(r) \/ CloseSaves(r)
      PROVE  OneStatus
  BY <1>1, <1>5 DEF AsyncSave, BeginAsyncSave, EndAsyncSave, PickDownload, CloseSaves
<1>6. ASSUME NEW w \in Workers, Sleep(w) \/ ExitWorker(w) \/ Mark(w)
      PROVE  OneStatus
  BY <1>1, <1>6, StatusSet DEF Sleep, ExitWorker, Mark, Moves
<1>7. ASSUME StartDownload \/ ReleaseDownload \/ Pipeline
      PROVE  OneStatus
  BY <1>1, <1>7, StatusSet DEF StartDownload, ReleaseDownload, Pipeline, MakeWork, Report,
     CheckContext, Publish, PublishNothing, PipelineFails, PipelineCanceled, Moves
<1>8. ASSUME EndDownload
      PROVE  OneStatus
  <2>1. \/ UNCHANGED job
        \/ \E status : \E known \in BOOLEAN :
             job' = [job EXCEPT ![own[dw]].status = status, ![own[dw]].titled = @ \/ known]
    BY <1>8, Zenon DEF EndDownload
  <2>2. ASSUME NEW status, NEW titled,
               job' = [job EXCEPT ![own[dw]].status = status, ![own[dw]].titled = titled]
        PROVE  OneStatus
    <3>1. \A q \in Runs \ {own[dw]} : job'[q] = job[q]
      BY <2>2 DEF TypeOK, RegistryOK
    <3> QED BY <3>1 DEF OneStatus
  <2> QED BY <1>1, <2>1, <2>2, Zenon
<1>9. ASSUME NEW t \in TitleWorkers,
             \/ \E r \in Runs : PickTitle(t, r)
             \/ \E label \in {"fetched", "rejected", "erred"} : FetchReturns(t, label)
             \/ StartFetch(t) \/ AfterError(t) \/ Pause(t) \/ BackoffCancelled(t)
             \/ BackoffElapses(t) \/ ReleaseFetch(t)
      PROVE  OneStatus
  BY <1>1, <1>9 DEF PickTitle, FetchReturns, StartFetch, AfterError, Pause, BackoffCancelled,
     BackoffElapses, ReleaseFetch, Moves
<1>10. ASSUME NEW t \in TitleWorkers, ApplyTitle(t) \/ ApplyRejection(t) \/ GiveUp(t)
       PROVE  OneStatus
  BY <1>1, <1>10, StatusSet DEF ApplyTitle, ApplyRejection, GiveUp
<1>11. ASSUME \/ Close \/ CloseReturns \/ Boot
              \/ \E i \in Ids : Vanish(i)
       PROVE  OneStatus
  BY <1>1, <1>11 DEF Close, CloseReturns, Boot, Vanish
<1> QED BY <1>2, <1>3, <1>4, <1>5, <1>6, <1>7, <1>8, <1>9, <1>10, <1>11, StepCases

-----------------------------------------------------------------------------
(* The cards under the mapping. *)

\* A card exists while its job is registered; a status has a card status.
LEMMA CardsShown ==
  ASSUME TypeOK
  PROVE  /\ \A r, s : CardOf(r, s).run = r /\ CardOf(r, s).status = CardStatus(s)
         /\ \A s \in Statuses : /\ CardStatus(s) \in {"unfinished", "ready", "failed"}
                                /\ CardStatus(s) = "unfinished" <=> s \in Unfinished
                                /\ CardStatus(s) = "ready" <=> s = "ready"
                                /\ CardStatus(s) = "failed" <=> s = "failed"
         /\ NoCard.run = NoRun /\ \A r \in Runs : \A s : CardOf(r, s) # NoCard
         /\ \A i \in Ids : jobs[i] # NoRun => jobs[i] \in Runs /\ job[jobs[i]].status \in Statuses
<1>1. \A r, s : CardOf(r, s).run = r /\ CardOf(r, s).status = CardStatus(s)
  BY DEF CardOf
<1>2. \A s \in Statuses : /\ CardStatus(s) \in {"unfinished", "ready", "failed"}
                          /\ CardStatus(s) = "unfinished" <=> s \in Unfinished
                          /\ CardStatus(s) = "ready" <=> s = "ready"
                          /\ CardStatus(s) = "failed" <=> s = "failed"
  BY DEF CardStatus, Statuses, Unfinished, InFlight
<1>3. NoCard.run = NoRun /\ \A r \in Runs : \A s : CardOf(r, s) # NoCard
  BY <1>1 DEF NoCard, Runs, NoRun
<1>4. \A i \in Ids : jobs[i] # NoRun => jobs[i] \in Runs /\ job[jobs[i]].status \in Statuses
  BY DEF TypeOK, RegistryOK, MaybeRun, Runs, NoRun, Job
<1> QED BY <1>1, <1>2, <1>3, <1>4

\* The cards of a serving process.
LEMMA ServingCards ==
  ASSUME phase = "serving"
  PROVE  /\ card = [i \in Ids |-> IF jobs[i] = NoRun THEN NoCard
                                  ELSE CardOf(jobs[i], job[jobs[i]].status)]
         /\ \A i \in Ids : card[i] = IF jobs[i] = NoRun THEN NoCard
                                     ELSE CardOf(jobs[i], job[jobs[i]].status)
  BY DEF card

\* One card changes its status: Library allows all changes but those of a ready
\* card to an unfinished one.
LEMMA OneCardMoves ==
  ASSUME TypeOK, TypeOK', Identity, phase = "serving", phase' = "serving",
         UNCHANGED <<jobs, created, removed>>, OneStatus,
         \A r \in Runs : job[r].status = "ready" => job'[r].status \in {"ready", "failed"}
  PROVE  UNCHANGED Library!vars \/ Library!Next
<1>1. PICK r : \A q \in Runs \ {r} : job'[q].status = job[q].status
  BY DEF OneStatus
<1>2. /\ \A i \in Ids : card[i] = IF jobs[i] = NoRun THEN NoCard
                                  ELSE CardOf(jobs[i], job[jobs[i]].status)
      /\ card' = [i \in Ids |-> IF jobs[i] = NoRun THEN NoCard
                                ELSE CardOf(jobs[i], job'[jobs[i]].status)]
      /\ card = [i \in Ids |-> card[i]]
  BY DEF card
<1>3. CASE \A i \in Ids : jobs[i] # NoRun => jobs[i] # r
  <2>1. \A i \in Ids : jobs[i] # NoRun => job'[jobs[i]].status = job[jobs[i]].status
    BY <1>1, <1>3, CardsShown
  <2>2. card' = card
    BY <1>2, <2>1
  <2> QED BY <2>2 DEF Library!vars
<1>4. ASSUME NEW i \in Ids, jobs[i] # NoRun, jobs[i] = r
      PROVE  UNCHANGED Library!vars \/ Library!Next
  <2> DEFINE s == CardStatus(job'[r].status)
  <2>1. \A j \in Ids \ {i} : jobs[j] # r
    BY <1>4 DEF Identity, CardsOK
  <2>2. r \in Runs /\ job[r].status \in Statuses /\ job'[r].status \in Statuses
    BY <1>4, CardsShown DEF TypeOK, RegistryOK, Job
  <2>3. card[i] = CardOf(r, job[r].status) /\ card[i] # NoCard
    BY <1>2, <1>4, <2>2, CardsShown
  <2>4. \A j \in Ids \ {i} : jobs[j] # NoRun => job'[jobs[j]].status = job[jobs[j]].status
    BY <1>1, <2>1, CardsShown
  <2>5. [card[i] EXCEPT !.status = s] = CardOf(r, job'[r].status)
    BY <2>3 DEF CardOf
  <2>6. card' = [card EXCEPT ![i] = CardOf(r, job'[r].status)]
    BY <1>2, <1>4, <2>4
  <2>7. Library!Becomes(i, s)
    BY <2>5, <2>6 DEF Library!Becomes
  <2>8. Library!Has(i) /\ card[i].status = CardStatus(job[r].status)
    BY <2>3, CardsShown DEF Library!Has, Library!NoCard, NoCard
  <2>9. UNCHANGED <<phase = "serving", 1..created, removed>>
    OBVIOUS
  <2>10. CASE s = CardStatus(job[r].status)
    <3>1. card' = card
      BY <1>2, <2>3, <2>6, <2>10 DEF CardOf
    <3> QED BY <2>9, <3>1 DEF Library!vars
  <2>11. CASE job[r].status = "ready" /\ s # "ready"
    <3>1. s = "failed" /\ card[i].status = "ready"
      BY <2>2, <2>8, <2>11, CardsShown
    <3> QED BY <2>7, <2>8, <2>9, <3>1 DEF Library!Downgrade, Library!Next
  <2>12. CASE job[r].status # "ready" /\ s # CardStatus(job[r].status)
    <3>1. \/ card[i].status = "unfinished" /\ s = "failed"
          \/ card[i].status # "ready" /\ s \in {"unfinished", "ready"}
      BY <2>2, <2>8, <2>12, CardsShown
    <3>2. Library!Progress(i)
      BY <2>7, <2>8, <2>9, <3>1 DEF Library!Progress
    <3> QED BY <3>2 DEF Library!Next
  <2> QED BY <2>2, <2>10, <2>11, <2>12, CardsShown
<1> QED BY <1>3, <1>4

\* What a restart would make of a directory.
LEMMA StoredCards ==
  ASSUME NEW d \in Dir, d.meta.run = NoRun => d.meta = NoMeta
  PROVE  /\ d.meta = NoMeta => Stored(d) = NoCard
         /\ d.meta # NoMeta =>
              Stored(d) = CardOf(d.meta.run, RecoveredStatus(d)) /\ d.meta.run \in Runs
         /\ RecoveredStatus(d) \in {"queued", "ready", "failed"}
         /\ Stored(d).run = d.meta.run /\ Stored(d) \in Library!Cards
         /\ Stored(d) = NoCard <=> d.meta = NoMeta
<1>1. /\ d.meta = NoMeta => Stored(d) = NoCard
      /\ d.meta # NoMeta => Stored(d) = CardOf(d.meta.run, RecoveredStatus(d))
  BY DEF Stored
<1>2. d.meta.run \in MaybeRun /\ d.meta.status \in Statuses
  BY DEF Dir, Meta
<1>3. d.meta # NoMeta => d.meta.run \in Runs
  BY <1>2 DEF MaybeRun, Runs, NoRun
<1>4. RecoveredStatus(d) \in {"queued", "ready", "failed"}
  BY <1>2 DEF RecoveredStatus, Statuses, Unfinished
<1>5. CardStatus(RecoveredStatus(d)) \in {"unfinished", "ready", "failed"}
  BY <1>4 DEF CardStatus, Unfinished, InFlight
<1>6. Stored(d).run = d.meta.run
  BY <1>1 DEF CardOf, NoCard, NoMeta
<1>7. Stored(d) \in Library!Cards
  BY <1>1, <1>3, <1>5 DEF Library!Cards, Library!CardStatuses, Library!NoCard, NoCard, CardOf
<1>8. d.meta # NoMeta => Stored(d) # NoCard
  BY <1>3, <1>6 DEF NoCard, Runs, NoRun
<1> QED BY <1>1, <1>3, <1>4, <1>6, <1>7, <1>8

\* The cards of a process that does not serve.
LEMMA RestingCards ==
  ASSUME TypeOK, Persistence, phase # "serving"
  PROVE  /\ card = [i \in Ids |-> Stored(disk[i])]
         /\ \A i \in Ids : card[i] = Stored(disk[i]) /\ disk[i] \in Dir
                           /\ (disk[i].meta.run = NoRun => disk[i].meta = NoMeta)
  BY DEF card, TypeOK, StorageOK, Persistence, RemovedOK

\* A process that does not serve shows no change but a file that is gone.
LEMMA RestingSteps ==
  ASSUME TypeOK, TypeOK', Identity, Ownership, Scheduling, Persistence, Persistence', Next,
         phase # "serving", ~Exit, ~Crash, ~RecoverFails, ~Recover
  PROVE  UNCHANGED Library!vars \/ Library!Next
<1>1. UNCHANGED <<created, removed>> /\ phase' # "serving"
  <2>1. CASE Quiet
    BY <2>1 DEF Quiet
  <2>2. CASE TouchesDisk
    <3>1. ASSUME NEW p \in Workers \union Clients
          PROVE  ~Unregister(p)
      BY Asleep, Kinds DEF Unregister, HoldLabels
    <3> QED BY <2>2, <3>1, DirectoryTouched
  <2>3. ~Admits
    BY DEF Admits, SubmitNew, SubmitUnsaved, Asks
  <2> QED BY <2>1, <2>2, <2>3, QuietOrNot
<1>2. (phase = "serving") = FALSE /\ (phase' = "serving") = FALSE
  BY <1>1
<1>3. UNCHANGED <<phase = "serving", 1..created, removed>>
  BY <1>1, <1>2
<1>4. CASE UNCHANGED disk
  <2>1. card' = card
    BY <1>1, <1>4 DEF card, Stored, RecoveredStatus
  <2> QED BY <1>3, <2>1 DEF Library!vars
<1>5. ASSUME NEW i \in Ids, Vanish(i)
      PROVE  UNCHANGED Library!vars \/ Library!Next
  <2>1. disk' = [disk EXCEPT ![i].video = FALSE] /\ disk[i].video
    BY <1>5 DEF Vanish
  <2>2. /\ \A j \in Ids : disk[j] \in Dir /\ (disk[j].meta.run = NoRun => disk[j].meta = NoMeta)
        /\ card = [j \in Ids |-> Stored(disk[j])] /\ card[i] = Stored(disk[i])
        /\ disk'[i] \in Dir
    BY RestingCards DEF TypeOK, StorageOK
  <2>3. card' = [j \in Ids |-> Stored(disk'[j])]
    BY <1>1 DEF card, Stored, RecoveredStatus
  <2>4. /\ disk'[i].meta = disk[i].meta /\ ~disk'[i].video
        /\ \A j \in Ids \ {i} : disk'[j] = disk[j]
    BY <2>1, <2>2 DEF Dir, TypeOK, StorageOK
  <2>5. card' = [card EXCEPT ![i] = Stored(disk'[i])]
    BY <2>2, <2>3, <2>4
  <2>6. CASE disk[i].meta # NoMeta /\ disk[i].meta.status = "ready"
    <3>1. RecoveredStatus(disk[i]) = "ready" /\ RecoveredStatus(disk'[i]) = "failed"
      BY <2>1, <2>4, <2>6 DEF RecoveredStatus, InFlight
    <3>2. /\ Stored(disk[i]) = CardOf(disk[i].meta.run, "ready")
          /\ Stored(disk'[i]) = CardOf(disk[i].meta.run, "failed")
      BY <2>4, <2>6, <3>1 DEF Stored
    <3>3. /\ card[i].status = "ready" /\ card[i] # NoCard
          /\ Stored(disk'[i]) = [card[i] EXCEPT !.status = "failed"]
      BY <2>2, <3>2 DEF CardOf, CardStatus, Unfinished, InFlight, NoCard
    <3>4. Library!Becomes(i, "failed")
      BY <2>5, <3>3 DEF Library!Becomes
    <3>5. Library!Downgrade(i)
      BY <1>3, <3>3, <3>4 DEF Library!Downgrade, Library!Has, Library!NoCard, NoCard
    <3> QED BY <3>5 DEF Library!Next
  <2>7. CASE ~(disk[i].meta # NoMeta /\ disk[i].meta.status = "ready")
    <3>1. RecoveredStatus(disk'[i]) = RecoveredStatus(disk[i])
      BY <2>4, <2>7 DEF RecoveredStatus
    <3>2. Stored(disk'[i]) = card[i]
      BY <2>2, <2>4, <3>1 DEF Stored
    <3>3. card' = card
      BY <2>2, <2>5, <3>2
    <3> QED BY <1>3, <3>3 DEF Library!vars
  <2> QED BY <2>6, <2>7
<1> QED BY <1>4, <1>5, IdleSteps DEF Scheduling

\* Recover is the start of the library.
LEMMA RecoverStarts ==
  ASSUME TypeOK, TypeOK', Identity, Identity', Persistence, Recover
  PROVE  Library!Start
<1>1. PICK rank \in Bijection(Found, 1..Cardinality(Found)),
           stamp \in Bijection(Bare, created + 1 .. created + Cardinality(Bare)),
           unread \in Unread :
             /\ Registers(rank, stamp, unread)
             /\ IF unread = {} THEN UNCHANGED left ELSE Fault
  BY DEF Recover
<1>2. /\ phase # "serving" /\ phase' = "serving" /\ UNCHANGED <<removed, disk>>
      /\ created' = created + Cardinality(Bare) /\ created' <= MaxRuns
  BY DEF Recover
<1>3. created \in Nat /\ Cardinality(Bare) \in Nat
  <2>1. IsFiniteSet(Bare)
    BY NamesAssumption, FS_Subset DEF Found, Bare
  <2> QED BY <2>1, FS_CardinalityType DEF TypeOK, RegistryOK, MaybeRun
<1>4. stamp \in [Bare -> created + 1 .. created']
        /\ {stamp[i] : i \in Bare} = created + 1 .. created'
  BY <1>2 DEF Bijection, Injection, Surjection, IsInjective
<1>5. stamp \in [Bare -> Runs]
  BY <1>2, <1>3, <1>4, BoundsAssumption DEF Runs
<1>6. Bare \in SUBSET Ids
  BY DEF Bare, Found
<1>7. /\ card = [i \in Ids |-> Stored(disk[i])]
      /\ \A i \in Ids : card[i] = Stored(disk[i]) /\ disk[i] \in Dir
                        /\ (disk[i].meta.run = NoRun => disk[i].meta = NoMeta)
  BY <1>2, RestingCards
<1>8. Bare \in SUBSET {i \in Ids : ~Library!Has(i)}
  <2>1. \A i \in Bare : card[i] = NoCard
    BY <1>6, <1>7, StoredCards DEF Bare
  <2> QED BY <1>6, <2>1 DEF Library!Has, Library!NoCard, NoCard
<1>9. \A i \in Bare : stamp[i] \notin 1..created
  BY <1>3, <1>4
<1>10. \A i, j \in Bare : stamp[i] = stamp[j] => i = j
  BY DEF Bijection, Injection, IsInjective
<1>11. ASSUME NEW i \in unread
       PROVE  /\ i \in Found \ Bare /\ i \in Ids
              /\ card[i].status = "ready" /\ RecoveredStatus(disk[i]) = "ready"
  <2>1. i \in Found /\ i \in Ids /\ RecoveredStatus(disk[i]) = "ready"
    BY <1>1 DEF Unread, Found
  <2>2. disk[i].meta # NoMeta
    BY <2>1 DEF RecoveredStatus
  <2>3. card[i] = CardOf(disk[i].meta.run, "ready")
    BY <1>7, <2>1, <2>2, StoredCards
  <2> QED BY <2>1, <2>2, <2>3 DEF Bare, CardOf, CardStatus, Unfinished, InFlight
<1>12. ASSUME NEW i \in Ids
       PROVE  card'[i] = IF i \in Bare THEN [run |-> stamp[i], status |-> "failed"]
                         ELSE IF i \in unread THEN [card[i] EXCEPT !.status = "failed"]
                         ELSE card[i]
  <2>1. /\ jobs'[i] = IF i \in Found THEN RunFound(i, stamp) ELSE NoRun
        /\ i \notin Found => disk[i] = NoDir
        /\ i \in Found \ Bare => RunFound(i, stamp) = disk[i].meta.run /\ disk[i].meta # NoMeta
        /\ i \in Bare => RunFound(i, stamp) > created /\ disk[i].meta = NoMeta
    BY <1>1, RunsFound
  <2>2. card'[i] = IF jobs'[i] = NoRun THEN NoCard ELSE CardOf(jobs'[i], job'[jobs'[i]].status)
    BY <1>2 DEF card
  <2>3. jobs'[i] # NoRun =>
          job'[jobs'[i]].status = IF i \in unread THEN "failed" ELSE RecoveredStatus(disk[i])
    BY <1>1, JobsFound
  <2>4. CASE i \notin Found
    <3>1. disk[i].meta = NoMeta /\ i \notin Bare
      BY <2>1, <2>4 DEF NoDir, Bare
    <3>2. i \notin unread
      BY <1>11, <2>4
    <3> QED BY <1>7, <2>1, <2>2, <2>4, <3>1, <3>2, StoredCards
  <2>5. CASE i \in Found \ Bare
    <3>1. jobs'[i] = disk[i].meta.run /\ disk[i].meta # NoMeta /\ jobs'[i] # NoRun
      BY <1>7, <2>1, <2>5
    <3>2. Stored(disk[i]) = CardOf(disk[i].meta.run, RecoveredStatus(disk[i]))
      BY <1>7, <3>1, StoredCards
    <3>3. CASE i \notin unread
      BY <1>7, <2>2, <2>3, <2>5, <3>1, <3>2, <3>3
    <3>4. CASE i \in unread
      <4>1. card'[i] = CardOf(disk[i].meta.run, "failed")
        BY <2>2, <2>3, <3>1, <3>4
      <4>2. card[i] = CardOf(disk[i].meta.run, "ready")
        BY <1>7, <1>11, <3>2, <3>4
      <4> QED BY <2>5, <3>4, <4>1, <4>2 DEF CardOf, CardStatus, Unfinished, InFlight
    <3> QED BY <3>3, <3>4
  <2>6. CASE i \in Bare
    <3>1. jobs'[i] = stamp[i] /\ jobs'[i] # NoRun /\ RecoveredStatus(disk[i]) = "failed"
      BY <1>3, <1>4, <2>1, <2>6 DEF RunFound, RecoveredStatus, Bare, NoRun
    <3>2. CardOf(stamp[i], "failed") = [run |-> stamp[i], status |-> "failed"]
      BY DEF CardOf, CardStatus, Unfinished, InFlight
    <3>3. i \notin unread
      BY <1>11, <2>6
    <3> QED BY <2>2, <2>3, <2>6, <3>1, <3>2, <3>3
  <2> QED BY <2>4, <2>5, <2>6 DEF Bare
<1>13. card' =
         [i \in Ids |-> IF i \in Bare THEN [run |-> stamp[i], status |-> "failed"]
                        ELSE IF i \in unread THEN [card[i] EXCEPT !.status = "failed"]
                        ELSE card[i]]
  <2>1. card' = [i \in Ids |-> card'[i]]
    BY DEF card
  <2> QED BY <1>12, <2>1
<1>14. 1..created' = 1..created \union {stamp[i] : i \in Bare}
  BY <1>2, <1>3, <1>4
<1>15. unread \in SUBSET {i \in Ids : card[i].status = "ready"}
  BY <1>11
<1> QED BY <1>2, <1>5, <1>8, <1>9, <1>10, <1>13, <1>14, <1>15 DEF Library!Start

\* Shutdown and crash are the stop of the library.
LEMMA EndStops ==
  ASSUME TypeOK, TypeOK', Identity, Identity', Persistence, Persistence', OwnRecords,
         Exit \/ Crash \/ RecoverFails, phase = "serving"
  PROVE  Library!Stop
<1>1. phase' # "serving" /\ UNCHANGED <<created, removed>>
  BY DEF Exit, Crash, RecoverFails, Ends, PowerOff
<1>2. /\ card' = [i \in Ids |-> Stored(disk'[i])]
      /\ \A i \in Ids : card'[i] = Stored(disk'[i]) /\ disk'[i] \in Dir
                        /\ (disk'[i].meta.run = NoRun => disk'[i].meta = NoMeta)
  BY <1>1 DEF card, Stored, RecoveredStatus, TypeOK, StorageOK, Persistence, RemovedOK
<1>3. card' \in [Ids -> Library!Cards]
  BY <1>2, StoredCards
<1>4. ASSUME NEW i \in Ids
      PROVE  Library!Left(i, card'[i])
  <2>1. CASE disk'[i].meta = NoMeta
    BY <1>2, <2>1, StoredCards DEF Library!Left, Library!NoCard, NoCard
  <2>2. CASE disk'[i].meta # NoMeta
    <3>1. card'[i].run = disk'[i].meta.run /\ disk'[i].meta.run \in Runs
      BY <1>2, <2>2, StoredCards
    <3>2. disk'[i].meta = disk[i].meta \/ (jobs[i] # NoRun /\ disk'[i].meta.run = jobs[i])
      BY <2>2, EndedRecords
    <3>3. card[i] = IF jobs[i] = NoRun THEN NoCard ELSE CardOf(jobs[i], job[jobs[i]].status)
      BY ServingCards
    <3>4. CASE jobs[i] # NoRun
      <4>1. disk'[i].meta.run = jobs[i]
        BY <3>1, <3>2, <3>4 DEF OwnRecords, Runs, NoRun
      <4>2. card[i].run = jobs[i] /\ card[i] # NoCard
        BY <3>3, <3>4, CardsShown
      <4> QED BY <3>1, <4>1, <4>2 DEF Library!Left, Library!Has, Library!NoCard, NoCard
    <3>5. CASE jobs[i] = NoRun
      <4>1. card[i] = NoCard
        BY <3>3, <3>5
      <4>2. disk'[i].meta.run <= created' /\ disk'[i].meta.run \notin removed'
        BY DEF Identity, RecordsOK, Persistence, RemovedOK
      <4>3. disk'[i].meta.run \in (1..created) \ removed
        BY <1>1, <3>1, <4>2 DEF Runs, TypeOK, RegistryOK, MaybeRun
      <4> QED BY <3>1, <4>1, <4>3 DEF Library!Left, Library!Has, Library!NoCard, NoCard
    <3> QED BY <3>4, <3>5
  <2> QED BY <2>1, <2>2
<1>5. ASSUME NEW i \in Ids, NEW j \in Ids, card'[i].run = card'[j].run
      PROVE  i = j \/ Library!NoCard \in {card'[i], card'[j]}
  <2>1. disk'[i].meta.run = disk'[j].meta.run
    BY <1>2, <1>5, StoredCards
  <2>2. i = j \/ disk'[i].meta.run = NoRun
    BY <2>1 DEF Identity, RecordsOK
  <2> QED BY <1>2, <2>2, StoredCards DEF Library!NoCard, NoCard
<1> QED BY <1>1, <1>3, <1>4, <1>5 DEF Library!Stop

\* The end of a process that does not serve yet changes no directory.
LEMMA RestingEnd ==
  ASSUME TypeOK, TypeOK', Identity, Ownership, Scheduling, Persistence, Exit \/ Crash \/ RecoverFails,
         phase # "serving"
  PROVE  UNCHANGED Library!vars
<1>1. /\ UNCHANGED <<created, removed>> /\ phase' # "serving"
  BY DEF Exit, Crash, RecoverFails, Ends, PowerOff
<1>2. UNCHANGED disk
  <2>1. ASSUME NEW i \in Ids
        PROVE  Torn(i) = {disk[i]}
    <3>1. \A p \in Procs : pc[p] # "remove"
      BY Asleep DEF HoldLabels
    <3>2. \A r \in Runs : snap[r] = NoMeta
      <4>1. \A r \in Runs : saveMu[r] = free
        BY Asleep DEF AllUnlocked
      <4> QED BY <4>1, HolderNames DEF Persistence, LocksOK, InSave
    <3> QED BY <3>1, <3>2 DEF Torn, HalfRemoved, Removing, HalfSaved, Saving, HalfSubmitted,
               Submitting
  <2>2. CASE Ends
    <3>1. disk' \in [Ids -> Dir] /\ \A i \in Ids : disk'[i] = disk[i]
      BY <2>1, <2>2 DEF Ends, Residues, TypeOK, StorageOK
    <3> QED BY <3>1 DEF TypeOK, StorageOK
  <2> QED BY <2>2 DEF Exit, Crash, RecoverFails
<1>3. card' = card
  BY <1>1, <1>2 DEF card, Stored, RecoveredStatus
<1> QED BY <1>1, <1>3 DEF Library!vars

\* The end of a removal takes the card away.
LEMMA UnregisterRemoves ==
  ASSUME TypeOK, TypeOK', Identity, Persistence, NEW p \in Workers \union Clients, Unregister(p),
         phase = "serving", UNCHANGED <<phase, created>>
  PROVE  Library!Next
<1> DEFINE r == own[p]
           i == job[r].id
<1>1. p \in Procs /\ pc[p] \in HoldLabels
  BY Kinds DEF Unregister, HoldLabels
<1>2. r \in Runs /\ r \in Registry /\ i \in Ids /\ jobs[i] = r /\ r # NoRun
  BY <1>1, Holder DEF Persistence, Runs, NoRun
<1>3. jobs' = [jobs EXCEPT ![i] = NoRun] /\ removed' = removed \union {r} /\ job' = job
  BY <1>2 DEF Unregister, Current
<1>4. /\ \A j \in Ids : card[j] = IF jobs[j] = NoRun THEN NoCard
                                  ELSE CardOf(jobs[j], job[jobs[j]].status)
      /\ card' = [j \in Ids |-> IF jobs'[j] = NoRun THEN NoCard
                                ELSE CardOf(jobs'[j], job'[jobs'[j]].status)]
      /\ card = [j \in Ids |-> card[j]]
  BY DEF card
<1>5. jobs'[i] = NoRun /\ \A j \in Ids \ {i} : jobs'[j] = jobs[j]
  BY <1>2, <1>3 DEF TypeOK, RegistryOK
<1>6. card' = [card EXCEPT ![i] = NoCard]
  BY <1>2, <1>3, <1>4, <1>5
<1>7. card[i].run = r /\ card[i] # NoCard
  BY <1>2, <1>4, CardsShown
<1>8. Library!Remove(i)
  BY <1>3, <1>6, <1>7 DEF Library!Remove, Library!Has, Library!NoCard, NoCard
<1> QED BY <1>2, <1>8 DEF Library!Next

\* Close fails the cards whose jobs were interrupted.
LEMMA ConvertInterrupts ==
  ASSUME TypeOK, TypeOK', Identity, ConvertInterrupted, phase = "serving"
  PROVE  Library!Next
<1> DEFINE S == {i \in Ids : jobs[i] # NoRun /\ jobs[i] \in Interrupted}
<1>1. /\ UNCHANGED <<phase, jobs, created, removed>>
      /\ \A r \in Runs : job'[r] = IF r \in Interrupted THEN [job[r] EXCEPT !.status = "failed"]
                                   ELSE job[r]
  BY DEF ConvertInterrupted, lifeVars
<1>2. /\ \A j \in Ids : card[j] = IF jobs[j] = NoRun THEN NoCard
                                  ELSE CardOf(jobs[j], job[jobs[j]].status)
      /\ card' = [j \in Ids |-> IF jobs[j] = NoRun THEN NoCard
                                ELSE CardOf(jobs[j], job'[jobs[j]].status)]
  BY <1>1 DEF card
<1>3. ASSUME NEW i \in S
      PROVE  /\ card[i] = CardOf(jobs[i], job[jobs[i]].status) /\ card[i] # NoCard
             /\ card[i].status = "unfinished"
             /\ [card[i] EXCEPT !.status = "failed"] = CardOf(jobs[i], job'[jobs[i]].status)
  <2>1. jobs[i] \in Runs /\ job[jobs[i]] \in Job /\ job[jobs[i]].status \in InFlight
    BY <1>3, CardsShown DEF Interrupted, TypeOK, RegistryOK
  <2>2. job'[jobs[i]].status = "failed"
    BY <1>1, <1>3, <2>1 DEF Job
  <2>3. card[i] = CardOf(jobs[i], job[jobs[i]].status) /\ card[i] # NoCard
    BY <1>2, <1>3, <2>1, CardsShown
  <2>4. CardStatus(job[jobs[i]].status) = "unfinished" /\ CardStatus("failed") = "failed"
    BY <2>1 DEF CardStatus, Unfinished, InFlight
  <2> QED BY <2>2, <2>3, <2>4 DEF CardOf
<1>4. \A i \in Ids \ S : jobs[i] # NoRun => job'[jobs[i]] = job[jobs[i]]
  BY <1>1, CardsShown
<1>5. card' = [i \in Ids |-> IF i \in S THEN [card[i] EXCEPT !.status = "failed"] ELSE card[i]]
  BY <1>2, <1>3, <1>4
<1>6. Library!Interrupt(S)
  BY <1>1, <1>3, <1>5 DEF Library!Interrupt, Library!Has, Library!NoCard, NoCard
<1> QED BY <1>6 DEF Library!Next

\* A submission makes a card, or is refused and leaves a stamp.
LEMMA AdmitsAdds ==
  ASSUME TypeOK, TypeOK', Identity, Admits
  PROVE  Library!Next
<1> DEFINE n == created + 1
<1>1. PICK c \in Clients, i \in Ids : SubmitNew(c, i) \/ SubmitUnsaved(c, i)
  BY DEF Admits
<1>2. /\ phase = "serving" /\ UNCHANGED <<phase, removed>> /\ created' = n /\ jobs[i] = NoRun
      /\ job' = [job EXCEPT ![n] = NewJob(i)] /\ created \in Nat /\ n \in Runs
  BY <1>1, BoundsAssumption DEF SubmitNew, SubmitUnsaved, Asks, Admissible, lifeVars, TypeOK,
     RegistryOK, MaybeRun, Runs
<1>3. n \in Runs \ 1..created /\ 1..created' = (1..created) \union {n}
  BY <1>2
<1>4. /\ \A j \in Ids : card[j] = IF jobs[j] = NoRun THEN NoCard
                                  ELSE CardOf(jobs[j], job[jobs[j]].status)
      /\ card' = [j \in Ids |-> IF jobs'[j] = NoRun THEN NoCard
                                ELSE CardOf(jobs'[j], job'[jobs'[j]].status)]
      /\ card = [j \in Ids |-> card[j]]
  BY <1>2 DEF card
<1>5. \A j \in Ids : jobs[j] # NoRun => jobs[j] # n /\ job'[jobs[j]] = job[jobs[j]]
  <2>1. \A j \in Ids : jobs[j] # NoRun => jobs[j] \in Runs /\ jobs[j] <= created
    BY CardsShown DEF Identity, CardsOK
  <2> QED BY <1>2, <2>1 DEF TypeOK, RegistryOK, Runs
<1>6. CASE SubmitNew(c, i)
  <2>1. jobs'[i] = n /\ \A j \in Ids \ {i} : jobs'[j] = jobs[j]
    BY <1>6 DEF SubmitNew, TypeOK, RegistryOK
  <2>2. CardOf(n, job'[n].status) = [run |-> n, status |-> "unfinished"] /\ n # NoRun
    BY <1>2 DEF CardOf, CardStatus, NewJob, Unfinished, TypeOK, RegistryOK, Runs, NoRun
  <2>3. card' = [card EXCEPT ![i] = [run |-> n, status |-> "unfinished"]]
    BY <1>4, <1>5, <2>1, <2>2
  <2>4. card[i] = NoCard
    BY <1>2, <1>4
  <2>5. Library!Add(i)
    BY <1>2, <1>3, <2>3, <2>4 DEF Library!Add, Library!Has, Library!NoCard, NoCard
  <2> QED BY <2>5 DEF Library!Next
<1>7. CASE SubmitUnsaved(c, i)
  <2>1. jobs' = jobs
    BY <1>7 DEF SubmitUnsaved
  <2>2. card' = card
    BY <1>4, <1>5, <2>1
  <2>3. Library!Refuse
    BY <1>2, <1>3, <2>2 DEF Library!Refuse
  <2> QED BY <2>3 DEF Library!Next
<1> QED BY <1>1, <1>6, <1>7

\* Every step is one of the library, or changes nothing it shows.
LEMMA LibraryStep ==
  ASSUME TypeOK, TypeOK', Identity, Identity', Ownership, Scheduling, Persistence, Persistence',
         OwnRecords, Next
  PROVE  UNCHANGED Library!vars \/ Library!Next
<1>1. CASE Recover
  BY <1>1, RecoverStarts DEF Library!Next
<1>2. CASE Exit \/ Crash \/ RecoverFails
  BY <1>2, EndStops, RestingEnd DEF Library!Next
<1>3. CASE phase # "serving" /\ ~Recover /\ ~(Exit \/ Crash \/ RecoverFails)
  BY <1>3, RestingSteps
<1>4. CASE phase = "serving" /\ ~Recover /\ ~(Exit \/ Crash \/ RecoverFails)
  <2>1. CASE ConvertInterrupted
    BY <1>4, <2>1, ConvertInterrupts
  <2>2. CASE Admits
    BY <2>2, AdmitsAdds
  <2>3. ASSUME UNCHANGED <<jobs, created, removed>>, ~ConvertInterrupted
        PROVE  UNCHANGED Library!vars \/ Library!Next
    <3>1. phase' = "serving"
      BY <1>4, ServesOn
    <3>2. OneStatus
      BY <1>4, <2>3, StatusMoves
    <3>3. \A r \in Runs : job[r].status = "ready" => job'[r].status \in {"ready", "failed"}
      BY ReadyNext
    <3> QED BY <1>4, <2>3, <3>1, <3>2, <3>3, OneCardMoves
  <2>4. CASE Quiet
    BY <2>1, <2>3, <2>4 DEF Quiet
  <2>5. CASE TouchesDisk
    BY <1>4, <2>1, <2>3, <2>5, DirectoryTouched, UnregisterRemoves
  <2> QED BY <1>4, <2>2, <2>4, <2>5, QuietOrNot
<1> QED BY <1>1, <1>2, <1>3, <1>4

LEMMA LibraryInit ==
  ASSUME Init PROVE Library!Init /\ OwnRecords
<1>1. phase # "serving" /\ created = 0 /\ removed = {} /\ \A i \in Ids : disk[i] = NoDir
        /\ jobs[i] = NoRun
  BY DEF Init, NoJobs
<1>2. card = [i \in Ids |-> NoCard]
  BY <1>1 DEF card, Stored, NoDir
<1>3. 1..created = {}
  BY <1>1
<1> QED BY <1>1, <1>2, <1>3 DEF Library!Init, Library!NoCard, NoCard, OwnRecords

\* Manager implements Library, for any number of requests, workers, videos,
\* failures and restarts.
THEOREM ManagerImplementsLibrary == Spec => ImplementsLibrary
<1>1. TypeOK /\ TypeOK' /\ Identity /\ Ownership /\ Scheduling /\ Persistence /\ OwnRecords
        /\ [Next]_vars => OwnRecords'
  <2>1. OwnRecords /\ UNCHANGED vars => OwnRecords'
    BY DEF OwnRecords, vars, regVars
  <2> QED BY <2>1, OwnRecordsNext
<1>2. Spec => []OwnRecords
  BY <1>1, LibraryInit, TypeCorrect, IdentityCorrect, OwnershipCorrect, SchedulingCorrect,
     PersistenceCorrect, PTL DEF Spec
<1>3. TypeOK /\ TypeOK' /\ Identity /\ Identity' /\ Ownership /\ Scheduling /\ Persistence
        /\ Persistence' /\ OwnRecords /\ [Next]_vars
        => [UNCHANGED Library!vars \/ Library!Next]_(Library!vars)
  <2>1. UNCHANGED vars => UNCHANGED Library!vars
    BY DEF vars, lifeVars, regVars, Library!vars, card, Stored, RecoveredStatus
  <2> QED BY <2>1, LibraryStep
<1> QED BY <1>2, <1>3, LibraryInit, TypeCorrect, IdentityCorrect, OwnershipCorrect,
           SchedulingCorrect, PersistenceCorrect, PTL DEF Spec, ImplementsLibrary

=============================================================================
