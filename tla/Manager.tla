------------------------------ MODULE Manager ------------------------------
(***************************************************************************)
(* The job manager of the downloader (internal/app/manager.go): the job    *)
(* registry, its one download worker and its title workers, the callers of *)
(* Submit, Retry, Delete and List, the graceful Close, and the recovery of *)
(* the registry from the data directory after a restart.                   *)
(*                                                                         *)
(* Every section of code that runs under Manager.mu is one action.  The    *)
(* steps the code takes between two such sections - metadata writes under  *)
(* saveMu, the removal of a directory, the calls into yt-dlp and ffmpeg -  *)
(* are actions of their own, so every interleaving of them is explored.    *)
(* A job object (one jobState) is a number in Runs, in order of creation;  *)
(* the number stands for the CreatedAt stamp that tells two jobs of the    *)
(* same video apart, in memory and in metadata.json.  A context is named   *)
(* by the sequence number its job had when the context was made: submit,   *)
(* requeue and recovery always replace both together.                      *)
(***************************************************************************)
EXTENDS Naturals, FiniteSets, Functions

CONSTANTS
  Ids,            \* video IDs
  NoId,           \* the ID of a job object not created yet
  Clients,        \* concurrent HTTP requests
  Calls,          \* which of "Submit", "Retry", "Delete" and "List" they make
  TitleWorkers,   \* the title worker pool
  MaxUnfinished,  \* maxUnfinishedJobs
  TitleAttempts,  \* titleAttempts
  MaxRuns,        \* bound: job objects ever created
  MaxSeq,         \* bound: sequence numbers one process hands out
  MaxPending,     \* bound: unstarted `go saveCurrent` goroutines of one job
  MaxRestarts,    \* bound: shutdowns and crashes
  MaxFaults,      \* bound: failing storage operations
  MaxVanish       \* bound: published videos lost to someone else

dw     == "download worker"
closer == "closer"
async  == "async save"
free   == "unlocked"

Workers == {dw} \union TitleWorkers
Procs   == Workers \union Clients \union {closer}

ASSUME BoundsAssumption ==
  /\ MaxUnfinished \in Nat /\ TitleAttempts \in Nat \ {0} /\ MaxRuns \in Nat
  /\ MaxSeq \in Nat /\ MaxPending \in Nat /\ MaxRestarts \in Nat
  /\ MaxFaults \in Nat /\ MaxVanish \in Nat

ASSUME NamesAssumption ==
  /\ IsFiniteSet(Ids) /\ NoId \notin Ids
  /\ TitleWorkers \intersect Clients = {}
  /\ {dw, closer, async, free} \intersect (TitleWorkers \union Clients) = {}

NoRun    == 0
Runs     == 1..MaxRuns
MaybeRun == 0..MaxRuns
Seqs     == 0..MaxSeq

InFlight   == {"downloading", "processing", "verifying"}
Unfinished == {"queued"} \union InFlight
Statuses   == Unfinished \union {"ready", "failed"}

VARIABLES
  phase,      \* the process: "down", "booting" (before Recover), "serving"
  closing,    \* Manager.closing
  jobs,       \* Manager.jobs: the registered job object of each video
  job,        \* the persistent and queueing fields of each job object
  active,     \* job objects owned by the download worker
  fetching,   \* job objects owned by a title worker
  deleting,   \* job objects marked for removal
  cancelled,  \* job objects whose present context was cancelled by Delete
  lastSeq,    \* Manager.seq
  created,    \* the last job object created
  removed,    \* job objects whose removal was confirmed (history)
  pc,         \* where each goroutine is
  own,        \* the job object a goroutine works on
  held,       \* the context a worker captured under the mutex
  watch,      \* the context a title worker's retry delay selects on
  attempt,    \* runTitleFetch's attempt counter
  todo,       \* the job objects List, or Close, has still to visit
  saveMu,     \* the holder of each job object's saveMu
  snap,       \* the snapshot the holder of saveMu is writing
  pending,    \* `go saveCurrent` goroutines that have not locked saveMu yet
  disk,       \* the videos/<id> directories
  left        \* what remains of the bounds on restarts, faults and losses

lifeVars  == <<phase, closing>>
regVars   == <<jobs, job, lastSeq, created, removed>>
flagVars  == <<active, fetching, deleting, cancelled>>
fetchVars == <<held, watch, attempt>>
procVars  == <<pc, own, fetchVars, todo>>
saveVars  == <<saveMu, snap, pending>>
vars      == <<lifeVars, regVars, flagVars, procVars, saveVars, disk, left>>

\* Everything but pc; but pc and own; but pc and job.
pcFrame  == <<lifeVars, regVars, flagVars, own, fetchVars, todo, saveVars, disk, left>>
ownFrame == <<lifeVars, regVars, flagVars, fetchVars, todo, saveVars, disk, left>>
jobFrame == <<lifeVars, jobs, lastSeq, created, removed, flagVars, own, fetchVars, todo,
              saveVars, disk, left>>

-----------------------------------------------------------------------------
(* Data. *)

Meta   == [run : MaybeRun, status : Statuses, titled : BOOLEAN]
NoMeta == [run |-> NoRun, status |-> "failed", titled |-> FALSE]

Dir    == [dir : BOOLEAN, meta : Meta, video : BOOLEAN]
NoDir  == [dir |-> FALSE, meta |-> NoMeta, video |-> FALSE]

Job == [id : Ids \union {NoId}, status : Statuses, titled : BOOLEAN,
        seq : Seqs, tries : 0..TitleAttempts]
Uncreated == [id |-> NoId, status |-> "failed", titled |-> FALSE,
              seq |-> 0, tries |-> 0]

\* What saveCurrent snapshots, and the directory once it is written.
MetaOf(r) == [run |-> r, status |-> job[r].status, titled |-> job[r].titled]
Written(d, m) == [d EXCEPT !.dir = TRUE, !.meta = m]

\* What Save can leave when it reports an error: nothing, the directory
\* alone, or, when only the final directory sync fails, the whole record.
FailedSaves(d, m) == {d, [d EXCEPT !.dir = TRUE], Written(d, m)}

\* What RemoveAll can leave when it stops half way.
PartialRemovals(d) ==
  {NoDir} \union [dir : {d.dir}, meta : {d.meta, NoMeta}, video : {d.video, FALSE}]

-----------------------------------------------------------------------------
(* The registry. *)

Registry == {jobs[i] : i \in Ids} \ {NoRun}

\* current, ok := m.jobs[js.ID]; ok && current == js
Current(r) == r \in Registry

IsUnfinished(r) == job[r].status \in Unfinished

UnfinishedCount == Cardinality({r \in Registry \ deleting : IsUnfinished(r)})

\* Seeded fault: the limit is off by one.
FullLate == UnfinishedCount > MaxUnfinished
Full == UnfinishedCount >= MaxUnfinished

\* A context is done once the manager closes, once a requeue replaced it, or
\* once Delete cancelled it.
Done(r, c) == closing \/ c # job[r].seq \/ r \in cancelled

Queued == {r \in Registry : job[r].status = "queued"
                            /\ r \notin deleting /\ r \notin active}

Untitled == {r \in Registry : ~job[r].titled /\ r \notin fetching
                              /\ r \notin deleting
                              /\ job[r].tries < TitleAttempts
                              /\ IsUnfinished(r)}

\* The pick functions take the candidate with the lowest sequence number.
First(S, r) == r \in S /\ \A q \in S : job[r].seq <= job[q].seq

pickQueued(r) == First(Queued, r)
pickTitle(r)  == First(Untitled, r)

\* cond.Broadcast
\* Seeded fault: the broadcast is forgotten.
NobodyWoken == pc
Woken == [p \in Procs |-> IF pc[p] = "waiting" THEN "idle" ELSE pc[p]]

\* A goroutine moves on, with or without waking the sleeping workers.
Goto(p, label)     == pc' = [pc EXCEPT ![p] = label]
\* Seeded fault: the worker pool is not signalled.
SilentGoto(p, label) == pc' = [pc EXCEPT ![p] = label]
WakeGoto(p, label) == pc' = [Woken EXCEPT ![p] = label]

\* go m.saveCurrent(js)
SpawnSave(r) == /\ pending[r] < MaxPending
                /\ pending' = [pending EXCEPT ![r] = @ + 1]

Fault == /\ left.faults > 0
         /\ left' = [left EXCEPT !.faults = @ - 1]

-----------------------------------------------------------------------------
(* Requests.  They are served until the process exits, also after Close.   *)

Asks(c, i) == /\ phase = "serving"
              /\ \/ pc[c] = "idle"
                 \/ pc[c] = "resubmit" /\ job[own[c]].id = i

Unowned(c) == own' = [own EXCEPT ![c] = NoRun]

\* Seeded faults: the requeue is not persisted; it keeps the old context.
requeueUnsaved(r) ==
  /\ ~Full /\ lastSeq < MaxSeq
  /\ lastSeq' = lastSeq + 1
  /\ job' = [job EXCEPT ![r].status = "queued", ![r].seq = lastSeq + 1]
  /\ cancelled' = cancelled \ {r}
  /\ UNCHANGED pending
requeueOldContext(r) ==
  /\ ~Full /\ lastSeq < MaxSeq
  /\ lastSeq' = lastSeq + 1
  /\ job' = [job EXCEPT ![r].status = "queued", ![r].seq = lastSeq + 1]
  /\ UNCHANGED cancelled
  /\ SpawnSave(r)

requeueLocked(r) ==
  /\ ~Full
  /\ lastSeq < MaxSeq
  /\ lastSeq' = lastSeq + 1
  /\ job' = [job EXCEPT ![r].status = "queued", ![r].seq = lastSeq + 1]
  /\ cancelled' = cancelled \ {r}
  /\ SpawnSave(r)

\* A removal is in flight: Submit and Delete wait for its outcome.
BeingDeleted(i) == jobs[i] \in deleting
\* Seeded fault: the status is not looked at.
RequeueAny(i)   == jobs[i] # NoRun /\ ~BeingDeleted(i)
Requeueable(i)  == jobs[i] # NoRun /\ ~BeingDeleted(i) /\ job[jobs[i]].status = "failed"

\* Submit answers without a change: closed, already on the list, or full.
SubmitAnswered(c, i) ==
  /\ Asks(c, i)
  /\ \/ closing
     \/ jobs[i] # NoRun /\ ~BeingDeleted(i) /\ job[jobs[i]].status # "failed"
     \/ (jobs[i] = NoRun \/ Requeueable(i)) /\ Full
  /\ Goto(c, "idle")
  /\ Unowned(c)
  /\ UNCHANGED ownFrame

SubmitWaits(c, i) ==
  /\ Asks(c, i)
  /\ ~closing
  /\ BeingDeleted(i)
  /\ Goto(c, "awaitSubmit")
  /\ own' = [own EXCEPT ![c] = jobs[i]]
  /\ UNCHANGED ownFrame

SubmitRequeues(c, i) ==
  /\ Asks(c, i)
  /\ ~closing
  /\ Requeueable(i)
  /\ requeueLocked(jobs[i])
  /\ WakeGoto(c, "idle")
  /\ Unowned(c)
  /\ UNCHANGED <<lifeVars, jobs, created, removed, active, fetching, deleting,
                 fetchVars, todo, saveMu, snap, disk, left>>

\* The first save of a new job happens under the mutex.
Admissible(i) == ~closing /\ jobs[i] = NoRun /\ ~Full
                 /\ lastSeq < MaxSeq /\ created < MaxRuns

NewJob(i) == [id |-> i, status |-> "queued", titled |-> FALSE,
              seq |-> lastSeq + 1, tries |-> 0]
NewMeta   == [run |-> created + 1, status |-> "queued", titled |-> FALSE]
\* Seeded fault: the job is admitted without a save.
UnsavedDir(d) == d
NewDir(d) == Written(d, NewMeta)

SubmitNew(c, i) ==
  /\ Asks(c, i)
  /\ Admissible(i)
  /\ created' = created + 1
  /\ lastSeq' = lastSeq + 1
  /\ job' = [job EXCEPT ![created + 1] = NewJob(i)]
  /\ jobs' = [jobs EXCEPT ![i] = created + 1]
  /\ disk' = [disk EXCEPT ![i] = NewDir(@)]
  /\ WakeGoto(c, "idle")
  /\ Unowned(c)
  /\ UNCHANGED <<lifeVars, removed, flagVars, fetchVars, todo, saveVars, left>>

\* A failed save refuses the job; what it left on disk stays there.
SubmitUnsaved(c, i) ==
  /\ Asks(c, i)
  /\ Admissible(i)
  /\ Fault
  /\ created' = created + 1
  /\ lastSeq' = lastSeq + 1
  /\ job' = [job EXCEPT ![created + 1] = NewJob(i)]
  /\ \E d \in FailedSaves(disk[i], NewMeta) : disk' = [disk EXCEPT ![i] = d]
  /\ Goto(c, "idle")
  /\ Unowned(c)
  /\ UNCHANGED <<lifeVars, jobs, removed, flagVars, fetchVars, todo, saveVars>>

\* Retry's refusals change nothing.
Retry(c, i) ==
  /\ Asks(c, i) /\ pc[c] = "idle"
  /\ ~closing
  /\ Requeueable(i)
  /\ requeueLocked(jobs[i])
  /\ WakeGoto(c, "idle")
  /\ UNCHANGED <<lifeVars, jobs, created, removed, active, fetching, deleting,
                 fetchVars, own, todo, saveMu, snap, disk, left>>

\* Seeded fault: title fetches are not waited for.
RunningDownload(r) == r \in active
Running(r) == r \in active \/ r \in fetching

Delete(c, i) ==
  LET r == jobs[i] IN
  /\ Asks(c, i) /\ pc[c] = "idle"
  /\ r # NoRun
  /\ own' = [own EXCEPT ![c] = r]
  /\ deleting' = deleting \union {r}
  /\ cancelled' = cancelled \union {r}
  /\ Goto(c, IF r \in deleting \/ Running(r) THEN "awaitDelete" ELSE "finalize")
  /\ UNCHANGED <<lifeVars, regVars, active, fetching, fetchVars, todo, saveVars,
                 disk, left>>

\* deleteWait runs out: Submit answers a conflict, Delete an error.
WaitTimesOut(c) ==
  /\ phase = "serving"
  /\ pc[c] \in {"awaitSubmit", "awaitDelete"}
  /\ Goto(c, "idle")
  /\ Unowned(c)
  /\ UNCHANGED ownFrame

\* List, first section.  With no ready job it changes nothing.
List(c) ==
  LET ready == {r \in Registry : job[r].status = "ready"} IN
  /\ "List" \in Calls
  /\ phase = "serving" /\ pc[c] = "idle"
  /\ ready # {}
  /\ todo' = [todo EXCEPT ![c] = ready]
  /\ Goto(c, "listing")
  /\ UNCHANGED <<lifeVars, regVars, flagVars, fetchVars, own, saveVars, disk, left>>

ListNext(c, rest) == IF rest = {} THEN "idle" ELSE "listing"

StatFinds(c, r) ==
  /\ phase = "serving" /\ pc[c] = "listing"
  /\ r \in todo[c]
  /\ disk[job[r].id].video
  /\ todo' = [todo EXCEPT ![c] = @ \ {r}]
  /\ Goto(c, ListNext(c, todo[c] \ {r}))
  /\ UNCHANGED <<lifeVars, regVars, flagVars, fetchVars, own, saveVars, disk, left>>

StatMisses(c, r) ==
  /\ phase = "serving" /\ pc[c] = "listing"
  /\ r \in todo[c]
  /\ IF disk[job[r].id].video THEN Fault ELSE UNCHANGED left
  /\ todo' = [todo EXCEPT ![c] = @ \ {r}]
  /\ own' = [own EXCEPT ![c] = r]
  /\ Goto(c, "downgrade")
  /\ UNCHANGED <<lifeVars, regVars, flagVars, fetchVars, saveVars, disk>>

\* The section after a failed stat: the job must still be registered and
\* not marked; its status is not looked at again.
ListDowngrades(r) == Current(r) /\ r \notin deleting

Downgrade(c) ==
  LET r == own[c] IN
  /\ phase = "serving" /\ pc[c] = "downgrade"
  /\ IF ListDowngrades(r)
     THEN /\ job' = [job EXCEPT ![r].status = "failed"]
          /\ SpawnSave(r)
     ELSE UNCHANGED <<job, pending>>
  /\ Goto(c, ListNext(c, todo[c]))
  /\ Unowned(c)
  /\ UNCHANGED <<lifeVars, jobs, lastSeq, created, removed, flagVars, fetchVars,
                 todo, saveMu, snap, disk, left>>

-----------------------------------------------------------------------------
(* saveCurrent, called by a goroutine (labels "saveStart" and "save") or    *)
(* spawned with `go` (counted in pending).  A goroutine continues when its *)
(* save returns; only the failures reported with "save" are looked at.     *)

Alive == phase # "down"

\* A goroutine moves on, and nothing else changes.
Moves(p, from, to) == Alive /\ pc[p] \in from /\ Goto(p, to) /\ UNCHANGED pcFrame

\* Seeded fault: saveCurrent saves whatever became of the job.
SaveAlways(r) == TRUE
Saveable(r) == Current(r) /\ r \notin deleting

\* Where a goroutine goes when its save returns without, or with, an error.
Saved(p) == CASE pc[p] \in {"saveStart", "writeStart"} -> "prepare"
              [] p = closer -> "saving"
              [] OTHER -> "release"
Unsaved(p) == IF pc[p] = "write" /\ p # closer THEN "mark" ELSE Saved(p)

Lock(r, holder) == /\ saveMu[r] = free
                   /\ saveMu' = [saveMu EXCEPT ![r] = holder]
Unlock(r) == saveMu' = [saveMu EXCEPT ![r] = free]

Snapshot(r) == snap' = [snap EXCEPT ![r] = MetaOf(r)]
Forget(r)   == snap' = [snap EXCEPT ![r] = NoMeta]

BeginSave(p) ==
  LET r == own[p] IN
  /\ Alive /\ pc[p] \in {"saveStart", "save"}
  /\ Saveable(r)
  /\ Lock(r, p)
  /\ Snapshot(r)
  /\ Goto(p, IF pc[p] = "save" THEN "write" ELSE "writeStart")
  /\ UNCHANGED <<lifeVars, regVars, flagVars, own, fetchVars, todo, pending, disk, left>>

SkipSave(p) ==
  /\ Moves(p, {"saveStart", "save"}, Saved(p))
  /\ saveMu[own[p]] = free /\ ~Saveable(own[p])

\* The store reports the snapshot written, or reports an error.
Stores(r) == /\ disk' = [disk EXCEPT ![job[r].id] = Written(@, snap[r])]
             /\ UNCHANGED left
FailsToStore(r) == /\ Fault
                   /\ \E d \in FailedSaves(disk[job[r].id], snap[r]) :
                        disk' = [disk EXCEPT ![job[r].id] = d]

EndSave(p) ==
  LET r == own[p] IN
  /\ Alive /\ pc[p] \in {"writeStart", "write"}
  /\ \/ Stores(r) /\ Goto(p, Saved(p))
     \/ FailsToStore(r) /\ Goto(p, Unsaved(p))
  /\ Unlock(r) /\ Forget(r)
  /\ UNCHANGED <<lifeVars, regVars, flagVars, own, fetchVars, todo, pending>>

BeginAsyncSave(r) ==
  /\ Alive /\ pending[r] > 0
  /\ pending' = [pending EXCEPT ![r] = @ - 1]
  /\ saveMu[r] = free
  /\ IF Saveable(r) THEN Lock(r, async) /\ Snapshot(r)
                    ELSE UNCHANGED <<saveMu, snap>>
  /\ UNCHANGED <<lifeVars, regVars, flagVars, procVars, disk, left>>

EndAsyncSave(r) ==
  /\ Alive /\ saveMu[r] = async
  /\ Stores(r) \/ FailsToStore(r)
  /\ Unlock(r) /\ Forget(r)
  /\ UNCHANGED <<lifeVars, regVars, flagVars, procVars, pending>>

\* markUnpersistable: only memory changes, the store being broken.
Mark(w) ==
  LET r == own[w] IN
  /\ Alive /\ pc[w] = "mark"
  /\ job' = IF Saveable(r) THEN [job EXCEPT ![r].status = "failed"] ELSE job
  /\ Goto(w, "release")
  /\ UNCHANGED jobFrame

-----------------------------------------------------------------------------
(* Workers: cond.Wait, leaving the loop, and the download worker.          *)

Candidates(w) == IF w = dw THEN Queued ELSE Untitled

Sleep(w) ==
  /\ ~closing /\ Candidates(w) = {}
  /\ Moves(w, {"idle"}, "waiting")

ExitWorker(w) == closing /\ Moves(w, {"idle"}, "exited")

PickDownload(r) ==
  /\ Alive /\ pc[dw] = "idle"
  /\ ~closing
  /\ pickQueued(r)
  /\ active' = active \union {r}
  /\ own' = [own EXCEPT ![dw] = r]
  /\ Goto(dw, "picked")
  /\ UNCHANGED <<lifeVars, regVars, fetching, deleting, cancelled, fetchVars, todo,
                 saveVars, disk, left>>

\* runDownload, first section: whatever became of the job since the pick, it
\* is downloading now, under the context it has now.
StartDownload ==
  LET r == own[dw] IN
  /\ Alive /\ pc[dw] = "picked"
  /\ job' = [job EXCEPT ![r].status = "downloading"]
  /\ held' = [held EXCEPT ![dw] = job[r].seq]
  /\ Goto(dw, "saveStart")
  /\ UNCHANGED <<lifeVars, jobs, lastSeq, created, removed, flagVars, own, watch,
                 attempt, todo, saveVars, disk, left>>

\* VideoDownloader.Download up to its first report: os.MkdirAll(work)
MakeWork ==
  LET i == job[own[dw]].id IN
  /\ Alive /\ pc[dw] = "prepare"
  /\ disk' = [disk EXCEPT ![i].dir = TRUE]
  /\ Goto(dw, "prepared")
  /\ UNCHANGED <<lifeVars, regVars, flagVars, own, fetchVars, todo, saveVars, left>>

\* The stages the pipeline may report next, and the status of each.
NextStages(label) == CASE label = "prepared"    -> {"downloading"}
                       [] label = "downloading" -> {"downloading", "processing"}
                       [] label = "processing"  -> {"processing", "verifying"}
                       [] OTHER                 -> {}

\* report overwrites whatever status the job was given meanwhile.
Report(stage) ==
  LET r == own[dw] IN
  /\ Alive /\ stage \in NextStages(pc[dw])
  /\ IF Current(r) /\ job[r].status # stage
     THEN /\ job' = [job EXCEPT ![r].status = stage]
          /\ SpawnSave(r)
     ELSE UNCHANGED <<job, pending>>
  /\ Goto(dw, stage)
  /\ UNCHANGED <<lifeVars, jobs, lastSeq, created, removed, flagVars, own, fetchVars,
                 todo, saveMu, snap, disk, left>>

\* The last look at the context, before publish.
CheckContext == Moves(dw, {"verifying"}, "publish") /\ ~Done(own[dw], held[dw])

\* publish renames the MP4 into the directory, which must still be there.
Publish ==
  LET i == job[own[dw]].id IN
  /\ Alive /\ pc[dw] = "publish"
  /\ disk[i].dir
  /\ disk' = [disk EXCEPT ![i].video = TRUE]
  /\ Goto(dw, "succeeded")
  /\ UNCHANGED <<lifeVars, regVars, flagVars, own, fetchVars, todo, saveVars, left>>

\* When closing the output fails, publish returns the nil statErr before it
\* renames anything, and Download takes that for a success.
PublishNothing ==
  /\ Alive /\ pc[dw] = "publish"
  /\ Fault
  /\ Goto(dw, "succeeded")
  /\ UNCHANGED <<lifeVars, regVars, flagVars, own, fetchVars, todo, saveVars, disk>>

PipelineLabels == {"prepare", "prepared", "downloading", "processing", "verifying"}

\* The pipeline may fail anywhere: the tools, the network, the disk.
PipelineFails    == Moves(dw, PipelineLabels \union {"publish"}, "errored")
PipelineCanceled == Moves(dw, PipelineLabels, "canceled") /\ Done(own[dw], held[dw])

\* Results are dropped for a job that is gone or going, and the cancellation
\* Close caused is left for Close to record.
ResultDropped(r) == \/ ~Current(r) \/ r \in deleting
                    \/ pc[dw] = "canceled" /\ closing

\* runDownload, last section.  The result may carry a title.
EndDownload ==
  LET r == own[dw]
      status == IF pc[dw] = "succeeded" THEN "ready" ELSE "failed"
  IN
  /\ Alive /\ pc[dw] \in {"succeeded", "errored", "canceled"}
  /\ IF ResultDropped(r)
     THEN Goto(dw, "release") /\ UNCHANGED job
     ELSE /\ \E known \in BOOLEAN :
               job' = [job EXCEPT ![r].status = status,
                                  ![r].titled = @ \/ known]
          /\ Goto(dw, "save")
  /\ UNCHANGED jobFrame

\* The worker that releases the job last completes the deletion.
\* Seeded faults: the title fetch is ignored; nobody finishes.
DownloadFinishesAlways(r) == r \in deleting
DownloadFinishesNever(r) == FALSE
DownloadFinishes(r) == r \in deleting /\ r \notin fetching
FetchFinishes(r)    == r \in deleting /\ r \notin active

ReleaseDownload ==
  LET r == own[dw] IN
  /\ Alive /\ pc[dw] = "release"
  /\ active' = active \ {r}
  /\ held' = [held EXCEPT ![dw] = 0]
  /\ IF DownloadFinishes(r)
     THEN WakeGoto(dw, "finalize") /\ UNCHANGED own
     ELSE WakeGoto(dw, "idle") /\ Unowned(dw)
  /\ UNCHANGED <<lifeVars, regVars, fetching, deleting, cancelled, watch, attempt,
                 todo, saveVars, disk, left>>

-----------------------------------------------------------------------------
(* Title workers.                                                          *)

PickTitle(t, r) ==
  /\ Alive /\ pc[t] = "idle"
  /\ ~closing
  /\ pickTitle(r)
  /\ fetching' = fetching \union {r}
  /\ own' = [own EXCEPT ![t] = r]
  /\ Goto(t, "picked")
  /\ UNCHANGED <<lifeVars, regVars, active, deleting, cancelled, fetchVars, todo,
                 saveVars, disk, left>>

\* runTitleFetch, first section: the context is captured under the mutex.
StartFetch(t) ==
  /\ Alive /\ pc[t] = "picked"
  /\ held' = [held EXCEPT ![t] = job[own[t]].seq]
  /\ attempt' = [attempt EXCEPT ![t] = 1]
  /\ Goto(t, "fetch")
  /\ UNCHANGED <<lifeVars, regVars, flagVars, own, watch, todo, saveVars, disk, left>>

\* A fetch whose context is done fails; one that is not may also find the
\* metadata, or find that the video is not supported.
FetchReturns(t, label) ==
  /\ Moves(t, {"fetch"}, label)
  /\ label # "erred" => ~Done(own[t], held[t])

\* The title found may be empty: nothing checks it.
ApplyTitle(t) ==
  LET r == own[t] IN
  /\ Alive /\ pc[t] = "fetched"
  /\ IF Saveable(r) /\ ~job[r].titled
     THEN /\ \E known \in BOOLEAN : job' = [job EXCEPT ![r].titled = known]
          /\ Goto(t, "save")
     ELSE Goto(t, "release") /\ UNCHANGED job
  /\ UNCHANGED jobFrame

\* A job the download worker has started is not failed any more.
Rejectable(r) == Saveable(r) /\ job[r].status = "queued"

ApplyRejection(t) ==
  LET r == own[t] IN
  /\ Alive /\ pc[t] = "rejected"
  /\ IF Rejectable(r)
     THEN job' = [job EXCEPT ![r].status = "failed"] /\ Goto(t, "save")
     ELSE Goto(t, "release") /\ UNCHANGED job
  /\ UNCHANGED jobFrame

\* js.ctx is read here without the mutex, while a requeue may be replacing
\* it: the read finds the present context or one that was present since the
\* worker captured its own, and those are all retired alike.
CtxReads(t) == {held[t], job[own[t]].seq}

\* Seeded fault: one attempt too many.
MayRetryOnce(t) == attempt[t] <= TitleAttempts

MayRetry(t) == attempt[t] < TitleAttempts

AfterError(t) ==
  pc[t] = "erred" /\ \E c \in CtxReads(t) :
    Moves(t, {"erred"}, IF Done(own[t], c) THEN "release"
                        ELSE IF MayRetry(t) THEN "pause" ELSE "giveUp")

\* Entering the select evaluates js.ctx.Done() once more.
Pause(t) ==
  /\ Alive /\ pc[t] = "pause"
  /\ \E c \in CtxReads(t) : watch' = [watch EXCEPT ![t] = c]
  /\ Goto(t, "backoff")
  /\ UNCHANGED <<lifeVars, regVars, flagVars, own, held, attempt, todo, saveVars, disk,
                 left>>

BackoffCancelled(t) == Moves(t, {"backoff"}, "release") /\ Done(own[t], watch[t])

BackoffElapses(t) ==
  /\ Alive /\ pc[t] = "backoff"
  /\ attempt' = [attempt EXCEPT ![t] = @ + 1]
  /\ watch' = [watch EXCEPT ![t] = 0]
  /\ Goto(t, "fetch")
  /\ UNCHANGED <<lifeVars, regVars, flagVars, own, held, todo, saveVars, disk, left>>

GiveUp(t) ==
  LET r == own[t] IN
  /\ Alive /\ pc[t] = "giveUp"
  /\ job' = IF Current(r) THEN [job EXCEPT ![r].tries = TitleAttempts] ELSE job
  /\ Goto(t, "release")
  /\ UNCHANGED jobFrame

ReleaseFetch(t) ==
  LET r == own[t] IN
  /\ Alive /\ pc[t] = "release"
  /\ fetching' = fetching \ {r}
  /\ held' = [held EXCEPT ![t] = 0]
  /\ watch' = [watch EXCEPT ![t] = 0]
  /\ attempt' = [attempt EXCEPT ![t] = 0]
  /\ IF FetchFinishes(r)
     THEN WakeGoto(t, "finalize") /\ UNCHANGED own
     ELSE WakeGoto(t, "idle") /\ Unowned(t)
  /\ UNCHANGED <<lifeVars, regVars, active, deleting, cancelled, todo, saveVars, disk,
                 left>>

-----------------------------------------------------------------------------
(* finalizeDeletion, run by a worker's epilogue or by Delete itself.  It   *)
(* keeps saveMu from its check to the end.                                 *)

Finalize(p) ==
  LET r == own[p] IN
  /\ Alive /\ pc[p] = "finalize"
  /\ saveMu[r] = free
  /\ IF Current(r) /\ r \in deleting
     THEN Lock(r, p) /\ Goto(p, "remove") /\ UNCHANGED own
     ELSE Goto(p, "idle") /\ Unowned(p) /\ UNCHANGED saveMu
  /\ UNCHANGED <<lifeVars, regVars, flagVars, fetchVars, todo, snap, pending, disk, left>>

RemoveFiles(p) ==
  /\ Alive /\ pc[p] = "remove"
  /\ disk' = [disk EXCEPT ![job[own[p]].id] = NoDir]
  /\ Goto(p, "unregister")
  /\ UNCHANGED <<lifeVars, regVars, flagVars, own, fetchVars, todo, saveVars, left>>

RemoveFails(p) ==
  LET i == job[own[p]].id IN
  /\ Alive /\ pc[p] = "remove"
  /\ Fault
  /\ \E d \in PartialRemovals(disk[i]) : disk' = [disk EXCEPT ![i] = d]
  /\ Goto(p, "stuck")
  /\ UNCHANGED <<lifeVars, regVars, flagVars, own, fetchVars, todo, saveVars>>

\* close(att.done): every waiter of the attempt goes on, Submit by trying
\* again, and the finalizer returns.
Waiting(q, r) == pc[q] \in {"awaitDelete", "awaitSubmit"} /\ own[q] = r

\* Seeded fault: the attempt is not closed.
AnswerNobody(p, r) ==
  /\ Goto(p, "idle")
  /\ Unowned(p)

AnswerWaiters(p, r) ==
  /\ pc' = [q \in Procs |-> IF q = p THEN "idle"
                            ELSE IF ~Waiting(q, r) THEN pc[q]
                            ELSE IF pc[q] = "awaitSubmit" THEN "resubmit" ELSE "idle"]
  /\ own' = [q \in Procs |-> IF q = p \/ (Waiting(q, r) /\ pc[q] = "awaitDelete")
                             THEN NoRun ELSE own[q]]

Unregister(p) ==
  LET r == own[p] IN
  /\ Alive /\ pc[p] = "unregister"
  /\ jobs' = IF Current(r) THEN [jobs EXCEPT ![job[r].id] = NoRun] ELSE jobs
  /\ removed' = removed \union {r}
  /\ Unlock(r)
  /\ AnswerWaiters(p, r)
  /\ UNCHANGED <<lifeVars, job, lastSeq, created, flagVars, fetchVars, todo, snap,
                 pending, disk, left>>

\* The card comes back, failed unless its work was over.
KeepCard(p) ==
  LET r == own[p] IN
  /\ Alive /\ pc[p] = "stuck"
  /\ deleting' = IF Current(r) THEN deleting \ {r} ELSE deleting
  /\ IF Current(r) /\ IsUnfinished(r)
     THEN job' = [job EXCEPT ![r].status = "failed"] /\ SpawnSave(r)
     ELSE UNCHANGED <<job, pending>>
  /\ Unlock(r)
  /\ AnswerWaiters(p, r)
  /\ UNCHANGED <<lifeVars, jobs, lastSeq, created, removed, active, fetching, cancelled,
                 fetchVars, todo, snap, disk, left>>

-----------------------------------------------------------------------------
(* Close, and the life of the process.                                     *)

Restart == /\ left.restarts > 0
           /\ left' = [left EXCEPT !.restarts = @ - 1]

Close ==
  /\ phase = "serving" /\ ~closing
  /\ Restart
  /\ closing' = TRUE
  /\ WakeGoto(closer, "draining")
  /\ UNCHANGED <<phase, regVars, flagVars, own, fetchVars, todo, saveVars, disk>>

\* Jobs the workers left half way become retryable.
\* Seeded fault: only the first of the three pipeline statuses is converted.
InterruptedDownloads == {r \in Registry \ deleting : job[r].status = "downloading"}
Interrupted == {r \in Registry \ deleting : job[r].status \in InFlight}

ConvertInterrupted ==
  /\ Alive /\ pc[closer] = "draining"
  /\ \A w \in Workers : pc[w] = "exited"
  /\ job' = [r \in Runs |-> IF r \in Interrupted THEN [job[r] EXCEPT !.status = "failed"]
                            ELSE job[r]]
  /\ todo' = [todo EXCEPT ![closer] = Interrupted]
  /\ Goto(closer, "saving")
  /\ UNCHANGED <<lifeVars, jobs, lastSeq, created, removed, flagVars, own, fetchVars,
                 saveVars, disk, left>>

CloseSaves(r) ==
  /\ Alive /\ pc[closer] = "saving"
  /\ r \in todo[closer]
  /\ todo' = [todo EXCEPT ![closer] = @ \ {r}]
  /\ own' = [own EXCEPT ![closer] = r]
  /\ Goto(closer, "save")
  /\ UNCHANGED <<lifeVars, regVars, flagVars, fetchVars, saveVars, disk, left>>

CloseReturns ==
  /\ Alive /\ pc[closer] = "saving"
  /\ todo[closer] = {}
  /\ Goto(closer, "closed")
  /\ Unowned(closer)
  /\ UNCHANGED ownFrame

\* The memory of a process that is not running.
NoJobs      == [i \in Ids |-> NoRun]
NoObjects   == [r \in Runs |-> Uncreated]
AllIdle     == [p \in Procs |-> "idle"]
AllUnowned  == [p \in Procs |-> NoRun]
NoContexts  == [w \in Workers |-> 0]
NoFetches   == [t \in TitleWorkers |-> 0]
NothingToDo == [p \in Clients \union {closer} |-> {}]
AllUnlocked == [r \in Runs |-> free]
NoSnapshots == [r \in Runs |-> NoMeta]
NonePending == [r \in Runs |-> 0]

Init ==
  /\ phase = "down" /\ closing = FALSE
  /\ jobs = NoJobs /\ job = NoObjects /\ lastSeq = 0
  /\ active = {} /\ fetching = {} /\ deleting = {} /\ cancelled = {}
  /\ pc = AllIdle /\ own = AllUnowned /\ todo = NothingToDo
  /\ held = NoContexts /\ watch = NoFetches /\ attempt = NoFetches
  /\ saveMu = AllUnlocked /\ snap = NoSnapshots /\ pending = NonePending
  /\ created = 0 /\ removed = {}
  /\ disk = [i \in Ids |-> NoDir]
  /\ left = [restarts |-> MaxRestarts, faults |-> MaxFaults, vanish |-> MaxVanish]

PowerOff ==
  /\ phase' = "down" /\ closing' = FALSE
  /\ jobs' = NoJobs /\ job' = NoObjects /\ lastSeq' = 0
  /\ active' = {} /\ fetching' = {} /\ deleting' = {} /\ cancelled' = {}
  /\ pc' = AllIdle /\ own' = AllUnowned /\ todo' = NothingToDo
  /\ held' = NoContexts /\ watch' = NoFetches /\ attempt' = NoFetches
  /\ saveMu' = AllUnlocked /\ snap' = NoSnapshots /\ pending' = NonePending
  /\ UNCHANGED <<created, removed>>

\* What the end of the process may leave of a directory: a removal half done,
\* a save half done, or the directory of a job whose first save was under way.
Saving(r, i)   == snap[r] # NoMeta /\ job[r].id = i
Removing(i)    == \E p \in Procs : pc[p] = "remove" /\ job[own[p]].id = i
Submitting(i)  == phase = "serving" /\ Admissible(i) /\ \E c \in Clients : pc[c] = "idle"

HalfRemoved(i)   == IF Removing(i) THEN PartialRemovals(disk[i]) ELSE {}
HalfSaved(i)     == UNION {FailedSaves(disk[i], snap[r]) : r \in {q \in Runs : Saving(q, i)}}
HalfSubmitted(i) == IF Submitting(i) THEN {[disk[i] EXCEPT !.dir = TRUE]} ELSE {}

Torn(i) == {disk[i]} \union HalfRemoved(i) \union HalfSaved(i) \union HalfSubmitted(i)

\* Every directory may be torn, but the mutex lets one first save run at a time.
Residues == {d \in [Ids -> UNION {Torn(i) : i \in Ids}] :
               /\ \A i \in Ids : d[i] \in Torn(i)
               /\ \A i, j \in Ids : /\ Submitting(i) /\ d[i] # disk[i]
                                   /\ Submitting(j) /\ d[j] # disk[j]
                                   => i = j}

Ends == Alive /\ PowerOff /\ disk' \in Residues

\* main returns once Close has and the HTTP server is shut down, or has waited
\* long enough: handlers and asynchronous saves may be half way.
Exit == Ends /\ pc[closer] = "closed" /\ UNCHANGED left

\* The process is killed or dies.  What the system has been told is still
\* there; a power loss, which may take it back, is in DiskStore and Files.
Crash == Ends /\ Restart

\* NewManager starts the workers; Recover follows.
Boot ==
  /\ phase = "down"
  /\ phase' = "booting"
  /\ UNCHANGED <<closing, regVars, flagVars, procVars, saveVars, disk, left>>

\* Seeded fault: recovery does not look for the file.
RecoveredUnchecked(d) == IF d.meta = NoMeta \/ d.meta.status \in InFlight
                         THEN "failed" ELSE d.meta.status

RecoveredStatus(d) ==
  IF \/ d.meta = NoMeta
     \/ d.meta.status \in InFlight
     \/ d.meta.status = "ready" /\ ~d.video
  THEN "failed" ELSE d.meta.status

\* Recover registers every directory Scan finds.  A directory without
\* metadata becomes a failed job with a new stamp.  The order of the scan is
\* the order of the names, which model values do not have: any order.
Found == {i \in Ids : disk[i].dir}
Bare  == {i \in Found : disk[i].meta = NoMeta}

\* The videos whose file is there but cannot be looked at: none, or one.
Unread == IF left.faults = 0 THEN {{}}
          ELSE {{}} \union {{i} : i \in {k \in Found : RecoveredStatus(disk[k]) = "ready"}}

RunFound(i, stamp) == IF i \in Bare THEN stamp[i] ELSE disk[i].meta.run
JobRecovered(i, rank, unread) ==
  [id |-> i, status |-> IF i \in unread THEN "failed" ELSE RecoveredStatus(disk[i]),
   titled |-> disk[i].meta.titled, seq |-> rank[i], tries |-> 0]

Registers(rank, stamp, unread) ==
  /\ jobs' = [i \in Ids |-> IF i \in Found THEN RunFound(i, stamp) ELSE NoRun]
  /\ job' = [r \in Runs |->
               IF \E i \in Found : RunFound(i, stamp) = r
               THEN JobRecovered(CHOOSE i \in Found : RunFound(i, stamp) = r, rank, unread)
               ELSE job[r]]

Recover ==
  /\ phase = "booting"
  /\ created + Cardinality(Bare) <= MaxRuns
  /\ Cardinality(Found) <= MaxSeq
  /\ \E rank \in Bijection(Found, 1..Cardinality(Found)),
        stamp \in Bijection(Bare, created + 1 .. created + Cardinality(Bare)),
        unread \in Unread :
          /\ Registers(rank, stamp, unread)
          /\ IF unread = {} THEN UNCHANGED left ELSE Fault
  /\ lastSeq' = Cardinality(Found)
  /\ created' = created + Cardinality(Bare)
  /\ phase' = "serving"
  /\ pc' = Woken
  /\ UNCHANGED <<closing, removed, flagVars, own, fetchVars, todo, saveVars, disk>>

\* Scan fails, and main gives up.
RecoverFails ==
  /\ phase = "booting"
  /\ Fault
  /\ PowerOff
  /\ UNCHANGED disk

\* Somebody else deletes, or truncates, a published video.
Vanish(i) ==
  /\ left.vanish > 0
  /\ disk[i].video
  /\ disk' = [disk EXCEPT ![i].video = FALSE]
  /\ left' = [left EXCEPT !.vanish = @ - 1]
  /\ UNCHANGED <<lifeVars, regVars, flagVars, procVars, saveVars>>

-----------------------------------------------------------------------------
\* The videos a kind of request is made for.
Asked(call) == IF call \in Calls THEN Ids ELSE {}

Requests(c) ==
  \/ \E i \in Asked("Submit") : \/ SubmitAnswered(c, i) \/ SubmitWaits(c, i)
                               \/ SubmitRequeues(c, i) \/ SubmitNew(c, i)
                               \/ SubmitUnsaved(c, i)
  \/ \E i \in Asked("Retry") : Retry(c, i)
  \/ \E i \in Asked("Delete") : Delete(c, i)
  \/ List(c)
  \/ \E r \in Runs : StatFinds(c, r) \/ StatMisses(c, r)
  \/ Downgrade(c)
  \/ WaitTimesOut(c)

Saves(p)     == BeginSave(p) \/ SkipSave(p) \/ EndSave(p)
AsyncSave(r) == BeginAsyncSave(r) \/ EndAsyncSave(r)
Removal(p)   == Finalize(p) \/ RemoveFiles(p) \/ RemoveFails(p)
                \/ Unregister(p) \/ KeepCard(p)

Pipeline == MakeWork \/ (\E stage \in InFlight : Report(stage)) \/ CheckContext
            \/ Publish \/ PublishNothing \/ PipelineFails \/ PipelineCanceled

Worker(w) == Sleep(w) \/ ExitWorker(w) \/ Saves(w) \/ Mark(w) \/ Removal(w)

DownloadWorker == Worker(dw) \/ (\E r \in Runs : PickDownload(r)) \/ StartDownload
                  \/ Pipeline \/ EndDownload \/ ReleaseDownload

TitleWorker(t) ==
  \/ Worker(t)
  \/ \E r \in Runs : PickTitle(t, r)
  \/ StartFetch(t)
  \/ \E label \in {"fetched", "rejected", "erred"} : FetchReturns(t, label)
  \/ ApplyTitle(t) \/ ApplyRejection(t) \/ AfterError(t) \/ Pause(t)
  \/ BackoffCancelled(t) \/ BackoffElapses(t) \/ GiveUp(t) \/ ReleaseFetch(t)

Closing == Close \/ ConvertInterrupted \/ (\E r \in Runs : CloseSaves(r))
           \/ CloseReturns \/ Saves(closer)

Process == Exit \/ Crash \/ Boot \/ Recover \/ RecoverFails
           \/ (\E i \in Ids : Vanish(i))

Next ==
  \/ \E c \in Clients : Requests(c) \/ Removal(c)
  \/ DownloadWorker
  \/ \E t \in TitleWorkers : TitleWorker(t)
  \/ \E r \in Runs : AsyncSave(r)
  \/ Closing
  \/ Process

Spec == Init /\ [][Next]_vars

=============================================================================
