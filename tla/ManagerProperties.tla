------------------------- MODULE ManagerProperties -------------------------
(***************************************************************************)
(* What the job manager promises: invariants, action properties, and       *)
(* liveness under the fairness its goroutines have.                        *)
(***************************************************************************)
EXTENDS Manager

Labels == {"idle", "waiting", "exited", "picked", "saveStart", "writeStart", "save",
           "write", "mark", "prepare", "prepared", "downloading", "processing",
           "verifying", "publish", "succeeded", "errored", "canceled", "release",
           "fetch", "fetched", "rejected", "erred", "pause", "backoff", "giveUp",
           "finalize", "remove", "unregister", "stuck", "awaitSubmit", "awaitDelete",
           "resubmit", "listing", "downgrade", "draining", "saving", "closed"}

\* Labels at which a goroutine has no job object in its hands.
FreeLabels == {"idle", "waiting", "exited", "listing", "draining", "saving", "closed"}

RegistryOK == /\ jobs \in [Ids -> MaybeRun]
              /\ job \in [Runs -> Job]
              /\ lastSeq \in Seqs /\ created \in MaybeRun
              /\ removed \in SUBSET Runs
FlagsOK    == /\ active \in SUBSET Runs /\ fetching \in SUBSET Runs
              /\ deleting \in SUBSET Runs /\ cancelled \in SUBSET Runs
ProcsOK    == /\ pc \in [Procs -> Labels]
              /\ own \in [Procs -> MaybeRun]
              /\ \A p \in Procs : pc[p] \notin FreeLabels => own[p] \in Runs
              /\ todo \in [Clients \union {closer} -> SUBSET Runs]
FetchesOK  == /\ held \in [Workers -> Seqs]
              /\ watch \in [TitleWorkers -> Seqs]
              /\ attempt \in [TitleWorkers -> 0..TitleAttempts]
SavesOK    == /\ saveMu \in [Runs -> Procs \union {async, free}]
              /\ snap \in [Runs -> Meta]
              /\ pending \in [Runs -> 0..MaxPending]
StorageOK  == /\ disk \in [Ids -> Dir]
              /\ left \in [restarts : 0..MaxRestarts, faults : 0..MaxFaults,
                           vanish : 0..MaxVanish]

\* Every variable holds a value of its kind; a goroutine at work on a job has
\* one in its hands; attempts and goroutines stay within their bounds.
TypeOK ==
  /\ phase \in {"down", "booting", "serving"} /\ closing \in BOOLEAN
  /\ RegistryOK /\ FlagsOK /\ ProcsOK /\ FetchesOK /\ SavesOK /\ StorageOK

-----------------------------------------------------------------------------
(* Deletion. *)

\* A job object a worker owns stays registered: neither a removal nor a
\* resubmit of the same video takes it away from under the download worker
\* or a title worker (the "last owner finishes" rule of both epilogues).
OwnedIsRegistered == active \union fetching \subseteq Registry

FinalizeLabels == {"finalize", "remove", "unregister", "stuck"}
Finalizers(r)  == {p \in Procs : pc[p] \in FinalizeLabels /\ own[p] = r}

\* A marked job has exactly one goroutine that will complete its removal: a
\* worker that still owns it, or else one goroutine in finalizeDeletion; an
\* unmarked one has none in there.  So no removal is run twice over the same
\* files or forgotten, whoever releases the job last.
OneFinalizer ==
  \A r \in Registry :
    IF r \in deleting /\ r \notin active \union fetching
    THEN \E p \in Procs : Finalizers(r) = {p}
    ELSE Finalizers(r) = {}

\* A request that waits for a removal waits for one still in flight, so that
\* closing the attempt will wake it (Submit's and Delete's <-att.done).
WaitersHaveAnAttempt ==
  \A c \in Clients : pc[c] \in {"awaitSubmit", "awaitDelete"} =>
                       own[c] \in Registry \intersect deleting

\* A job whose deletion was confirmed never comes back, in the registry or as
\* metadata a restart would read; and a video without a card has no file,
\* nor, unless the storage failed, any directory ("removal is never undone").
RemovedStaysRemoved ==
  /\ removed \intersect Registry = {}
  /\ \A i \in Ids :
       /\ disk[i].meta.run \notin removed
       /\ phase = "serving" /\ jobs[i] = NoRun =>
            ~disk[i].video /\ (left.faults = MaxFaults => disk[i] = NoDir)

-----------------------------------------------------------------------------
(* Persistence. *)

NoFaults == left.faults = MaxFaults

SaveLabels == {"saveStart", "writeStart", "save", "write"}

\* Nobody is about to save, or to change, this job.
Settled(r) ==
  /\ r \notin active \union deleting
  /\ pending[r] = 0 /\ saveMu[r] = free
  /\ \A p \in Procs : own[p] = r => pc[p] \notin SaveLabels
  /\ closing => pc[closer] = "closed"

\* Once its saves are over, what a restart would make of a job's directory is
\* the job in memory, however many goroutines saved it in whatever order
\* (saveCurrent: "can never persist a stale state over a newer one").
SettledMatchesDisk ==
  NoFaults /\ phase = "serving" =>
    \A i \in Ids : LET r == jobs[i] IN
      r # NoRun /\ Settled(r) =>
        /\ disk[i].meta.titled = job[r].titled
        /\ \/ job[r].status = RecoveredStatus(disk[i])
           \/ job[r].status = "ready" /\ ~disk[i].video

\* As long as the storage works, every card not being removed is on disk under
\* its own stamp, from before its submission is answered, so a restart at any
\* moment finds it again; and it says ready only while its file is there,
\* unless somebody else removes files.
CardsAreOnDisk ==
  NoFaults =>
    \A i \in Ids : LET r == jobs[i] IN
      r # NoRun /\ r \notin deleting =>
        /\ phase = "serving" => disk[i].dir /\ disk[i].meta.run \in {NoRun, r}
        /\ left.vanish = MaxVanish /\ job[r].status = "ready" => disk[i].video

-----------------------------------------------------------------------------
(* Scheduling. *)

\* The download worker never sleeps while a job it could pick is queued, and
\* nobody sleeps through Close: each of these changes broadcasts.  A title
\* worker may sleep over a job that StartDownload or Report made eligible.
NoSleepOverWork ==
  /\ pc[dw] = "waiting" => Queued = {}
  /\ closing => \A w \in Workers : pc[w] # "waiting"

\* No unfinished job is stranded.  A status of the pipeline has a pipeline
\* behind it, and after Close nothing is left in such a status ("interrupted
\* active jobs are persisted as retryable"); and the context of an unfinished
\* job is not one that Delete has cancelled, so that a removal that failed
\* leaves no job that can only ever be cancelled.
NoneIsStranded ==
  \A r \in Registry \ deleting :
    /\ job[r].status \in InFlight => r \in active \/ pc[closer] = "draining"
    /\ IsUnfinished(r) => r \notin cancelled

\* Jobs waiting their turn stay within the admission limit; only the one job
\* in the pipeline can come on top of it, when StartDownload makes a job that
\* a title worker has rejected unfinished again.
WaitingWithinLimit ==
  left.restarts = MaxRestarts =>
    /\ Cardinality({r \in Registry \ (deleting \union active) : IsUnfinished(r)})
         <= MaxUnfinished
    /\ UnfinishedCount <= MaxUnfinished + 1

\* A finished download is never queued or downloading again without having
\* been reported failed: no late report or title fetch revives it.
ReadyLeavesThroughFailed ==
  [][\A r \in Runs : job[r].status = "ready" /\ job'[r].status # "ready"
                       => job'[r].status = "failed"]_vars

-----------------------------------------------------------------------------
(* Liveness.  Goroutines run on, and Go's mutexes hand over to a waiter     *)
(* that was passed over, so taking saveMu is strongly fair.  A tool is only *)
(* assumed to end once its context is done, when its process is killed.    *)

Locking(p) == BeginSave(p) \/ SkipSave(p) \/ Finalize(p)

DownloadSteps == Worker(dw) \/ (\E r \in Runs : PickDownload(r)) \/ StartDownload
                 \/ PipelineCanceled \/ Publish \/ EndDownload \/ ReleaseDownload

KilledFetch(t) == FetchReturns(t, "erred") /\ Done(own[t], held[t])

TitleSteps(t) ==
  \/ Worker(t) \/ (\E r \in Runs : PickTitle(t, r)) \/ StartFetch(t)
  \/ KilledFetch(t) \/ ApplyTitle(t) \/ ApplyRejection(t) \/ AfterError(t)
  \/ Pause(t) \/ BackoffCancelled(t) \/ BackoffElapses(t) \/ GiveUp(t)
  \/ ReleaseFetch(t)

CloseSteps == ConvertInterrupted \/ CloseReturns \/ Saves(closer)
              \/ \E r \in Runs : CloseSaves(r)

Fairness ==
  /\ WF_vars(Boot \/ Recover)
  /\ WF_vars(DownloadSteps)
  /\ \A t \in TitleWorkers : WF_vars(TitleSteps(t))
  /\ \A c \in Clients : WF_vars(Removal(c))
  /\ \A r \in Runs : WF_vars(AsyncSave(r))
  /\ WF_vars(CloseSteps)
  /\ \A p \in Procs : SF_vars(Locking(p))

FairSpec == Spec /\ Fairness

\* Every removal that was started comes to an end, the card being gone or
\* back: no removal waits for a tool to finish by itself.
DeletionEnds ==
  \A r \in Runs : Current(r) /\ r \in deleting ~> ~(Current(r) /\ r \in deleting)

\* Close returns, even while jobs are deleted and saved.
CloseEnds == closing ~> pc[closer] = "closed" \/ phase = "down"

\* What a queued job relies on: the download worker runs on, yt-dlp, ffprobe
\* and ffmpeg end by themselves, and a save or a removal of its job that is
\* under way, or was started as a goroutine, ends.
LetsGo(r) ==
  \/ AsyncSave(r)
  \/ \E p \in Procs \ {dw} :
       /\ own[p] = r
       /\ EndSave(p) \/ RemoveFiles(p) \/ Unregister(p) \/ KeepCard(p)

ServedSpec ==
  /\ Spec
  /\ WF_vars(DownloadSteps \/ Pipeline)
  /\ SF_vars(Locking(dw))
  /\ \A r \in Runs : WF_vars(LetsGo(r))

\* A queued job does not stay queued, whatever is queued before or behind it,
\* retried or under way meanwhile: the worker comes round to it, or it is
\* refused, deleted, or left to the next start by Close.
QueuedIsServed ==
  \A r \in Runs : Current(r) /\ job[r].status = "queued"
                    ~> ~(Current(r) /\ job[r].status = "queued") \/ closing

-----------------------------------------------------------------------------
(* What comments and tests of the repository say and the code does not do.  *)

\* List downgrades "ready jobs whose file vanished" (manager.go:255), so a
\* ready job that turns failed has no file.
DowngradedIsMissing ==
  [][\A r \in Runs : /\ job[r].status = "ready" /\ job'[r].status = "failed"
                      /\ NoFaults
                      => ~disk[job[r].id].video]_vars

\* "publish moves the verified MP4 into place" (downloader.go:355): when the
\* pipeline reports success the file is there.
SuccessIsPublished ==
  pc[dw] = "succeeded" /\ left.vanish = MaxVanish => disk[job[own[dw]].id].video
=============================================================================
