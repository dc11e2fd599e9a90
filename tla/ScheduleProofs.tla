--------------------------- MODULE ScheduleProofs ---------------------------
(***************************************************************************)
(* What the download worker and the admission limit promise, for any       *)
(* number of requests, title workers and videos: no unfinished job is      *)
(* stranded, nobody sleeps over work, the jobs that wait stay within the   *)
(* limit, and a finished download is never revived.                        *)
(*                                                                         *)
(* All four follow from where the download worker stands.  Before its last *)
(* section (EarlyLabels) the job it owns is not ready, and is the only one *)
(* that may be in the pipeline; after it (LateLabels) that job is failed,  *)
(* ready, or queued anew by a request that found room for it, which is why *)
(* letting go of it cannot exceed the limit.  Scheduling is inductive on   *)
(* top of TypeOK, Identity and Ownership.  Most steps are calm: they only  *)
(* fail jobs or take them off the list, and leave the worker where it is.  *)
(***************************************************************************)
EXTENDS OwnershipProofs

EarlyLabels == {"picked", "saveStart", "writeStart", "prepare", "prepared", "downloading",
                "processing", "verifying", "publish", "succeeded", "errored", "canceled"}
LateLabels  == {"save", "write", "mark", "release"}

\* The labels of Close once every worker has left.
DrainedLabels == {"saving", "save", "write", "closed"}

\* The cards that are not being removed, and those of them with work to do.
Shown == Registry \ deleting
Open  == {r \in Shown : IsUnfinished(r)}

\* Close was called when the process is closing, and waits for the workers.
CloserOK ==
  /\ closing <=> pc[closer] # "idle"
  /\ pc[closer] \in DrainedLabels => \A w \in Workers : pc[w] = "exited"
  /\ closing => left.restarts # MaxRestarts

\* A process that does not serve saves nothing, and the first one finds nothing.
IdleOK ==
  phase # "serving" =>
    /\ ~closing /\ saveMu = AllUnlocked
    /\ left.restarts = MaxRestarts => \A i \in Ids : disk[i] = NoDir

\* The download worker owns at most one job.
ActiveOK == \A r \in active : r = own[dw] /\ pc[dw] \in EarlyLabels \union LateLabels

\* Only the last section of a download makes a job ready.
ReadyOK == /\ pc[dw] \in EarlyLabels => job[own[dw]].status # "ready"
           /\ \A r \in Runs : job[r].status = "ready" => phase = "serving" /\ r <= created

\* A status of the pipeline has a pipeline behind it, or a Close that will see it.
InFlightOK ==
  \A r \in Shown : job[r].status \in InFlight =>
    pc[closer] = "draining" \/ (r \in active /\ pc[dw] \in EarlyLabels)

\* The context of a job that is worked on, or will be, is not cancelled.
CancelledOK ==
  /\ \A r \in cancelled : phase = "serving" /\ r <= created
  /\ \A r \in Shown : IsUnfinished(r) \/ r \in active => r \notin cancelled

\* A job that a request queued while the worker still held it was admitted.
LimitOK ==
  left.restarts = MaxRestarts =>
    /\ Cardinality(Open \ active) <= MaxUnfinished
    /\ pc[dw] \in LateLabels /\ own[dw] \in Open => Cardinality(Open) <= MaxUnfinished

Scheduling == /\ CloserOK /\ IdleOK /\ ActiveOK /\ ReadyOK /\ InFlightOK /\ CancelledOK
              /\ LimitOK /\ NoSleepOverWork

-----------------------------------------------------------------------------
(* Calm steps. *)

\* Jobs may fail, get off the list, or come back to it finished.
Calm ==
  /\ UNCHANGED <<phase, closing, active>> /\ left'.restarts = left.restarts
  /\ created <= created'
  /\ \A r \in Runs : \/ job'[r].status \in {job[r].status, "failed"}
                     \/ r \notin Shown' /\ r > created /\ job'[r].status # "ready"
  /\ \A r \in Shown' : r \in Shown \/ (r \notin active /\ job'[r].status \notin Unfinished)
  /\ \A r \in cancelled' : \/ r \in cancelled
                           \/ phase = "serving" /\ r <= created /\ r \notin Shown'

\* The download worker stays before, after or outside its last section, Close
\* before or after its drain, and nobody falls asleep or comes back.
Steady ==
  /\ pc'[dw] \in EarlyLabels <=> pc[dw] \in EarlyLabels
  /\ pc'[dw] \in LateLabels <=> pc[dw] \in LateLabels
  /\ pc[dw] \in EarlyLabels \union LateLabels => own'[dw] = own[dw]
  /\ pc'[closer] = pc[closer] \/ {pc[closer], pc'[closer]} \subseteq DrainedLabels
  /\ \A w \in Workers : /\ pc'[w] = "waiting" => pc[w] = "waiting"
                        /\ pc[w] = "exited" => pc'[w] = "exited"

\* The different zones of a goroutine.
LEMMA Zones ==
  /\ EarlyLabels \intersect LateLabels = {} /\ EarlyLabels \union LateLabels \subseteq BusyLabels
  /\ {"idle", "waiting", "exited"} \intersect (EarlyLabels \union LateLabels) = {}
  /\ FinalizeLabels \intersect (EarlyLabels \union LateLabels) = {}
  /\ "idle" \notin DrainedLabels /\ "draining" \notin DrainedLabels
  BY DEF EarlyLabels, LateLabels, BusyLabels, FinalizeLabels, DrainedLabels

\* The open jobs are finitely many.
LEMMA OpenFinite ==
  ASSUME TypeOK, NEW S \in SUBSET Open
  PROVE  IsFiniteSet(S) /\ Cardinality(S) \in Nat
<1>1. IsFiniteSet(Runs) /\ S \subseteq Runs
  BY FS_Interval, BoundsAssumption, RegistryTyped DEF Runs, Open, Shown, TypeOK
<1> QED BY <1>1, FS_Subset, FS_CardinalityType

\* Fewer open jobs keep within the limit.
LEMMA OpenShrinks ==
  ASSUME TypeOK, NEW S \in SUBSET Open, NEW T \in SUBSET S
  PROVE  Cardinality(T) <= Cardinality(S)
  BY OpenFinite, FS_Subset

\* The cards are registered job objects.
LEMMA ShownTyped ==
  ASSUME TypeOK, Identity, NEW r \in Shown
  PROVE  r \in Registry /\ r \in Runs /\ r <= created /\ created \in Nat
  BY Registered, BoundsAssumption DEF Shown, TypeOK, RegistryOK, MaybeRun

\* Calm steps keep every part but IdleOK.
LEMMA CalmScheduling ==
  ASSUME TypeOK, TypeOK', Identity, Identity', Ownership, Scheduling, Calm, Steady, IdleOK'
  PROVE  Scheduling'
<1>1. Statuses = Unfinished \union {"ready", "failed"} /\ "failed" \notin Unfinished
      /\ "ready" \notin Unfinished /\ InFlight \subseteq Unfinished
  BY DEF Statuses, Unfinished, InFlight
<1>2. \A r \in Shown' : job'[r].status \in Unfinished \/ r \in active =>
         r \in Shown /\ job'[r].status \in {job[r].status, "failed"}
  <2>1. \A r \in Shown' : r \in Runs
    BY DEF Shown, TypeOK, RegistryOK, Registry, Runs, MaybeRun, NoRun
  <2>2. \A r \in Shown : r <= created /\ created \in Nat /\ r \in Nat
    BY ShownTyped DEF Runs
  <2> QED BY <2>1, <2>2 DEF Calm
<1>3. Open' \subseteq Open
  BY <1>1, <1>2 DEF Open, Shown, IsUnfinished
<1>4. CloserOK'
  BY Zones DEF Scheduling, CloserOK, Calm, Steady
<1>5. ActiveOK'
  BY DEF Scheduling, ActiveOK, Calm, Steady
<1>6. ReadyOK'
  <2>1. \A r \in Runs : job'[r].status = "ready" => job[r].status = "ready"
    BY DEF Calm
  <2>2. \A r \in Runs : job'[r].status = "ready" => phase' = "serving" /\ r <= created'
    BY <2>1, BoundsAssumption DEF Scheduling, ReadyOK, Calm, TypeOK, RegistryOK, Runs, MaybeRun
  <2>3. pc[dw] \in EarlyLabels => own[dw] \in Runs
    BY Zones, Kinds DEF EarlyLabels, FreeLabels, TypeOK, ProcsOK
  <2>4. pc'[dw] \in EarlyLabels => job'[own'[dw]].status # "ready"
    BY <2>1, <2>3 DEF Scheduling, ReadyOK, Steady
  <2> QED BY <2>2, <2>4 DEF ReadyOK
<1>7. InFlightOK'
  BY <1>1, <1>2, Zones DEF Scheduling, InFlightOK, Calm, Steady, DrainedLabels, Shown
<1>8. CancelledOK'
  <2>1. \A r \in cancelled' : phase' = "serving" /\ r <= created'
    BY BoundsAssumption
    DEF Scheduling, CancelledOK, Calm, TypeOK, RegistryOK, FlagsOK, Runs, MaybeRun
  <2>2. \A r \in Shown' : job'[r].status \in Unfinished \/ r \in active => r \notin cancelled'
    BY <1>1, <1>2 DEF Scheduling, CancelledOK, Calm, IsUnfinished
  <2> QED BY <2>1, <2>2 DEF CancelledOK, IsUnfinished, Calm
<1>9. LimitOK'
  <2>1. Cardinality(Open') <= Cardinality(Open) /\ Cardinality(Open) \in Nat
    BY <1>3, OpenShrinks, OpenFinite
  <2>2. Cardinality(Open' \ active') <= Cardinality(Open \ active)
    BY <1>3, OpenShrinks DEF Calm
  <2>3. /\ Cardinality(Open \ active) \in Nat /\ Cardinality(Open') \in Nat
        /\ Cardinality(Open' \ active') \in Nat
    BY <1>3, OpenFinite
  <2> QED BY <1>3, <2>1, <2>2, <2>3, BoundsAssumption DEF Scheduling, LimitOK, Calm, Steady
<1>10. NoSleepOverWork'
  <2>1. pc'[dw] = "waiting" => Queued' = {}
    <3>1. Queued' \subseteq Queued
      BY <1>1, <1>2 DEF Queued, Calm, Shown, Unfinished
    <3> QED BY <3>1, Kinds DEF Scheduling, NoSleepOverWork, Steady
  <2> QED BY <2>1 DEF Scheduling, NoSleepOverWork, Calm, Steady
<1> QED BY <1>4, <1>5, <1>6, <1>7, <1>8, <1>9, <1>10 DEF Scheduling

\* One goroutine moves on, and it is not at a turn of its work.
LEMMA SteadyMove ==
  ASSUME TypeOK, Ownership, NEW p \in Procs, NEW to, Goto(p, to) \/ WakeGoto(p, to),
         \A q \in Procs \ {p} : own'[q] = own[q],
         p = dw => /\ to \in EarlyLabels <=> pc[dw] \in EarlyLabels
                   /\ to \in LateLabels <=> pc[dw] \in LateLabels
                   /\ pc[dw] \in EarlyLabels \union LateLabels => own'[dw] = own[dw],
         p \in Workers => to # "waiting" /\ pc[p] # "exited",
         p = closer => {pc[p], to} \subseteq DrainedLabels
  PROVE  Steady
<1>1. pc'[p] = to
      /\ \A q \in Procs \ {p} : pc'[q] = pc[q] \/ (pc[q] = "waiting" /\ pc'[q] = "idle")
  BY Moved
<1>2. p # closer => pc'[closer] = pc[closer]
  BY <1>1, Kinds DEF Ownership, KindsOK, CloserLabels
<1> QED BY <1>1, <1>2, Kinds, Zones DEF Steady

\* Nobody moves.
LEMMA SteadyStill ==
  ASSUME UNCHANGED <<pc, own>> PROVE Steady
  BY DEF Steady

\* A step that changes the list of cards in nothing but failing some is calm.
LEMMA CalmList ==
  ASSUME UNCHANGED <<phase, closing, jobs, active, deleting, cancelled, created>>,
         TypeOK, left'.restarts = left.restarts,
         \A r \in Runs : job'[r].status \in {job[r].status, "failed"}
  PROVE  Calm
<1>1. Shown' = Shown
  BY DEF Shown, Registry
<1>2. created <= created'
  BY BoundsAssumption DEF TypeOK, RegistryOK, MaybeRun
<1> QED BY <1>1, <1>2 DEF Calm

\* What a storage fault uses up.
LEMMA FaultKeepsRestarts ==
  ASSUME TypeOK, Fault PROVE left'.restarts = left.restarts
  BY DEF Fault, TypeOK, StorageOK

-----------------------------------------------------------------------------
(* A process that does not serve. *)

\* Before Recover nobody has a job, and nothing is saved.
LEMMA NobodyWorks ==
  ASSUME TypeOK, Ownership, CloserOK, IdleOK, phase # "serving"
  PROVE  /\ Registry = {} /\ pc[closer] = "idle"
         /\ \A w \in Workers : ~Busy(w)
         /\ \A p \in Procs : ~Finalizing(p)
         /\ \A r \in Runs : saveMu[r] = free
<1>1. Registry = {} /\ ~closing /\ saveMu = AllUnlocked
  BY DEF Ownership, MarksOK, IdleOK
<1>2. active = {} /\ fetching = {} /\ Orphans = {}
  BY <1>1 DEF Ownership, OwnedIsRegistered, Orphans
<1>3. \A w \in Workers : ~Busy(w)
  BY <1>2 DEF Ownership, ClaimsOK, Workers
<1>4. \A p \in Procs : ~Finalizing(p)
  BY <1>2 DEF Ownership, FinalizersOK
<1> QED BY <1>1, <1>3, <1>4 DEF CloserOK, AllUnlocked

\* ... so no step touches a directory, but for the files that somebody removes.
LEMMA IdleSteps ==
  ASSUME TypeOK, Ownership, CloserOK, IdleOK, phase # "serving", Next,
         ~Exit, ~Crash, ~RecoverFails, ~Recover
  PROVE  /\ UNCHANGED <<closing, saveMu>> /\ left'.restarts = left.restarts
         /\ UNCHANGED disk \/ \E i \in Ids : Vanish(i)
<1>1. ASSUME NEW p \in Workers \union Clients, Removal(p)
      PROVE  FALSE
  BY <1>1, NobodyWorks, Kinds
  DEF Removal, Finalize, RemoveFiles, RemoveFails, Unregister, KeepCard, Finalizing,
      FinalizeLabels
<1>2. ASSUME NEW p \in Workers \union {closer}, Saves(p)
      PROVE  FALSE
  BY <1>2, NobodyWorks, Kinds
  DEF Saves, BeginSave, SkipSave, EndSave, Moves, Busy, BusyLabels
<1>3. ASSUME NEW r \in Runs, AsyncSave(r)
      PROVE  UNCHANGED <<closing, saveMu, disk, left>>
  <2>1. ~Saveable(r) /\ saveMu[r] = free /\ free # async
    BY NobodyWorks, NamesAssumption DEF Saveable, Current, free, async
  <2> QED BY <1>3, <2>1 DEF AsyncSave, BeginAsyncSave, EndAsyncSave, lifeVars
<1>4. ASSUME NEW w \in Workers, Sleep(w) \/ ExitWorker(w) \/ Mark(w)
      PROVE  UNCHANGED <<closing, saveMu, disk, left>>
  BY <1>4 DEF Sleep, ExitWorker, Mark, Moves, pcFrame, jobFrame, lifeVars, saveVars
<1>5. ASSUME NEW r \in Runs, PickDownload(r) \/ \E t \in TitleWorkers : PickTitle(t, r)
      PROVE  UNCHANGED <<closing, saveMu, disk, left>>
  BY <1>5 DEF PickDownload, PickTitle, lifeVars, saveVars
<1>6. ~(StartDownload \/ EndDownload \/ ReleaseDownload \/ Pipeline)
  BY NobodyWorks, Kinds
  DEF StartDownload, EndDownload, ReleaseDownload, Pipeline, MakeWork, Report, NextStages,
      CheckContext, Publish, PublishNothing, PipelineFails, PipelineCanceled, PipelineLabels,
      Moves, Busy, BusyLabels
<1>7. ASSUME NEW t \in TitleWorkers,
             \/ \E label \in {"fetched", "rejected", "erred"} : FetchReturns(t, label)
             \/ StartFetch(t) \/ ApplyTitle(t) \/ ApplyRejection(t) \/ AfterError(t)
             \/ Pause(t) \/ BackoffCancelled(t) \/ BackoffElapses(t) \/ GiveUp(t)
             \/ ReleaseFetch(t)
      PROVE  FALSE
  BY <1>7, NobodyWorks, Kinds
  DEF FetchReturns, StartFetch, ApplyTitle, ApplyRejection, AfterError, Pause,
      BackoffCancelled, BackoffElapses, GiveUp, ReleaseFetch, Moves, Busy, BusyLabels
<1>8. ~(Close \/ ConvertInterrupted \/ CloseReturns \/ \E r \in Runs : CloseSaves(r))
  BY NobodyWorks DEF Close, ConvertInterrupted, CloseReturns, CloseSaves
<1>9. ASSUME Boot
      PROVE  UNCHANGED <<closing, saveMu, disk, left>>
  BY <1>9 DEF Boot, saveVars
<1>10. ASSUME NEW i \in Ids, Vanish(i)
       PROVE  UNCHANGED <<closing, saveMu>> /\ left'.restarts = left.restarts
  BY <1>10 DEF Vanish, lifeVars, saveVars, TypeOK, StorageOK
<1>11. ASSUME NEW c \in Clients
       PROVE  /\ ~List(c) /\ ~Downgrade(c) /\ ~WaitTimesOut(c)
              /\ \A i \in Ids : /\ ~SubmitAnswered(c, i) /\ ~SubmitWaits(c, i)
                                /\ ~SubmitRequeues(c, i) /\ ~SubmitNew(c, i)
                                /\ ~SubmitUnsaved(c, i) /\ ~Retry(c, i) /\ ~Delete(c, i)
              /\ \A r \in Runs : ~StatFinds(c, r) /\ ~StatMisses(c, r)
  BY DEF List, Downgrade, WaitTimesOut, SubmitAnswered, SubmitWaits, SubmitRequeues, SubmitNew,
         SubmitUnsaved, Retry, Delete, StatFinds, StatMisses, Asks
<1> QED BY <1>1, <1>2, <1>3, <1>4, <1>5, <1>6, <1>7, <1>8, <1>9, <1>10, <1>11, StepCases

\* A serving process does so until it stops.
LEMMA ServesOn ==
  ASSUME Next, phase = "serving", ~Exit, ~Crash, ~RecoverFails
  PROVE  phase' = "serving"
<1>1. ASSUME NEW p, Removal(p) \/ Saves(p)
      PROVE  phase' = phase
  BY <1>1 DEF Removal, Finalize, RemoveFiles, RemoveFails, Unregister, KeepCard, Saves,
         BeginSave, SkipSave, EndSave, Moves, pcFrame, lifeVars
<1>2. ASSUME NEW r, AsyncSave(r)
      PROVE  phase' = phase
  BY <1>2 DEF AsyncSave, BeginAsyncSave, EndAsyncSave, lifeVars
<1>3. ASSUME NEW c \in Clients, Requests(c)
      PROVE  phase' = phase
  BY <1>3 DEF Requests, List, Downgrade, WaitTimesOut, SubmitAnswered, SubmitWaits,
         SubmitRequeues, SubmitNew, SubmitUnsaved, Retry, Delete, StatFinds, StatMisses,
         ownFrame, lifeVars
<1>4. ASSUME NEW w, Worker(w)
      PROVE  phase' = phase
  BY <1>1, <1>4 DEF Worker, Sleep, ExitWorker, Mark, Moves, pcFrame, jobFrame, lifeVars
<1>5. ASSUME DownloadWorker
      PROVE  phase' = phase
  BY <1>4, <1>5
  DEF DownloadWorker, PickDownload, StartDownload, EndDownload, ReleaseDownload, Pipeline,
      MakeWork, Report, CheckContext, Publish, PublishNothing, PipelineFails,
      PipelineCanceled, Moves, pcFrame, jobFrame, lifeVars
<1>6. ASSUME NEW t \in TitleWorkers, TitleWorker(t)
      PROVE  phase' = phase
  BY <1>4, <1>6
  DEF TitleWorker, PickTitle, FetchReturns, StartFetch, ApplyTitle, ApplyRejection,
      AfterError, Pause, BackoffCancelled, BackoffElapses, GiveUp, ReleaseFetch, Moves,
      pcFrame, jobFrame, lifeVars
<1>7. ASSUME Closing
      PROVE  phase' = phase
  BY <1>1, <1>7 DEF Closing, Close, ConvertInterrupted, CloseSaves, CloseReturns, ownFrame,
         lifeVars
<1>8. ASSUME Process
      PROVE  phase' = phase
  BY <1>8 DEF Process, Boot, Recover, Vanish, lifeVars
<1> QED BY <1>1, <1>2, <1>3, <1>5, <1>6, <1>7, <1>8 DEF Next

\* What a shutdown or a crash uses up.
LEMMA RestartUses ==
  ASSUME TypeOK, Restart PROVE left'.restarts # MaxRestarts
  BY BoundsAssumption DEF Restart, TypeOK, StorageOK

\* IdleOK is preserved by every step.
LEMMA IdleNext ==
  ASSUME TypeOK, Ownership, CloserOK, IdleOK, Next
  PROVE  IdleOK'
<1>1. CASE Exit \/ Crash \/ RecoverFails
  <2>1. closing' = FALSE /\ saveMu' = AllUnlocked
    BY <1>1 DEF Exit, Crash, RecoverFails, Ends, PowerOff
  <2>2. CASE Exit \/ Crash
    <3>1. left'.restarts # MaxRestarts
      BY <2>2, RestartUses DEF Exit, Crash, CloserOK
    <3> QED BY <2>1, <3>1 DEF IdleOK, AllUnlocked
  <2>3. CASE RecoverFails
    <3>1. phase # "serving" /\ disk' = disk /\ left'.restarts = left.restarts
      BY <2>3, FaultKeepsRestarts DEF RecoverFails
    <3> QED BY <2>1, <3>1 DEF IdleOK, AllUnlocked
  <2> QED BY <1>1, <2>2, <2>3
<1>2. CASE ~(Exit \/ Crash \/ RecoverFails) /\ phase # "serving" /\ ~Recover
  <2>1. ASSUME NEW i \in Ids, Vanish(i)
        PROVE  disk[i] # NoDir
    BY <2>1 DEF Vanish, NoDir
  <2> QED BY <1>2, <2>1, IdleSteps DEF IdleOK, AllUnlocked
<1>3. CASE ~(Exit \/ Crash \/ RecoverFails) /\ (phase = "serving" \/ Recover)
  BY <1>3, ServesOn DEF Recover, IdleOK
<1> QED BY <1>1, <1>2, <1>3

-----------------------------------------------------------------------------
(* The calm steps. *)

\* One status is set to failed, or none.
LEMMA Failed ==
  ASSUME TypeOK, NEW r \in Runs,
         job' = job \/ job' = [job EXCEPT ![r].status = "failed"]
  PROVE  \A q \in Runs : job'[q].status \in {job[q].status, "failed"}
  BY DEF TypeOK, RegistryOK, Job

\* Requests that queue nothing.
LEMMA RequestCalm ==
  ASSUME TypeOK, Identity, Ownership, NEW c \in Clients,
         \/ \E i \in Ids : SubmitAnswered(c, i) \/ SubmitWaits(c, i)
         \/ List(c) \/ Downgrade(c) \/ WaitTimesOut(c)
         \/ \E r \in Runs : StatFinds(c, r) \/ StatMisses(c, r)
  PROVE  Calm /\ Steady
<1>1. UNCHANGED <<phase, closing, jobs, active, deleting, cancelled, created>>
  BY DEF SubmitAnswered, SubmitWaits, List, Downgrade, WaitTimesOut, StatFinds, StatMisses,
         ownFrame, lifeVars, regVars, flagVars
<1>2. left'.restarts = left.restarts
  BY FaultKeepsRestarts
  DEF SubmitAnswered, SubmitWaits, List, Downgrade, WaitTimesOut, StatFinds, StatMisses, ownFrame
<1>3. \A r \in Runs : job'[r].status \in {job[r].status, "failed"}
  <2>1. CASE Downgrade(c)
    <3>1. own[c] \in Runs
      BY <2>1, Kinds DEF Downgrade, TypeOK, ProcsOK, FreeLabels
    <3> QED BY <2>1, <3>1, Failed DEF Downgrade
  <2>2. CASE ~Downgrade(c)
    BY <2>2 DEF SubmitAnswered, SubmitWaits, List, WaitTimesOut, StatFinds, StatMisses,
                ownFrame, regVars
  <2> QED BY <2>1, <2>2
<1>4. \E to : Goto(c, to)
  BY DEF SubmitAnswered, SubmitWaits, List, Downgrade, WaitTimesOut, StatFinds, StatMisses
<1>5. \A q \in Procs \ {c} : own'[q] = own[q]
  BY DEF SubmitAnswered, SubmitWaits, List, Downgrade, WaitTimesOut, StatFinds, StatMisses,
         Unowned, TypeOK, ProcsOK
<1>6. Steady
  BY <1>4, <1>5, Kinds, SteadyMove
<1> QED BY <1>1, <1>2, <1>3, <1>6, CalmList

\* A refused submission creates a job object that is on no list.
LEMMA UnsavedCalm ==
  ASSUME TypeOK, Identity, Ownership, NEW c \in Clients, NEW i \in Ids, SubmitUnsaved(c, i)
  PROVE  Calm /\ Steady
<1>1. /\ UNCHANGED <<phase, closing, jobs, active, deleting, cancelled>>
      /\ created' = created + 1 /\ created \in Nat
      /\ job' = [job EXCEPT ![created + 1] = NewJob(i)]
  BY BoundsAssumption DEF SubmitUnsaved, lifeVars, flagVars, TypeOK, RegistryOK, MaybeRun
<1>2. left'.restarts = left.restarts
  BY FaultKeepsRestarts DEF SubmitUnsaved
<1>3. Shown' = Shown /\ created + 1 \notin Shown
  BY <1>1, ShownTyped DEF Shown, Registry
<1>4. NewJob(i).status = "queued"
  BY DEF NewJob
<1>5. \A r \in Runs : \/ job'[r].status = job[r].status
                      \/ r \notin Shown' /\ r > created /\ job'[r].status # "ready"
  BY <1>1, <1>3, <1>4 DEF TypeOK, RegistryOK
<1>6. Steady
  BY Kinds, SteadyMove DEF SubmitUnsaved, Unowned, TypeOK, ProcsOK
<1> QED BY <1>1, <1>2, <1>3, <1>5, <1>6 DEF Calm

\* Delete takes a card off the list and cancels its context.
LEMMA DeleteCalm ==
  ASSUME TypeOK, Identity, Ownership, NEW c \in Clients, NEW i \in Ids, Delete(c, i)
  PROVE  Calm /\ Steady
<1>1. /\ UNCHANGED <<phase, closing, jobs, job, active, created, left>> /\ phase = "serving"
      /\ jobs[i] \in Registry
      /\ deleting' = deleting \union {jobs[i]} /\ cancelled' = cancelled \union {jobs[i]}
  BY DEF Delete, Asks, Registry, lifeVars, regVars
<1>2. Shown' = Shown \ {jobs[i]} /\ jobs[i] <= created /\ created <= created'
  BY <1>1, Registered, BoundsAssumption DEF Shown, Registry, TypeOK, RegistryOK, MaybeRun
<1>3. Steady
  BY Kinds, SteadyMove DEF Delete, TypeOK, ProcsOK
<1> QED BY <1>1, <1>2, <1>3 DEF Calm

\* saveCurrent, called by a worker or by Close.
LEMMA SaveCalm ==
  ASSUME TypeOK, Ownership, NEW p \in Workers \union {closer}, Saves(p)
  PROVE  Calm /\ Steady
<1>1. /\ UNCHANGED <<phase, closing, jobs, job, active, deleting, cancelled, created, own>>
      /\ left'.restarts = left.restarts
  BY FaultKeepsRestarts
  DEF Saves, BeginSave, SkipSave, EndSave, Stores, FailsToStore, Moves, pcFrame, lifeVars,
      regVars, flagVars
<1>2. Calm
  BY <1>1, CalmList
<1>3. p = closer => pc[p] \in {"save", "write"}
  BY DEF Saves, BeginSave, SkipSave, EndSave, Moves, Ownership, KindsOK, CloserLabels
<1>4. \E to : /\ Goto(p, to) /\ to # "waiting" /\ pc[p] # "exited"
              /\ p = closer => to \in {"write", "saving"}
              /\ p # closer => \/ {pc[p], to} \subseteq {"saveStart", "writeStart", "prepare"}
                               \/ {pc[p], to} \subseteq {"save", "write", "mark", "release"}
  BY <1>3 DEF Saves, BeginSave, SkipSave, EndSave, Moves, Saved, Unsaved
<1>5. Steady
  BY <1>1, <1>3, <1>4, Kinds, SteadyMove DEF EarlyLabels, LateLabels, DrainedLabels
<1> QED BY <1>2, <1>5

\* ... or spawned with go.
LEMMA AsyncSaveCalm ==
  ASSUME TypeOK, NEW r \in Runs, AsyncSave(r)
  PROVE  Calm /\ Steady
<1>1. UNCHANGED <<phase, closing, jobs, job, active, deleting, cancelled, created, pc, own>>
  BY DEF AsyncSave, BeginAsyncSave, EndAsyncSave, lifeVars, regVars, flagVars, procVars
<1>2. left'.restarts = left.restarts
  BY FaultKeepsRestarts DEF AsyncSave, BeginAsyncSave, EndAsyncSave, Stores, FailsToStore
<1> QED BY <1>1, <1>2, CalmList, SteadyStill

\* A worker leaves, or records a failed save.
LEMMA RestCalm ==
  ASSUME TypeOK, Ownership, NEW w \in Workers, ExitWorker(w) \/ Mark(w)
  PROVE  Calm /\ Steady
<1>1. /\ UNCHANGED <<phase, closing, jobs, active, deleting, cancelled, created, own, left>>
      /\ w \in Procs /\ w # closer
  BY Kinds DEF ExitWorker, Mark, Moves, pcFrame, jobFrame, lifeVars, regVars, flagVars
<1>2. CASE ExitWorker(w)
  <2>1. UNCHANGED job /\ pc[w] = "idle" /\ Goto(w, "exited")
    BY <1>2 DEF ExitWorker, Moves, pcFrame, regVars
  <2>2. Calm
    BY <1>1, <2>1, CalmList
  <2> QED BY <1>1, <2>1, <2>2, Zones, SteadyMove
<1>3. CASE Mark(w)
  <2>1. own[w] \in Runs /\ pc[w] = "mark" /\ Goto(w, "release")
    BY <1>1, <1>3 DEF Mark, TypeOK, ProcsOK, FreeLabels
  <2>2. Calm
    BY <1>1, <1>3, <2>1, Failed, CalmList DEF Mark
  <2>3. Steady
    BY <1>1, <2>1, SteadyMove DEF EarlyLabels, LateLabels
  <2> QED BY <2>2, <2>3
<1> QED BY <1>2, <1>3

\* The pipeline between two reports.
LEMMA PipelineCalm ==
  ASSUME TypeOK, Ownership, MakeWork \/ CheckContext \/ Publish \/ PublishNothing
                            \/ PipelineFails \/ PipelineCanceled
  PROVE  Calm /\ Steady
<1>1. UNCHANGED <<phase, closing, jobs, job, active, deleting, cancelled, created, own>>
  BY DEF MakeWork, CheckContext, Publish, PublishNothing, PipelineFails, PipelineCanceled, Moves,
         pcFrame, lifeVars, regVars, flagVars
<1>2. left'.restarts = left.restarts
  BY FaultKeepsRestarts DEF MakeWork, CheckContext, Publish, PublishNothing, PipelineFails,
     PipelineCanceled, Moves, pcFrame
<1>3. pc[dw] \in EarlyLabels /\ \E to \in EarlyLabels : Goto(dw, to)
  BY DEF MakeWork, CheckContext, Publish, PublishNothing, PipelineFails, PipelineCanceled, Moves,
         PipelineLabels, EarlyLabels
<1>4. "waiting" \notin EarlyLabels /\ "exited" \notin EarlyLabels
  BY DEF EarlyLabels
<1> QED BY <1>1, <1>2, <1>3, <1>4, Kinds, Zones, CalmList, SteadyMove

\* Title workers change no status but to failed.
LEMMA TitleCalm ==
  ASSUME TypeOK, Ownership, NEW t \in TitleWorkers,
         \/ \E r \in Runs : PickTitle(t, r)
         \/ \E label \in {"fetched", "rejected", "erred"} : FetchReturns(t, label)
         \/ StartFetch(t) \/ ApplyTitle(t) \/ ApplyRejection(t) \/ AfterError(t)
         \/ Pause(t) \/ BackoffCancelled(t) \/ BackoffElapses(t) \/ GiveUp(t)
         \/ ReleaseFetch(t)
  PROVE  Calm /\ Steady
<1>1. UNCHANGED <<phase, closing, jobs, active, deleting, cancelled, created, left>>
  BY DEF PickTitle, FetchReturns, StartFetch, ApplyTitle, ApplyRejection, AfterError, Pause,
         BackoffCancelled, BackoffElapses, GiveUp, ReleaseFetch, Moves, pcFrame, jobFrame,
         lifeVars, regVars, flagVars
<1>2. pc[t] \in {"fetched", "rejected", "giveUp"} => own[t] \in Runs
  BY Kinds DEF TypeOK, ProcsOK, FreeLabels
<1>3. \A r \in Runs : job'[r].status \in {job[r].status, "failed"}
  <2>1. CASE UNCHANGED job
    BY <2>1
  <2>2. CASE ApplyTitle(t)
    <3>1. ASSUME NEW known, job' = [job EXCEPT ![own[t]].titled = known]
          PROVE  \A r \in Runs : job'[r].status = job[r].status
      BY <3>1 DEF TypeOK, RegistryOK, Job
    <3>2. UNCHANGED job \/ \E known \in BOOLEAN : job' = [job EXCEPT ![own[t]].titled = known]
      BY <2>2, Zenon DEF ApplyTitle
    <3> QED BY <2>1, <3>1, <3>2
  <2>3. CASE ApplyRejection(t)
    BY <1>2, <2>3, Failed DEF ApplyRejection
  <2>4. CASE GiveUp(t)
    BY <2>4 DEF GiveUp, TypeOK, RegistryOK, Job
  <2> QED BY <2>1, <2>2, <2>3, <2>4
          DEF PickTitle, FetchReturns, StartFetch, AfterError, Pause, BackoffCancelled,
              BackoffElapses, ReleaseFetch, Moves, pcFrame, regVars
<1>4. pc[t] # "exited" /\ \E to : to # "waiting" /\ (Goto(t, to) \/ WakeGoto(t, to))
  BY DEF PickTitle, FetchReturns, StartFetch, ApplyTitle, ApplyRejection, AfterError, Pause,
         BackoffCancelled, BackoffElapses, GiveUp, ReleaseFetch, Moves
<1>5. \A q \in Procs \ {t} : own'[q] = own[q]
  BY DEF PickTitle, FetchReturns, StartFetch, ApplyTitle, ApplyRejection, AfterError, Pause,
         BackoffCancelled, BackoffElapses, GiveUp, ReleaseFetch, Moves, pcFrame, jobFrame,
         Unowned, TypeOK, ProcsOK
<1>6. Steady
  BY <1>4, <1>5, Kinds, SteadyMove
<1> QED BY <1>1, <1>3, <1>6, CalmList

\* The end of a removal answers only those that wait for it.
LEMMA AnsweredSteady ==
  ASSUME TypeOK, Ownership, NEW p \in Procs, Finalizing(p), AnswerWaiters(p, own[p])
  PROVE  Steady
<1>1. \A w \in Workers \union {closer} : w # p => pc'[w] = pc[w] /\ own'[w] = own[w]
  <2>1. \A w \in Workers \union {closer} : pc[w] \notin AwaitLabels
    BY Kinds DEF Ownership, KindsOK, WorkerLabels, CloserLabels, AwaitLabels, BusyLabels,
                 FinalizeLabels
  <2> QED BY <2>1, Kinds DEF AnswerWaiters, Waiting, AwaitLabels
<1>2. pc'[p] = "idle" /\ p # closer
  BY DEF AnswerWaiters, Ownership, KindsOK, CloserLabels, Finalizing, FinalizeLabels
<1>3. "exited" \notin FinalizeLabels
  BY DEF FinalizeLabels
<1> QED BY <1>1, <1>2, <1>3, Kinds, Zones DEF Steady, Finalizing

\* A removal takes its job off the list for good, or puts it back finished.
LEMMA RemovalCalm ==
  ASSUME TypeOK, Identity, Ownership, NEW p \in Workers \union Clients, Removal(p)
  PROVE  Calm /\ Steady
<1>1. /\ p \in Procs /\ p # closer /\ Finalizing(p)
      /\ own[p] \in Registry \intersect deleting /\ own[p] \notin active /\ own[p] \in Runs
  <2>1. p \in Procs /\ p # closer /\ Finalizing(p)
    BY Kinds DEF Removal, Finalize, RemoveFiles, RemoveFails, Unregister, KeepCard, Finalizing,
                 FinalizeLabels
  <2> QED BY <2>1, RegistryTyped DEF Ownership, FinalizersOK, Orphans, TypeOK
<1>2. CASE Finalize(p) \/ RemoveFiles(p) \/ RemoveFails(p)
  <2>1. UNCHANGED <<phase, closing, jobs, job, active, deleting, cancelled, created>>
    BY <1>2 DEF Finalize, RemoveFiles, RemoveFails, lifeVars, regVars, flagVars
  <2>2. left'.restarts = left.restarts
    BY <1>2, FaultKeepsRestarts DEF Finalize, RemoveFiles, RemoveFails
  <2>3. \E to \in {"remove", "idle", "unregister", "stuck"} : Goto(p, to)
    BY <1>2 DEF Finalize, RemoveFiles, RemoveFails
  <2>4. \A q \in Procs \ {p} : own'[q] = own[q]
    BY <1>2 DEF Finalize, RemoveFiles, RemoveFails, Unowned, TypeOK, ProcsOK
  <2>5. /\ {"remove", "unregister", "stuck"} \subseteq FinalizeLabels
        /\ "exited" \notin FinalizeLabels
    BY DEF FinalizeLabels
  <2>6. Steady
    BY <1>1, <2>3, <2>4, <2>5, Zones, SteadyMove DEF Finalizing
  <2> QED BY <2>1, <2>2, <2>6, CalmList
<1>3. CASE Unregister(p)
  <2>1. UNCHANGED <<phase, closing, job, active, deleting, cancelled, created, left>>
    BY <1>3 DEF Unregister, lifeVars, flagVars
  <2>2. Registry' \subseteq Registry
    <3>1. jobs' = [jobs EXCEPT ![job[own[p]].id] = NoRun]
      BY <1>1, <1>3 DEF Unregister, Current
    <3> QED BY <3>1 DEF Registry, TypeOK, RegistryOK
  <2>3. Steady
    BY <1>1, <1>3, AnsweredSteady DEF Unregister
  <2>4. created <= created'
    BY <2>1, BoundsAssumption DEF TypeOK, RegistryOK, MaybeRun
  <2> QED BY <2>1, <2>2, <2>3, <2>4 DEF Calm, Shown
<1>4. CASE KeepCard(p)
  <2>1. /\ UNCHANGED <<phase, closing, jobs, active, cancelled, created, left>>
        /\ deleting' = deleting \ {own[p]} /\ created <= created'
    BY <1>1, <1>4, BoundsAssumption
    DEF KeepCard, Current, lifeVars, TypeOK, RegistryOK, MaybeRun
  <2>2. \A r \in Runs : job'[r].status \in {job[r].status, "failed"}
    BY <1>1, <1>4, Failed DEF KeepCard
  <2>3. job'[own[p]].status \notin Unfinished
    BY <1>1, <1>4
    DEF KeepCard, Current, IsUnfinished, Unfinished, InFlight, TypeOK, RegistryOK, Job
  <2>4. Shown' = Shown \union {own[p]}
    BY <1>1, <2>1 DEF Shown, Registry
  <2>5. Steady
    BY <1>1, <1>4, AnsweredSteady DEF KeepCard
  <2> QED BY <1>1, <2>1, <2>2, <2>3, <2>4, <2>5 DEF Calm
<1> QED BY <1>2, <1>3, <1>4 DEF Removal

\* Close saves what it converted; a file vanishes.
LEMMA CloseCalm ==
  ASSUME TypeOK, Ownership, CloseReturns \/ (\E r \in Runs : CloseSaves(r))
           \/ \E i \in Ids : Vanish(i)
  PROVE  Calm /\ Steady
<1>1. UNCHANGED <<phase, closing, jobs, job, active, deleting, cancelled, created>>
      /\ left'.restarts = left.restarts
  BY DEF CloseReturns, CloseSaves, Vanish, ownFrame, lifeVars, regVars, flagVars, TypeOK, StorageOK
<1>2. Calm
  BY <1>1, CalmList
<1>3. CASE \E i \in Ids : Vanish(i)
  BY <1>2, <1>3, SteadyStill DEF Vanish, procVars
<1>4. CASE CloseReturns \/ \E r \in Runs : CloseSaves(r)
  <2>1. pc[closer] = "saving" /\ \E to \in {"save", "closed"} : Goto(closer, to)
    BY <1>4 DEF CloseReturns, CloseSaves
  <2>2. \A q \in Procs \ {closer} : own'[q] = own[q]
    BY <1>4 DEF CloseReturns, CloseSaves, Unowned, TypeOK, ProcsOK
  <2> QED BY <1>2, <2>1, <2>2, Kinds, SteadyMove DEF DrainedLabels
<1> QED BY <1>3, <1>4

-----------------------------------------------------------------------------
(* Queueing. *)

\* A request that finds room puts a card in the queue, and wakes the workers.
LEMMA Queueing ==
  ASSUME TypeOK, TypeOK', Identity, Identity', Ownership, Scheduling,
         NEW c \in Clients, WakeGoto(c, "idle"), phase = "serving", ~closing, ~Full,
         NEW r \in Runs, Shown' = Shown \union {r}, r \notin cancelled',
         UNCHANGED <<phase, closing, active, left>>, created <= created',
         cancelled' \subseteq cancelled, \A q \in Procs \ {c} : own'[q] = own[q],
         \A q \in Runs \ {r} : job'[q].status = job[q].status,
         job'[r].status = "queued", job[r].status # "ready"
  PROVE  Scheduling'
<1>1. Steady
  BY Kinds, SteadyMove
<1>2. "queued" \in Unfinished /\ "queued" \notin InFlight
  BY DEF Unfinished, InFlight
<1>3. Open' = Open \union {r}
  <2>1. \A q \in Shown' : q \in Runs
    BY DEF Shown, TypeOK, RegistryOK, Registry, Runs, MaybeRun, NoRun
  <2> QED BY <1>2, <2>1 DEF Open, IsUnfinished
<1>4. Cardinality(Open') <= MaxUnfinished
  <2>1. IsFiniteSet(Open) /\ Cardinality(Open) \in Nat
    BY OpenFinite
  <2>2. UnfinishedCount = Cardinality(Open)
    BY DEF UnfinishedCount, Open, Shown
  <2>3. /\ IsFiniteSet(Open \union {r})
        /\ Cardinality(Open \union {r}) = IF r \in Open THEN Cardinality(Open)
                                          ELSE Cardinality(Open) + 1
    BY <2>1, FS_AddElement
  <2> QED BY <1>3, <2>1, <2>2, <2>3, BoundsAssumption DEF Full
<1>5. LimitOK'
  <2>1. IsFiniteSet(Open') /\ Cardinality(Open') \in Nat
    BY <1>3, OpenFinite, FS_AddElement, FS_CardinalityType
  <2>2. Cardinality(Open' \ active') <= Cardinality(Open') /\ Cardinality(Open' \ active') \in Nat
    BY <2>1, FS_Subset, FS_CardinalityType
  <2> QED BY <1>4, <2>1, <2>2, BoundsAssumption DEF LimitOK
<1>6. CloserOK' /\ ActiveOK' /\ IdleOK'
  BY <1>1, Zones DEF Scheduling, CloserOK, ActiveOK, IdleOK, Steady
<1>7. ReadyOK'
  <2>1. pc[dw] \in EarlyLabels => own[dw] \in Runs
    BY Zones, Kinds DEF EarlyLabels, FreeLabels, TypeOK, ProcsOK
  <2>2. \A q \in Runs : job'[q].status = "ready" => job[q].status = "ready"
    OBVIOUS
  <2>3. \A q \in Runs : job'[q].status = "ready" => phase' = "serving" /\ q <= created'
    BY <2>2, BoundsAssumption DEF Scheduling, ReadyOK, TypeOK, RegistryOK, Runs, MaybeRun
  <2> QED BY <1>1, <2>1, <2>2, <2>3 DEF Scheduling, ReadyOK, Steady
<1>8. InFlightOK'
  <2>1. \A q \in Shown' : job'[q].status \in InFlight =>
          q \in Shown /\ job'[q].status = job[q].status
    <3>1. \A q \in Shown : q \in Runs
      BY ShownTyped
    <3> QED BY <1>2, <3>1
  <2> QED BY <1>1, <2>1, Zones DEF Scheduling, InFlightOK, Steady, DrainedLabels
<1>9. CancelledOK'
  <2>1. \A q \in cancelled' : phase' = "serving" /\ q <= created'
    BY BoundsAssumption DEF Scheduling, CancelledOK, TypeOK, RegistryOK, FlagsOK, Runs, MaybeRun
  <2>2. \A q \in Shown : q \in Runs
    BY ShownTyped
  <2> QED BY <2>1, <2>2 DEF Scheduling, CancelledOK, IsUnfinished
<1>10. NoSleepOverWork'
  <2>1. \A p \in Procs : pc'[p] # "waiting"
    BY DEF WakeGoto, Woken, TypeOK, ProcsOK
  <2> QED BY <2>1, Kinds DEF NoSleepOverWork
<1> QED BY <1>5, <1>6, <1>7, <1>8, <1>9, <1>10 DEF Scheduling

\* Submit and Retry.
LEMMA QueueingRequests ==
  ASSUME TypeOK, TypeOK', Identity, Identity', Ownership, Scheduling, NEW c \in Clients,
         NEW i \in Ids, SubmitRequeues(c, i) \/ Retry(c, i) \/ SubmitNew(c, i)
  PROVE  Scheduling'
<1>1. \A q \in Procs \ {c} : own'[q] = own[q]
  BY DEF SubmitRequeues, Retry, SubmitNew, Unowned, TypeOK, ProcsOK
<1>2. CASE SubmitRequeues(c, i) \/ Retry(c, i)
  <2> DEFINE r == jobs[i]
  <2>1. /\ r \in Shown /\ r \in Runs /\ job[r].status = "failed" /\ requeueLocked(r)
        /\ UNCHANGED <<phase, closing, jobs, active, deleting, created, left>>
        /\ phase = "serving" /\ ~closing /\ WakeGoto(c, "idle")
    BY <1>2 DEF SubmitRequeues, Retry, Requeueable, BeingDeleted, Asks, Shown, Registry,
                lifeVars, TypeOK, RegistryOK, Runs, MaybeRun, NoRun
  <2>2. /\ job'[r].status = "queued" /\ \A q \in Runs \ {r} : job'[q].status = job[q].status
        /\ ~Full /\ cancelled' = cancelled \ {r}
    BY <2>1 DEF requeueLocked, TypeOK, RegistryOK, Job
  <2>3. Shown' = Shown \union {r}
    BY <2>1 DEF Shown, Registry
  <2>4. created <= created'
    BY <2>1, BoundsAssumption DEF TypeOK, RegistryOK, MaybeRun
  <2> QED BY <1>1, <2>1, <2>2, <2>3, <2>4, Queueing
<1>3. CASE SubmitNew(c, i)
  <2> DEFINE n == created + 1
  <2>1. /\ n \in Runs /\ created' = n /\ created \in Nat /\ jobs[i] = NoRun
        /\ jobs' = [jobs EXCEPT ![i] = n] /\ job' = [job EXCEPT ![n] = NewJob(i)]
        /\ UNCHANGED <<phase, closing, active, deleting, cancelled, left>>
        /\ phase = "serving" /\ ~closing /\ ~Full /\ WakeGoto(c, "idle")
    BY <1>3, BoundsAssumption
    DEF SubmitNew, Admissible, Asks, TypeOK, RegistryOK, MaybeRun, Runs, lifeVars, flagVars
  <2>2. n \notin deleting /\ n \notin cancelled /\ job[n].status # "ready"
    BY <2>1 DEF Ownership, MarksOK, Scheduling, CancelledOK, ReadyOK
  <2>3. Shown' = Shown \union {n}
    BY <2>1, <2>2 DEF Shown, Registry, TypeOK, RegistryOK, NoRun
  <2>4. job'[n].status = "queued" /\ \A q \in Runs \ {n} : job'[q].status = job[q].status
    BY <2>1 DEF TypeOK, RegistryOK, NewJob
  <2> QED BY <1>1, <2>1, <2>2, <2>3, <2>4, Queueing
<1> QED BY <1>2, <1>3

-----------------------------------------------------------------------------
(* The turns of the download worker. *)

\* Steps of the download worker while the list of cards stays as it is.
WorkerTurn == UNCHANGED <<phase, closing, jobs, deleting, cancelled, created, left>>

\* They leave Close and the other workers alone.
LEMMA TurnKeeps ==
  ASSUME TypeOK, Ownership, Scheduling, WorkerTurn, NEW to, to \notin {"waiting", "exited"},
         Goto(dw, to) \/ WakeGoto(dw, to), pc[dw] # "exited"
  PROVE  /\ CloserOK' /\ NoSleepOverWork' /\ pc'[dw] = to /\ pc'[closer] = pc[closer]
         /\ Shown' = Shown
<1>1. pc'[dw] = to /\ \A q \in Procs \ {dw} : pc'[q] = pc[q]
        \/ (pc[q] = "waiting" /\ pc'[q] = "idle")
  BY Moved, Kinds
<1>2. pc'[closer] = pc[closer]
  BY <1>1, Kinds DEF Ownership, KindsOK, CloserLabels
<1>3. CloserOK'
  BY <1>1, <1>2, Kinds DEF Scheduling, CloserOK, WorkerTurn
<1>4. NoSleepOverWork'
  BY <1>1, Kinds DEF Scheduling, NoSleepOverWork, WorkerTurn
<1> QED BY <1>1, <1>2, <1>3, <1>4 DEF WorkerTurn, Shown, Registry

\* The worker takes a job that is queued.
LEMMA PickScheduling ==
  ASSUME TypeOK, TypeOK', Identity, Ownership, Scheduling, IdleOK',
         NEW r \in Runs, PickDownload(r)
  PROVE  Scheduling'
<1>1. /\ r \in Shown /\ job[r].status = "queued" /\ pc[dw] = "idle" /\ own'[dw] = r
      /\ active' = active \union {r} /\ UNCHANGED job /\ Goto(dw, "picked") /\ WorkerTurn
  BY Kinds DEF PickDownload, pickQueued, First, Queued, Shown, WorkerTurn, lifeVars, regVars,
               TypeOK, ProcsOK
<1>2. active = {} /\ "picked" \in EarlyLabels /\ "picked" \notin LateLabels
      /\ "queued" \in Unfinished
  BY <1>1, Zones DEF Scheduling, ActiveOK, EarlyLabels, LateLabels, Unfinished
<1>3. /\ CloserOK' /\ NoSleepOverWork' /\ pc'[dw] = "picked" /\ pc'[closer] = pc[closer]
      /\ Shown' = Shown
  BY <1>1, TurnKeeps
<1>4. Open' = Open
  BY <1>1, <1>3 DEF Open, IsUnfinished
<1>5. LimitOK'
  <2>1. /\ Cardinality(Open' \ active') <= Cardinality(Open \ active)
        /\ Cardinality(Open \ active) \in Nat /\ Cardinality(Open' \ active') \in Nat
    BY <1>1, <1>4, OpenShrinks, OpenFinite
  <2> QED BY <1>1, <1>2, <1>3, <2>1, BoundsAssumption DEF Scheduling, LimitOK, WorkerTurn
<1>6. ActiveOK' /\ ReadyOK' /\ InFlightOK'
  BY <1>1, <1>2, <1>3 DEF Scheduling, ActiveOK, ReadyOK, InFlightOK, WorkerTurn
<1>7. CancelledOK'
  BY <1>1, <1>2, <1>3 DEF Scheduling, CancelledOK, WorkerTurn, IsUnfinished
<1> QED BY <1>3, <1>5, <1>6, <1>7 DEF Scheduling

\* The worker advances its job in the pipeline.
LEMMA AdvanceScheduling ==
  ASSUME TypeOK, TypeOK', Identity, Ownership, Scheduling, IdleOK',
         StartDownload \/ \E stage \in InFlight : Report(stage)
  PROVE  Scheduling'
<1> DEFINE r == own[dw]
<1>1. /\ pc[dw] \in EarlyLabels /\ \E to \in EarlyLabels : Goto(dw, to)
      /\ UNCHANGED <<own, active>> /\ WorkerTurn
  BY DEF StartDownload, Report, NextStages, EarlyLabels, InFlight, WorkerTurn, lifeVars, flagVars
<1>2. r \in active /\ r \in Runs /\ r \in Registry
  BY <1>1, Zones, RegistryTyped
  DEF Ownership, ClaimsOK, OwnedIsRegistered, Busy, TypeOK
<1>3. /\ \A q \in Runs \ {r} : job'[q].status = job[q].status
      /\ job'[r].status \in InFlight \/ job'[r].status = job[r].status
  BY <1>2 DEF StartDownload, Report, InFlight, TypeOK, RegistryOK, Job
<1>4. /\ CloserOK' /\ NoSleepOverWork' /\ pc'[dw] \in EarlyLabels /\ pc'[closer] = pc[closer]
      /\ Shown' = Shown
  <2>1. "waiting" \notin EarlyLabels /\ "exited" \notin EarlyLabels
    BY Zones
  <2> QED BY <1>1, <2>1, TurnKeeps
<1>5. \A q \in Shown : q \in Runs
  BY ShownTyped
<1>6. Open' \ active' = Open \ active
  BY <1>1, <1>2, <1>3, <1>4, <1>5 DEF Open, IsUnfinished
<1>7. LimitOK'
  BY <1>1, <1>4, <1>6, Zones DEF Scheduling, LimitOK, WorkerTurn
<1>8. ActiveOK' /\ InFlightOK'
  BY <1>1, <1>2, <1>3, <1>4, <1>5 DEF Scheduling, ActiveOK, InFlightOK
<1>9. ReadyOK'
  BY <1>1, <1>2, <1>3 DEF Scheduling, ReadyOK, WorkerTurn, InFlight
<1>10. CancelledOK'
  BY <1>1, <1>2, <1>3, <1>4, <1>5 DEF Scheduling, CancelledOK, WorkerTurn, IsUnfinished
<1> QED BY <1>4, <1>7, <1>8, <1>9, <1>10 DEF Scheduling

\* The last section makes the job ready or failed, or leaves a job that is
\* off the list, or that Close will see.
LEMMA EndScheduling ==
  ASSUME TypeOK, TypeOK', Identity, Ownership, Scheduling, IdleOK', EndDownload
  PROVE  Scheduling'
<1> DEFINE r == own[dw]
<1>1. /\ pc[dw] \in EarlyLabels /\ UNCHANGED <<own, active>> /\ WorkerTurn
      /\ \E to \in LateLabels : Goto(dw, to)
  BY DEF EndDownload, EarlyLabels, LateLabels, WorkerTurn, jobFrame, lifeVars, flagVars
<1>2. r \in active /\ r \in Runs /\ r \in Registry
  BY <1>1, Zones, RegistryTyped
  DEF Ownership, ClaimsOK, OwnedIsRegistered, Busy, TypeOK
<1>3. /\ \A q \in Runs \ {r} : job'[q].status = job[q].status
      /\ \/ job'[r].status \in {"ready", "failed"}
         \/ job'[r].status = job[r].status /\ (r \notin Shown \/ closing)
  <2>1. CASE ResultDropped(r)
    <3>1. UNCHANGED job
      BY <2>1 DEF EndDownload
    <3> QED BY <2>1, <3>1, <1>2 DEF ResultDropped, Shown, Current
  <2>2. CASE ~ResultDropped(r)
    <3>1. PICK status \in {"ready", "failed"}, known \in BOOLEAN :
            job' = [job EXCEPT ![r].status = status, ![r].titled = @ \/ known]
      BY <2>2, Zenon DEF EndDownload
    <3>2. job'[r].status = status /\ \A q \in Runs \ {r} : job'[q] = job[q]
      BY <1>2, <3>1 DEF TypeOK, RegistryOK, Job
    <3> QED BY <3>2
  <2> QED BY <2>1, <2>2
<1>4. /\ CloserOK' /\ NoSleepOverWork' /\ pc'[dw] \in LateLabels /\ pc'[closer] = pc[closer]
      /\ Shown' = Shown
  <2>1. "waiting" \notin LateLabels /\ "exited" \notin LateLabels /\ "exited" \notin EarlyLabels
    BY Zones
  <2> QED BY <1>1, <2>1, TurnKeeps
<1>5. \A q \in Shown : q \in Runs
  BY ShownTyped
<1>6. "ready" \notin Unfinished /\ "failed" \notin Unfinished /\ InFlight \subseteq Unfinished
  BY DEF Unfinished, InFlight
<1>7. closing => left.restarts # MaxRestarts /\ pc[closer] = "draining"
  <2>1. pc[dw] # "exited"
    BY <1>1, Zones
  <2> QED BY <2>1, Kinds DEF Scheduling, CloserOK, DrainedLabels, Ownership, KindsOK, CloserLabels
<1>8. Open' \ active' = Open \ active
  BY <1>1, <1>2, <1>3, <1>4, <1>5 DEF Open, IsUnfinished
<1>9. LimitOK'
  <2>1. left.restarts = MaxRestarts => r \notin Open'
    BY <1>2, <1>3, <1>4, <1>6, <1>7 DEF Open, IsUnfinished
  <2> QED BY <1>1, <1>4, <1>8, <2>1 DEF Scheduling, LimitOK, WorkerTurn
<1>10. ActiveOK'
  BY <1>1, <1>4 DEF Scheduling, ActiveOK
<1>11. ReadyOK'
  <2>1. phase = "serving" /\ r <= created
    BY <1>2, Registered DEF Ownership, MarksOK
  <2>2. \A q \in Runs : job'[q].status = "ready" => job[q].status = "ready" \/ q = r
    BY <1>3
  <2>3. pc'[dw] \notin EarlyLabels
    BY <1>4, Zones
  <2> QED BY <1>1, <2>1, <2>2, <2>3 DEF Scheduling, ReadyOK, WorkerTurn
<1>12. InFlightOK'
  <2>1. ASSUME NEW q \in Shown, job'[q].status \in InFlight
        PROVE  pc[closer] = "draining"
    <3>1. CASE q = r
      BY <1>3, <1>6, <1>7, <2>1, <3>1
    <3>2. CASE q # r
      BY <1>3, <1>5, <2>1, <3>2 DEF Scheduling, InFlightOK, ActiveOK
    <3> QED BY <3>1, <3>2
  <2> QED BY <1>4, <2>1 DEF InFlightOK
<1>13. CancelledOK'
  BY <1>1, <1>2, <1>3, <1>4, <1>5, <1>6 DEF Scheduling, CancelledOK, WorkerTurn, IsUnfinished
<1> QED BY <1>4, <1>9, <1>10, <1>11, <1>12, <1>13 DEF Scheduling

\* The worker lets go of its job.
LEMMA ReleaseScheduling ==
  ASSUME TypeOK, TypeOK', Identity, Ownership, Scheduling, IdleOK', ReleaseDownload
  PROVE  Scheduling'
<1>1. /\ pc[dw] \in LateLabels /\ WorkerTurn /\ UNCHANGED job /\ active' = active \ {own[dw]}
      /\ \E to \in {"finalize", "idle"} : WakeGoto(dw, to)
  BY DEF ReleaseDownload, LateLabels, WorkerTurn, lifeVars, regVars
<1>2. active' = {} /\ active \subseteq {own[dw]}
  BY <1>1 DEF Scheduling, ActiveOK
<1>3. /\ CloserOK' /\ NoSleepOverWork' /\ pc'[dw] \in {"finalize", "idle"}
      /\ pc'[closer] = pc[closer] /\ Shown' = Shown
  BY <1>1, Zones, TurnKeeps
<1>4. pc'[dw] \notin EarlyLabels \union LateLabels
  BY <1>3, Zones DEF FinalizeLabels
<1>5. Open' = Open
  BY <1>1, <1>3 DEF Open, IsUnfinished
<1>6. LimitOK'
  <2>1. CASE own[dw] \in Open
    BY <1>1, <1>2, <1>4, <1>5, <2>1 DEF Scheduling, LimitOK, WorkerTurn
  <2>2. CASE own[dw] \notin Open
    <3>1. Open' \ active' = Open \ active
      BY <1>2, <1>5, <2>2
    <3> QED BY <1>1, <1>4, <3>1 DEF Scheduling, LimitOK, WorkerTurn
  <2> QED BY <2>1, <2>2
<1>7. ActiveOK' /\ ReadyOK'
  BY <1>1, <1>2, <1>4 DEF Scheduling, ActiveOK, ReadyOK, WorkerTurn
<1>8. InFlightOK'
  BY <1>1, <1>3, Zones DEF Scheduling, InFlightOK
<1>9. CancelledOK'
  BY <1>1, <1>2, <1>3 DEF Scheduling, CancelledOK, WorkerTurn, IsUnfinished
<1> QED BY <1>3, <1>6, <1>7, <1>8, <1>9 DEF Scheduling

-----------------------------------------------------------------------------
(* Sleep, Close, and the life of the process. *)

\* A worker sleeps only when there is nothing to pick.
LEMMA SleepScheduling ==
  ASSUME TypeOK, TypeOK', Scheduling, IdleOK', NEW w \in Workers, Sleep(w)
  PROVE  Scheduling'
<1>1. /\ UNCHANGED <<jobs, job, active, deleting, cancelled, created, phase, closing, own, left>>
      /\ ~closing /\ Candidates(w) = {} /\ pc[w] = "idle" /\ pc' = [pc EXCEPT ![w] = "waiting"]
  BY DEF Sleep, Moves, Goto, pcFrame, lifeVars, regVars, flagVars
<1>2. /\ pc'[w] = "waiting" /\ \A q \in Procs \ {w} : pc'[q] = pc[q]
      /\ pc'[closer] = pc[closer]
  BY <1>1, Kinds DEF TypeOK, ProcsOK
<1>3. Shown' = Shown /\ Open' = Open /\ Queued' = Queued
  BY <1>1 DEF Shown, Registry, Open, IsUnfinished, Queued
<1>4. /\ pc'[dw] \in EarlyLabels <=> pc[dw] \in EarlyLabels
      /\ pc'[dw] \in LateLabels <=> pc[dw] \in LateLabels
  BY <1>1, <1>2, Zones, Kinds
<1>5. CloserOK'
  BY <1>1, <1>2, Zones DEF Scheduling, CloserOK
<1>6. NoSleepOverWork'
  BY <1>1, <1>2, <1>3, Kinds DEF Scheduling, NoSleepOverWork, Candidates
<1>7. ActiveOK' /\ InFlightOK' /\ CancelledOK' /\ ReadyOK' /\ LimitOK'
  BY <1>1, <1>2, <1>3, <1>4
  DEF Scheduling, ActiveOK, InFlightOK, CancelledOK, ReadyOK, LimitOK, IsUnfinished
<1> QED BY <1>5, <1>6, <1>7 DEF Scheduling

\* Close wakes everybody, waits for the workers, and converts what they left.
LEMMA CloseScheduling ==
  ASSUME TypeOK, TypeOK', Identity, Ownership, Scheduling, IdleOK', Close \/ ConvertInterrupted
  PROVE  Scheduling'
<1>1. UNCHANGED <<phase, jobs, active, deleting, cancelled, created, own>>
  BY DEF Close, ConvertInterrupted, lifeVars, regVars, flagVars
<1>2. Shown' = Shown
  BY <1>1 DEF Shown, Registry
<1>3. CASE Close
  <2>1. /\ closing' /\ UNCHANGED job /\ left'.restarts # MaxRestarts /\ WakeGoto(closer, "draining")
        /\ pc[closer] = "idle"
    BY <1>3, RestartUses DEF Close, regVars, Scheduling, CloserOK
  <2>2. /\ pc'[closer] = "draining" /\ \A p \in Procs : pc'[p] # "waiting"
        /\ \A q \in Procs \ {closer} : pc'[q] = pc[q] \/ (pc[q] = "waiting" /\ pc'[q] = "idle")
    BY <2>1 DEF WakeGoto, Woken, TypeOK, ProcsOK
  <2>3. /\ pc'[dw] \in EarlyLabels <=> pc[dw] \in EarlyLabels
        /\ pc'[dw] \in LateLabels <=> pc[dw] \in LateLabels
    BY <2>2, Zones, Kinds
  <2>4. CloserOK' /\ NoSleepOverWork'
    BY <2>1, <2>2, Zones, Kinds DEF CloserOK, NoSleepOverWork
  <2>5. ActiveOK' /\ InFlightOK' /\ CancelledOK' /\ ReadyOK' /\ LimitOK'
    BY <1>1, <1>2, <2>1, <2>2, <2>3
    DEF Scheduling, ActiveOK, InFlightOK, CancelledOK, ReadyOK, LimitOK, IsUnfinished
  <2> QED BY <2>4, <2>5 DEF Scheduling
<1>4. CASE ConvertInterrupted
  <2>1. /\ UNCHANGED <<closing, left>> /\ Goto(closer, "saving") /\ pc[closer] = "draining"
        /\ \A w \in Workers : pc[w] = "exited"
    BY <1>4 DEF ConvertInterrupted, lifeVars
  <2>2. /\ pc'[closer] = "saving" /\ \A w \in Workers : pc'[w] = "exited"
    BY <2>1, Kinds DEF Goto, TypeOK, ProcsOK
  <2>3. active = {} /\ pc'[dw] \notin EarlyLabels \union LateLabels
    BY <2>1, <2>2, Kinds, Zones DEF Scheduling, ActiveOK
  <2>4. closing /\ left.restarts # MaxRestarts
    BY <2>1 DEF Scheduling, CloserOK
  <2>5. /\ \A r \in Shown : job'[r].status \notin InFlight
        /\ \A r \in Runs : job'[r].status \in {job[r].status, "failed"}
    <3>1. \A r \in Runs : job'[r] = IF r \in Interrupted THEN [job[r] EXCEPT !.status = "failed"]
                                    ELSE job[r]
      BY <1>4 DEF ConvertInterrupted
    <3>2. \A r \in Shown : r \in Runs /\ (r \in Interrupted <=> job[r].status \in InFlight)
      BY ShownTyped DEF Interrupted, Shown
    <3>3. "failed" \notin InFlight
      BY DEF InFlight
    <3> QED BY <3>1, <3>2, <3>3 DEF TypeOK, RegistryOK, Job
  <2>6. CloserOK' /\ NoSleepOverWork'
    BY <2>1, <2>2, <2>4, Kinds DEF CloserOK, NoSleepOverWork
  <2>7. ActiveOK' /\ InFlightOK' /\ LimitOK'
    BY <1>1, <1>2, <2>1, <2>3, <2>4, <2>5 DEF ActiveOK, InFlightOK, LimitOK
  <2>8. ReadyOK'
    BY <1>1, <2>3, <2>5 DEF Scheduling, ReadyOK
  <2>9. CancelledOK'
    <3>1. \A r \in Shown : r \in Runs
      BY ShownTyped
    <3>2. "failed" \notin Unfinished
      BY DEF Unfinished, InFlight
    <3> QED BY <1>1, <1>2, <2>5, <3>1, <3>2 DEF Scheduling, CancelledOK, IsUnfinished
  <2> QED BY <2>6, <2>7, <2>8, <2>9 DEF Scheduling
<1> QED BY <1>3, <1>4

\* The state of a process that is not running.
Off == /\ Blank /\ phase = "down" /\ closing = FALSE /\ cancelled = {} /\ job = NoObjects
       /\ saveMu = AllUnlocked
       /\ left.restarts = MaxRestarts => \A i \in Ids : disk[i] = NoDir

\* A process that is not running keeps every promise.
LEMMA OffScheduling == Off => Scheduling
<1> SUFFICES ASSUME Off PROVE Scheduling
  OBVIOUS
<1> USE DEF Off, Blank
<1>1. Registry = {} /\ Shown = {} /\ Open = {} /\ Queued = {}
  BY DEF Registry, NoJobs, Shown, Open, Queued
<1>2. pc[closer] = "idle" /\ \A w \in Workers : pc[w] = "idle"
  BY Kinds DEF AllIdle
<1>3. pc[dw] \notin EarlyLabels \union LateLabels
  BY <1>2, Zones, Kinds
<1>4. CloserOK /\ IdleOK /\ ActiveOK /\ InFlightOK /\ CancelledOK /\ NoSleepOverWork
  BY <1>1, <1>2, <1>3, Zones
  DEF CloserOK, IdleOK, ActiveOK, InFlightOK, CancelledOK, NoSleepOverWork
<1>5. ReadyOK
  BY <1>3 DEF ReadyOK, NoObjects, Uncreated
<1>6. LimitOK
  <2>1. Open \ active = {}
    BY <1>1
  <2> QED BY <1>1, <2>1, FS_EmptySet, BoundsAssumption DEF LimitOK
<1> QED BY <1>4, <1>5, <1>6 DEF Scheduling

\* What recovery registers is at rest; the first process finds nothing.
LEMMA RecoverScheduling ==
  ASSUME TypeOK, TypeOK', Identity, Identity', Ownership, Scheduling, Recover
  PROVE  Scheduling'
<1>1. /\ phase # "serving" /\ phase' = "serving" /\ pc' = Woken
      /\ UNCHANGED <<closing, active, deleting, cancelled, own>>
      /\ left'.restarts = left.restarts
  BY FaultKeepsRestarts DEF Recover, flagVars
<1>2. /\ Registry = {} /\ pc[closer] = "idle" /\ (\A w \in Workers : ~Busy(w))
      /\ ~closing /\ active = {} /\ deleting = {} /\ cancelled = {}
  BY <1>1, NobodyWorks
  DEF Scheduling, IdleOK, CancelledOK, Ownership, OwnedIsRegistered, MarksOK
<1>3. /\ pc'[closer] = "idle" /\ \A p \in Procs : pc'[p] # "waiting"
      /\ \A p \in Procs : pc'[p] = pc[p] \/ pc'[p] = "idle"
  BY <1>1, <1>2, Kinds DEF Woken
<1>4. pc'[dw] \notin EarlyLabels \union LateLabels
  BY <1>2, <1>3, Kinds, Zones DEF Busy
<1>5. PICK rank \in Bijection(Found, 1..Cardinality(Found)),
          stamp \in Bijection(Bare, created + 1 .. created + Cardinality(Bare)),
          unread \in Unread :
        Registers(rank, stamp, unread)
  BY DEF Recover
<1>6. \A r \in Registry' : \E i \in Found : r = RunFound(i, stamp) /\ r \in Runs
                                            /\ job'[r].status \in {RecoveredStatus(disk[i]), "failed"}
  <2>1. ASSUME NEW r \in Registry'
        PROVE  \E i \in Found : r = RunFound(i, stamp) /\ r \in Runs
                                /\ job'[r].status \in {RecoveredStatus(disk[i]), "failed"}
    <3>1. r \in Runs
      BY DEF TypeOK, RegistryOK, Registry, Runs, MaybeRun, NoRun
    <3>2. PICK j \in Ids : r = jobs'[j] /\ r # NoRun
      BY DEF Registry
    <3>3. j \in Found /\ RunFound(j, stamp) = r
      BY <1>5, <3>2 DEF Registers
    <3> DEFINE k == CHOOSE i \in Found : RunFound(i, stamp) = r
    <3>4. k \in Found /\ RunFound(k, stamp) = r
      BY <3>3
    <3>5. job'[r] = JobRecovered(k, rank, unread)
      BY <1>5, <3>1, <3>3 DEF Registers
    <3>6. \E i \in Found : r = RunFound(i, stamp) /\ job'[r] = JobRecovered(i, rank, unread)
      BY <3>4, <3>5
    <3> QED BY <3>1, <3>6 DEF JobRecovered
  <2> QED BY <2>1
<1>7. \A i \in Found : RecoveredStatus(disk[i]) \in {"queued", "ready", "failed"}
  BY DEF RecoveredStatus, Found, TypeOK, StorageOK, Dir, Meta, Statuses, Unfinished, InFlight
<1>8. CloserOK' /\ IdleOK' /\ ActiveOK' /\ NoSleepOverWork'
  BY <1>1, <1>2, <1>3, Zones, Kinds DEF CloserOK, IdleOK, ActiveOK, NoSleepOverWork
<1>9. InFlightOK' /\ CancelledOK'
  BY <1>1, <1>2, <1>6, <1>7 DEF InFlightOK, CancelledOK, Shown, InFlight
<1>10. ReadyOK'
  <2>1. ASSUME NEW r \in Runs, job'[r].status = "ready"
        PROVE  r <= created'
    <3>1. CASE \E i \in Found : RunFound(i, stamp) = r
      <4>1. PICK i \in Found : RunFound(i, stamp) = r
        BY <3>1
      <4>2. i \in Ids /\ jobs'[i] = r /\ r # NoRun
        BY <1>5, <4>1 DEF Registers, Found, Runs, NoRun
      <4> QED BY <4>2 DEF Identity, CardsOK
    <3>2. CASE ~\E i \in Found : RunFound(i, stamp) = r
      <4>1. job'[r] = job[r]
        BY <1>5, <3>2 DEF Registers
      <4> QED BY <1>1, <2>1, <4>1 DEF Scheduling, ReadyOK
    <3> QED BY <3>1, <3>2
  <2> QED BY <1>1, <1>4, <2>1 DEF ReadyOK
<1>11. LimitOK'
  <2>1. ASSUME left.restarts = MaxRestarts
        PROVE  Open' = {}
    <3>1. \A i \in Ids : disk[i] = NoDir
      BY <1>1, <2>1 DEF Scheduling, IdleOK
    <3>2. Found = {}
      BY <3>1 DEF Found, NoDir
    <3>3. Registry' = {}
      BY <1>6, <3>2
    <3> QED BY <3>3 DEF Open, Shown
  <2>2. left'.restarts = MaxRestarts => Open' = {} /\ Open' \ active' = {}
    BY <1>1, <2>1
  <2>3. left'.restarts = MaxRestarts => Cardinality(Open' \ active') = 0
    BY <2>2, FS_EmptySet
  <2> QED BY <2>2, <2>3, BoundsAssumption DEF LimitOK
<1> QED BY <1>8, <1>9, <1>10, <1>11 DEF Scheduling

\* Exit, Crash and Boot.
LEMMA OffOrBoot ==
  ASSUME TypeOK, TypeOK', Ownership, Scheduling, Exit \/ Crash \/ RecoverFails \/ Boot, IdleOK'
  PROVE  Scheduling'
<1>1. CASE Exit \/ Crash \/ RecoverFails
  <2>1. left'.restarts = MaxRestarts => \A i \in Ids : disk'[i] = NoDir
    BY <1>1 DEF Exit, Crash, RecoverFails, Ends, PowerOff, IdleOK
  <2>2. Off'
    BY <1>1, <2>1 DEF Exit, Crash, RecoverFails, Ends, PowerOff, Off, Blank, NoJobs, AllIdle, NoObjects, AllUnlocked
  <2> QED BY <2>2, OffScheduling, PTL
<1>2. CASE Boot
  <2>1. /\ UNCHANGED <<closing, jobs, job, created, active, deleting, cancelled, pc, own, left>>
        /\ phase # "serving"
    BY <1>2 DEF Boot, regVars, flagVars, procVars
  <2>2. Shown' = Shown /\ Open' = Open /\ Queued' = Queued
    BY <2>1 DEF Shown, Registry, Open, IsUnfinished, Queued
  <2>3. ReadyOK' /\ CancelledOK'
    BY <2>1, <2>2 DEF Scheduling, ReadyOK, CancelledOK, IsUnfinished
  <2> QED BY <2>1, <2>2, <2>3
          DEF Scheduling, CloserOK, ActiveOK, InFlightOK, LimitOK, NoSleepOverWork
<1> QED BY <1>1, <1>2

-----------------------------------------------------------------------------
\* Every step is calm or one of these.
LEMMA CalmOrNot ==
  ASSUME TypeOK, Identity, Ownership, Next
  PROVE  \/ Calm /\ Steady
         \/ \E c \in Clients, i \in Ids : SubmitRequeues(c, i) \/ Retry(c, i) \/ SubmitNew(c, i)
         \/ \E w \in Workers : Sleep(w)
         \/ \E r \in Runs : PickDownload(r)
         \/ StartDownload \/ (\E stage \in InFlight : Report(stage))
         \/ EndDownload \/ ReleaseDownload
         \/ Close \/ ConvertInterrupted \/ Exit \/ Crash \/ RecoverFails \/ Boot \/ Recover
<1>1. ASSUME NEW c \in Clients, NEW i \in Ids,
             SubmitAnswered(c, i) \/ SubmitWaits(c, i) \/ SubmitUnsaved(c, i) \/ Delete(c, i)
      PROVE  Calm /\ Steady
  BY <1>1, RequestCalm, UnsavedCalm, DeleteCalm
<1>2. ASSUME NEW c \in Clients,
             \/ List(c) \/ Downgrade(c) \/ WaitTimesOut(c)
             \/ \E r \in Runs : StatFinds(c, r) \/ StatMisses(c, r)
      PROVE  Calm /\ Steady
  BY <1>2, RequestCalm
<1>3. ASSUME NEW w \in Workers, ExitWorker(w) \/ Mark(w)
      PROVE  Calm /\ Steady
  BY <1>3, RestCalm
<1>4. ASSUME Pipeline
      PROVE  (Calm /\ Steady) \/ \E stage \in InFlight : Report(stage)
  BY <1>4, PipelineCalm DEF Pipeline
<1>5. ASSUME NEW t \in TitleWorkers,
             \/ \E r \in Runs : PickTitle(t, r)
             \/ \E label \in {"fetched", "rejected", "erred"} : FetchReturns(t, label)
             \/ StartFetch(t) \/ ApplyTitle(t) \/ ApplyRejection(t) \/ AfterError(t)
             \/ Pause(t) \/ BackoffCancelled(t) \/ BackoffElapses(t) \/ GiveUp(t)
             \/ ReleaseFetch(t)
      PROVE  Calm /\ Steady
  BY <1>5, TitleCalm
<1>6. ASSUME \/ \E p \in Workers \union Clients : Removal(p)
             \/ \E p \in Workers \union {closer} : Saves(p)
             \/ \E r \in Runs : AsyncSave(r)
             \/ CloseReturns \/ (\E r \in Runs : CloseSaves(r)) \/ \E i \in Ids : Vanish(i)
      PROVE  Calm /\ Steady
  BY <1>6, RemovalCalm, SaveCalm, AsyncSaveCalm, CloseCalm
<1> QED BY <1>1, <1>2, <1>3, <1>4, <1>5, <1>6, StepCases

\* Scheduling is preserved by every step.
LEMMA SchedulingNext ==
  ASSUME TypeOK, TypeOK', Identity, Identity', Ownership, Scheduling, Next
  PROVE  Scheduling'
<1>1. IdleOK'
  BY IdleNext DEF Scheduling
<1> QED BY <1>1, CalmOrNot, CalmScheduling, QueueingRequests, SleepScheduling, PickScheduling,
        AdvanceScheduling, EndScheduling, ReleaseScheduling, CloseScheduling, OffOrBoot,
        RecoverScheduling

\* The inductive invariant behind the theorems below.
THEOREM SchedulingCorrect == Spec => []Scheduling
<1>1. Init => Scheduling
  BY OffScheduling DEF Init, Off, Blank
<1>2. TypeOK /\ TypeOK' /\ Identity /\ Identity' /\ Ownership /\ Scheduling /\ [Next]_vars
        => Scheduling'
  <2> SUFFICES ASSUME TypeOK, TypeOK', Identity, Identity', Ownership, Scheduling, [Next]_vars
               PROVE  Scheduling'
    OBVIOUS
  <2>1. CASE UNCHANGED vars
    <3>1. Calm /\ Steady
      BY <2>1, CalmList, SteadyStill DEF vars, lifeVars, regVars, flagVars, procVars
    <3>2. IdleOK'
      BY <2>1 DEF vars, lifeVars, saveVars, Scheduling, IdleOK, AllUnlocked
    <3> QED BY <3>1, <3>2, CalmScheduling
  <2> QED BY <2>1, SchedulingNext
<1> QED BY <1>1, <1>2, TypeCorrect, IdentityCorrect, OwnershipCorrect, PTL DEF Spec

\* The download worker never sleeps while a job it could pick is queued, and no
\* worker sleeps through Close.
THEOREM WorkersWake == Spec => []NoSleepOverWork
<1>1. Scheduling => NoSleepOverWork
  BY DEF Scheduling
<1> QED BY <1>1, SchedulingCorrect, PTL

\* A status of the pipeline has a pipeline behind it, or a Close that will make
\* it retryable; and no unfinished job has a context that Delete cancelled.
THEOREM NobodyStranded == Spec => []NoneIsStranded
<1>1. Scheduling => NoneIsStranded
  BY DEF Scheduling, InFlightOK, CancelledOK, NoneIsStranded, Shown
<1> QED BY <1>1, SchedulingCorrect, PTL

\* Jobs that wait stay within the limit; the one in the pipeline may come on top.
THEOREM LimitHolds == Spec => []WaitingWithinLimit
<1>1. TypeOK /\ Scheduling => WaitingWithinLimit
  <2> SUFFICES ASSUME TypeOK, Scheduling, left.restarts = MaxRestarts
               PROVE  /\ Cardinality({r \in Registry \ (deleting \union active) : IsUnfinished(r)})
                           <= MaxUnfinished
                      /\ UnfinishedCount <= MaxUnfinished + 1
    BY DEF WaitingWithinLimit
  <2>1. {r \in Registry \ (deleting \union active) : IsUnfinished(r)} = Open \ active
    BY DEF Open, Shown
  <2>2. Cardinality(Open \ active) <= MaxUnfinished
    BY DEF Scheduling, LimitOK
  <2>3. UnfinishedCount = Cardinality(Open)
    BY DEF UnfinishedCount, Open, Shown
  <2>4. Cardinality(Open) <= Cardinality(Open \ active) + 1
    <3>1. IsFiniteSet(Open \ active) /\ Cardinality(Open \ active) \in Nat
      BY OpenFinite
    <3>2. /\ IsFiniteSet((Open \ active) \union {own[dw]})
          /\ Cardinality((Open \ active) \union {own[dw]})
               = IF own[dw] \in Open \ active THEN Cardinality(Open \ active)
                 ELSE Cardinality(Open \ active) + 1
      BY <3>1, FS_AddElement
    <3>3. Open \subseteq (Open \ active) \union {own[dw]}
      BY DEF Scheduling, ActiveOK
    <3>4. /\ Cardinality(Open) <= Cardinality((Open \ active) \union {own[dw]})
          /\ Cardinality((Open \ active) \union {own[dw]}) \in Nat
      BY <3>2, <3>3, FS_Subset, FS_CardinalityType
    <3>5. Cardinality(Open) \in Nat
      BY OpenFinite
    <3> QED BY <3>1, <3>2, <3>4, <3>5
  <2>5. Cardinality(Open \ active) \in Nat /\ Cardinality(Open) \in Nat
    BY OpenFinite
  <2> QED BY <2>1, <2>2, <2>3, <2>4, <2>5, BoundsAssumption
<1> QED BY <1>1, TypeCorrect, SchedulingCorrect, PTL

\* A job that was ready is failed before it is anything else.
LEMMA ReadyNext ==
  ASSUME TypeOK, Identity, Ownership, Scheduling, Next,
         NEW r \in Runs, job[r].status = "ready", job'[r].status # "ready"
  PROVE  job'[r].status = "failed"
<1>1. phase = "serving" /\ r <= created /\ created \in Nat
  BY BoundsAssumption DEF Scheduling, ReadyOK, TypeOK, RegistryOK, MaybeRun
<1>2. CASE Calm
  BY <1>1, <1>2 DEF Calm, Runs
<1>3. ASSUME NEW c \in Clients, NEW i \in Ids,
             SubmitRequeues(c, i) \/ Retry(c, i) \/ SubmitNew(c, i)
      PROVE  job'[r].status = "ready"
  <2>1. CASE SubmitNew(c, i)
    BY <1>1, <2>1 DEF SubmitNew, Runs, TypeOK, RegistryOK
  <2>2. CASE SubmitRequeues(c, i) \/ Retry(c, i)
    BY <2>2 DEF SubmitRequeues, Retry, Requeueable, requeueLocked, TypeOK, RegistryOK, Job
  <2> QED BY <1>3, <2>1, <2>2
<1>4. ASSUME StartDownload \/ EndDownload \/ \E stage \in InFlight : Report(stage)
      PROVE  job'[r].status = "ready"
  <2>1. pc[dw] \in EarlyLabels
    BY <1>4 DEF StartDownload, EndDownload, Report, NextStages, EarlyLabels
  <2>2. r # own[dw]
    BY <2>1 DEF Scheduling, ReadyOK
  <2>3. UNCHANGED job \/ \A q \in Runs \ {own[dw]} : job'[q] = job[q]
    <3>1. ASSUME NEW status, NEW titled,
                 job' = [job EXCEPT ![own[dw]].status = status, ![own[dw]].titled = titled]
          PROVE  \A q \in Runs \ {own[dw]} : job'[q] = job[q]
      BY <3>1 DEF TypeOK, RegistryOK
    <3>2. CASE EndDownload
      <4>1. \/ UNCHANGED job
            \/ \E status : \E known \in BOOLEAN :
                 job' = [job EXCEPT ![own[dw]].status = status, ![own[dw]].titled = @ \/ known]
        BY <3>2, Zenon DEF EndDownload
      <4> QED BY <3>1, <4>1, Zenon
    <3>3. CASE StartDownload \/ \E stage \in InFlight : Report(stage)
      BY <3>3 DEF StartDownload, Report, TypeOK, RegistryOK
    <3> QED BY <1>4, <3>2, <3>3
  <2> QED BY <2>2, <2>3
<1>5. ASSUME Exit \/ Crash \/ RecoverFails
      PROVE  job'[r].status = "failed"
  BY <1>5 DEF Exit, Crash, RecoverFails, Ends, PowerOff, NoObjects, Uncreated
<1>6. ASSUME ConvertInterrupted
      PROVE  job'[r].status \in {"ready", "failed"}
  BY <1>6 DEF ConvertInterrupted, TypeOK, RegistryOK, Job
<1>7. ASSUME ReleaseDownload \/ Close \/ Boot \/ (\E w \in Workers : Sleep(w))
             \/ \E q \in Runs : PickDownload(q)
      PROVE  UNCHANGED job
  BY <1>7 DEF ReleaseDownload, Close, Boot, Sleep, PickDownload, Moves, pcFrame, regVars
<1>8. ~Recover
  BY <1>1 DEF Recover
<1> QED BY <1>2, <1>3, <1>4, <1>5, <1>6, <1>7, <1>8, CalmOrNot

\* No late report or title fetch revives a finished download: a ready job is
\* reported failed before it is queued, or in the pipeline, again.
THEOREM ReadyIsNotRevived == Spec => ReadyLeavesThroughFailed
<1>1. TypeOK /\ Identity /\ Ownership /\ Scheduling /\ [Next]_vars =>
        [\A r \in Runs : job[r].status = "ready" /\ job'[r].status # "ready"
                           => job'[r].status = "failed"]_vars
  BY ReadyNext
<1> QED BY <1>1, TypeCorrect, IdentityCorrect, OwnershipCorrect, SchedulingCorrect, PTL
        DEF Spec, ReadyLeavesThroughFailed

=============================================================================
