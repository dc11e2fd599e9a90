--------------------------- MODULE ManagerProofs ---------------------------
(***************************************************************************)
(* Type correctness of the job manager, for any number of videos, clients, *)
(* title workers and job objects.                                          *)
(*                                                                         *)
(* TypeOK is almost inductive: only the attempt counter of a title fetch   *)
(* needs help, because the increment happens when the retry delay elapses, *)
(* two steps after the comparison.  RetriesLeft carries the comparison     *)
(* over the delay.  The module first types the pieces steps are made of,   *)
(* then every operation (one lemma each, one step for each part of TypeOK  *)
(* the operation touches), and puts them together with StepCases, the flat *)
(* list of the operations, which the other proof modules use as well.      *)
(***************************************************************************)
EXTENDS ManagerProperties, FiniteSetTheorems, TLAPS

\* A title worker that waits to retry has an attempt left to make.
RetriesLeft == \A t \in TitleWorkers :
                 pc[t] \in {"pause", "backoff"} => attempt[t] < TitleAttempts

-----------------------------------------------------------------------------
(* Directories, records and job objects. *)

LEMMA WrittenTyped ==
  ASSUME NEW d \in Dir, NEW m \in Meta PROVE Written(d, m) \in Dir
  BY DEF Written, Dir

LEMMA FailedSavesTyped ==
  ASSUME NEW d \in Dir, NEW m \in Meta PROVE FailedSaves(d, m) \subseteq Dir
  BY WrittenTyped DEF FailedSaves, Dir

LEMMA ConstantsTyped == NoMeta \in Meta /\ NoDir \in Dir /\ Uncreated \in Job
  BY BoundsAssumption
  DEF NoMeta, NoDir, Meta, Dir, MaybeRun, NoRun, Statuses, Uncreated, Job, Seqs

LEMMA PartialTyped ==
  ASSUME NEW d \in Dir PROVE PartialRemovals(d) \subseteq Dir
<1>1. d.meta \in Meta /\ d.dir \in BOOLEAN /\ d.video \in BOOLEAN
  BY DEF Dir
<1> QED BY <1>1, ConstantsTyped DEF PartialRemovals, Dir

LEMMA StatusTyped ==
  ASSUME job \in [Runs -> Job], NEW r \in Runs, NEW s \in Statuses
  PROVE  [job EXCEPT ![r].status = s] \in [Runs -> Job]
  BY DEF Job

\* A result brings a status, and perhaps a title; a fetch only a title.
LEMMA TitledTyped ==
  ASSUME job \in [Runs -> Job], NEW r \in Runs, NEW s \in Statuses, NEW b \in BOOLEAN
  PROVE  /\ [job EXCEPT ![r].titled = b] \in [Runs -> Job]
         /\ [job EXCEPT ![r].status = s, ![r].titled = @ \/ b] \in [Runs -> Job]
<1>1. (job[r].titled \/ b) \in BOOLEAN
  OBVIOUS
<1> QED BY <1>1 DEF Job

LEMMA SpawnSaveTyped ==
  ASSUME SavesOK, NEW r \in Runs, SpawnSave(r), UNCHANGED <<saveMu, snap>>
  PROVE  SavesOK'
  BY BoundsAssumption DEF SavesOK, SpawnSave

LEMMA RequeueTyped ==
  ASSUME RegistryOK, FlagsOK, SavesOK, NEW r \in Runs, requeueLocked(r)
  PROVE  /\ UNCHANGED <<jobs, created, removed>> => RegistryOK'
         /\ UNCHANGED <<active, fetching, deleting>> => FlagsOK'
         /\ UNCHANGED <<saveMu, snap>> => SavesOK'
<1>1. lastSeq' \in Seqs
  BY BoundsAssumption DEF RegistryOK, requeueLocked, Seqs
<1>2. job' \in [Runs -> Job]
  BY <1>1 DEF RegistryOK, requeueLocked, Job, Statuses, Unfinished
<1> QED BY <1>1, <1>2, SpawnSaveTyped DEF RegistryOK, FlagsOK, requeueLocked

-----------------------------------------------------------------------------
(* Goroutines. *)

LEMMA LabelsTyped ==
  /\ FreeLabels \subseteq Labels
  /\ "idle" \in FreeLabels /\ "waiting" \in FreeLabels /\ "exited" \in FreeLabels
  /\ "listing" \in FreeLabels /\ "draining" \in FreeLabels
  /\ "saving" \in FreeLabels /\ "closed" \in FreeLabels
  /\ "picked" \in Labels /\ "saveStart" \in Labels /\ "writeStart" \in Labels
  /\ "save" \in Labels /\ "write" \in Labels /\ "mark" \in Labels
  /\ "prepare" \in Labels /\ "prepared" \in Labels /\ "downloading" \in Labels
  /\ "processing" \in Labels /\ "verifying" \in Labels /\ "publish" \in Labels
  /\ "succeeded" \in Labels /\ "errored" \in Labels /\ "canceled" \in Labels
  /\ "release" \in Labels /\ "fetch" \in Labels /\ "fetched" \in Labels
  /\ "rejected" \in Labels /\ "erred" \in Labels /\ "pause" \in Labels
  /\ "backoff" \in Labels /\ "giveUp" \in Labels /\ "finalize" \in Labels
  /\ "remove" \in Labels /\ "unregister" \in Labels /\ "stuck" \in Labels
  /\ "awaitSubmit" \in Labels /\ "awaitDelete" \in Labels
  /\ "resubmit" \in Labels /\ "downgrade" \in Labels
  BY DEF Labels, FreeLabels

LEMMA MayBeNoRun == NoRun \in MaybeRun /\ Runs \subseteq MaybeRun
  BY BoundsAssumption DEF NoRun, MaybeRun, Runs

\* A goroutine goes to another label, perhaps waking the sleeping workers.
LEMMA GotoTyped ==
  ASSUME ProcsOK, NEW p \in Procs, NEW to \in Labels, Goto(p, to) \/ WakeGoto(p, to)
  PROVE  /\ pc' \in [Procs -> Labels] /\ pc'[p] = to
         /\ \A q \in Procs \ {p} : pc'[q] \notin FreeLabels => pc'[q] = pc[q]
<1>1. Woken \in [Procs -> Labels]
  BY LabelsTyped DEF ProcsOK, Woken
<1>2. CASE Goto(p, to)
  BY <1>2 DEF ProcsOK, Goto
<1>3. CASE WakeGoto(p, to)
  <2>1. \A q \in Procs : Woken[q] \notin FreeLabels => Woken[q] = pc[q]
    BY LabelsTyped DEF Woken
  <2> QED BY <1>1, <1>3, <2>1 DEF WakeGoto
<1> QED BY <1>2, <1>3

\* ... keeping the job it works on, or letting go of it at a free label.
LEMMA MoveTyped ==
  ASSUME ProcsOK, NEW p \in Procs, NEW to \in Labels, Goto(p, to) \/ WakeGoto(p, to),
         own' = own, to \in FreeLabels \/ own[p] \in Runs,
         todo' \in [Clients \union {closer} -> SUBSET Runs]
  PROVE  ProcsOK'
<1>1. \A q \in Procs : pc'[q] \notin FreeLabels => own'[q] \in Runs
  BY GotoTyped DEF ProcsOK
<1> QED BY <1>1, GotoTyped DEF ProcsOK

LEMMA LetGoTyped ==
  ASSUME ProcsOK, NEW p \in Procs, NEW to \in FreeLabels, Goto(p, to) \/ WakeGoto(p, to),
         Unowned(p), todo' \in [Clients \union {closer} -> SUBSET Runs]
  PROVE  ProcsOK'
<1>1. to \in Labels /\ own' \in [Procs -> MaybeRun]
  BY LabelsTyped, MayBeNoRun DEF Unowned, ProcsOK
<1>2. \A q \in Procs : pc'[q] \notin FreeLabels => own'[q] \in Runs
  BY <1>1, GotoTyped DEF ProcsOK, Unowned
<1> QED BY <1>1, <1>2, GotoTyped DEF ProcsOK

LEMMA TakeTyped ==
  ASSUME ProcsOK, NEW p \in Procs, NEW to \in Labels, Goto(p, to) \/ WakeGoto(p, to),
         NEW r \in Runs, own' = [own EXCEPT ![p] = r],
         todo' \in [Clients \union {closer} -> SUBSET Runs]
  PROVE  ProcsOK'
<1>1. own' \in [Procs -> MaybeRun]
  BY MayBeNoRun DEF ProcsOK
<1>2. \A q \in Procs : pc'[q] \notin FreeLabels => own'[q] \in Runs
  BY <1>1, GotoTyped DEF ProcsOK
<1> QED BY <1>1, <1>2, GotoTyped DEF ProcsOK

LEMMA AnswerTyped ==
  ASSUME ProcsOK, NEW p \in Procs, NEW r \in Runs, AnswerWaiters(p, r), UNCHANGED todo
  PROVE  ProcsOK'
<1>1. pc' \in [Procs -> Labels]
  BY LabelsTyped DEF ProcsOK, AnswerWaiters
<1>2. own' \in [Procs -> MaybeRun]
  BY MayBeNoRun DEF ProcsOK, AnswerWaiters
<1>3. ASSUME NEW q \in Procs, pc'[q] \notin FreeLabels PROVE own'[q] \in Runs
  BY <1>3 DEF ProcsOK, AnswerWaiters, FreeLabels, Waiting
<1> QED BY <1>1, <1>2, <1>3 DEF ProcsOK

-----------------------------------------------------------------------------
(* Storage, and the life of the process. *)

LEMMA FaultTyped ==
  ASSUME StorageOK, Fault
  PROVE  left' \in [restarts : 0..MaxRestarts, faults : 0..MaxFaults, vanish : 0..MaxVanish]
  BY BoundsAssumption DEF StorageOK, Fault

LEMMA RegistryTyped ==
  ASSUME RegistryOK PROVE Registry \subseteq Runs
  BY DEF RegistryOK, Registry, Runs, MaybeRun, NoRun

LEMMA MetaTyped ==
  ASSUME RegistryOK, NEW r \in Runs PROVE MetaOf(r) \in Meta
  BY MayBeNoRun DEF RegistryOK, MetaOf, Meta, Job

\* A snapshot is written, wholly or in part.
LEMMA StoreTyped ==
  ASSUME StorageOK, SavesOK, NEW r \in Runs, Stores(r) \/ FailsToStore(r)
  PROVE  StorageOK'
<1>1. snap[r] \in Meta
  BY DEF SavesOK
<1>2. CASE Stores(r)
  BY <1>1, <1>2, WrittenTyped DEF StorageOK, Stores
<1>3. CASE FailsToStore(r)
  <2>1. \A i \in Ids : FailedSaves(disk[i], snap[r]) \subseteq Dir
    BY <1>1, FailedSavesTyped DEF StorageOK
  <2> QED BY <1>3, <2>1, FaultTyped DEF StorageOK, FailsToStore
<1> QED BY <1>2, <1>3

LEMMA RestartTyped ==
  ASSUME StorageOK, Restart
  PROVE  left' \in [restarts : 0..MaxRestarts, faults : 0..MaxFaults, vanish : 0..MaxVanish]
  BY BoundsAssumption DEF StorageOK, Restart

\* A crash leaves a directory whose files are whole or missing.
LEMMA TornTyped ==
  ASSUME StorageOK, SavesOK, NEW i \in Ids
  PROVE  Torn(i) \subseteq Dir
<1>1. disk[i] \in Dir /\ PartialRemovals(disk[i]) \subseteq Dir
  BY PartialTyped DEF StorageOK
<1>2. \A r \in Runs : FailedSaves(disk[i], snap[r]) \subseteq Dir
  BY <1>1, FailedSavesTyped DEF SavesOK
<1>3. [disk[i] EXCEPT !.dir = TRUE] \in Dir
  BY <1>1 DEF Dir
<1>4. HalfSaved(i) \subseteq Dir
  BY <1>2 DEF HalfSaved
<1> QED BY <1>1, <1>3, <1>4 DEF Torn, HalfRemoved, HalfSubmitted

\* The memory a process starts with.
LEMMA PowerOffTyped ==
  ASSUME RegistryOK, PowerOff
  PROVE  RegistryOK' /\ FlagsOK' /\ ProcsOK' /\ FetchesOK' /\ SavesOK'
<1>1. RegistryOK'
  BY BoundsAssumption, MayBeNoRun, ConstantsTyped
  DEF RegistryOK, PowerOff, NoJobs, NoObjects, Seqs
<1>2. FlagsOK'
  BY DEF FlagsOK, PowerOff
<1>3. ProcsOK'
  BY MayBeNoRun, LabelsTyped DEF ProcsOK, PowerOff, AllIdle, AllUnowned, NothingToDo
<1>4. FetchesOK'
  BY BoundsAssumption DEF FetchesOK, PowerOff, NoContexts, NoFetches, Seqs
<1>5. SavesOK'
  BY BoundsAssumption, ConstantsTyped
  DEF SavesOK, PowerOff, AllUnlocked, NoSnapshots, NonePending
<1> QED BY <1>1, <1>2, <1>3, <1>4, <1>5

-----------------------------------------------------------------------------
(* The operations. *)

LEMMA SubmitAnsweredTyped ==
  ASSUME TypeOK, NEW c \in Clients, NEW i \in Ids, SubmitAnswered(c, i)
  PROVE  TypeOK'
<1>1. ProcsOK'
  BY LabelsTyped, LetGoTyped DEF TypeOK, ProcsOK, SubmitAnswered, Procs, ownFrame
<1>2. RegistryOK' /\ FlagsOK' /\ FetchesOK' /\ SavesOK' /\ StorageOK' /\ UNCHANGED lifeVars
  BY DEF TypeOK, SubmitAnswered, ownFrame, RegistryOK, regVars, FlagsOK, flagVars,
         FetchesOK, fetchVars, SavesOK, saveVars, StorageOK, lifeVars
<1>3. QED BY <1>1, <1>2 DEF TypeOK, lifeVars

LEMMA SubmitWaitsTyped ==
  ASSUME TypeOK, NEW c \in Clients, NEW i \in Ids, SubmitWaits(c, i)
  PROVE  TypeOK'
<1>1. jobs[i] \in Runs
  BY DEF TypeOK, RegistryOK, FlagsOK, SubmitWaits, BeingDeleted
<1>2. ProcsOK'
  BY <1>1, LabelsTyped, TakeTyped
  DEF TypeOK, ProcsOK, SubmitWaits, Procs, Workers, ownFrame
<1>3. RegistryOK' /\ FlagsOK' /\ FetchesOK' /\ SavesOK' /\ StorageOK' /\ UNCHANGED lifeVars
  BY DEF TypeOK, SubmitWaits, ownFrame, RegistryOK, regVars, FlagsOK, flagVars,
         FetchesOK, fetchVars, SavesOK, saveVars, StorageOK, lifeVars
<1>4. QED BY <1>2, <1>3 DEF TypeOK, lifeVars

LEMMA SubmitRequeuesTyped ==
  ASSUME TypeOK, NEW c \in Clients, NEW i \in Ids, SubmitRequeues(c, i)
  PROVE  TypeOK'
<1>1. jobs[i] \in Runs
  BY DEF TypeOK, RegistryOK, SubmitRequeues, Requeueable, BeingDeleted, Runs, MaybeRun,
         NoRun
<1>2. RegistryOK'
  BY <1>1, RequeueTyped DEF TypeOK, RegistryOK, SubmitRequeues
<1>3. FlagsOK'
  BY <1>1, RequeueTyped DEF TypeOK, FlagsOK, SubmitRequeues
<1>4. ProcsOK'
  BY <1>1, LabelsTyped, LetGoTyped DEF TypeOK, ProcsOK, SubmitRequeues, Procs, ownFrame
<1>5. SavesOK'
  BY <1>1, RequeueTyped DEF TypeOK, SavesOK, SubmitRequeues
<1>6. FetchesOK' /\ StorageOK' /\ UNCHANGED lifeVars
  BY DEF TypeOK, SubmitRequeues, FetchesOK, fetchVars, StorageOK, lifeVars
<1>7. QED BY <1>2, <1>3, <1>4, <1>5, <1>6 DEF TypeOK, lifeVars

LEMMA RetryTyped ==
  ASSUME TypeOK, NEW c \in Clients, NEW i \in Ids, Retry(c, i)
  PROVE  TypeOK'
<1>1. jobs[i] \in Runs
  BY DEF TypeOK, RegistryOK, Retry, Requeueable, BeingDeleted, Runs, MaybeRun, NoRun
<1>2. RegistryOK'
  BY <1>1, RequeueTyped DEF TypeOK, RegistryOK, Retry
<1>3. FlagsOK'
  BY <1>1, RequeueTyped DEF TypeOK, FlagsOK, Retry
<1>4. ProcsOK'
  BY <1>1, LabelsTyped, MoveTyped DEF TypeOK, ProcsOK, Retry, Procs, Workers, pcFrame
<1>5. SavesOK'
  BY <1>1, RequeueTyped DEF TypeOK, SavesOK, Retry
<1>6. FetchesOK' /\ StorageOK' /\ UNCHANGED lifeVars
  BY DEF TypeOK, Retry, FetchesOK, fetchVars, StorageOK, lifeVars
<1>7. QED BY <1>2, <1>3, <1>4, <1>5, <1>6 DEF TypeOK, lifeVars

LEMMA SubmitNewTyped ==
  ASSUME TypeOK, NEW c \in Clients, NEW i \in Ids, SubmitNew(c, i)
  PROVE  TypeOK'
<1>1. created + 1 \in Runs /\ lastSeq + 1 \in Seqs
  BY BoundsAssumption
  DEF TypeOK, RegistryOK, SubmitNew, Admissible, Runs, MaybeRun, Seqs
<1>2. RegistryOK'
  BY <1>1, BoundsAssumption, MayBeNoRun
  DEF TypeOK, RegistryOK, SubmitNew, NewJob, Job, Statuses, Unfinished, Runs, MaybeRun
<1>3. ProcsOK'
  BY <1>1, LabelsTyped, LetGoTyped DEF TypeOK, ProcsOK, SubmitNew, Procs, ownFrame
<1>4. StorageOK'
  <2>1. NewMeta \in Meta
    BY <1>1, MayBeNoRun DEF NewMeta, Meta, Statuses, Unfinished
  <2> QED BY <2>1, WrittenTyped DEF TypeOK, StorageOK, SubmitNew, NewDir
<1>5. FlagsOK' /\ FetchesOK' /\ SavesOK' /\ UNCHANGED lifeVars
  BY DEF TypeOK, SubmitNew, FlagsOK, flagVars, FetchesOK, fetchVars, SavesOK, saveVars,
         lifeVars
<1>6. QED BY <1>2, <1>3, <1>4, <1>5 DEF TypeOK, lifeVars

LEMMA SubmitUnsavedTyped ==
  ASSUME TypeOK, NEW c \in Clients, NEW i \in Ids, SubmitUnsaved(c, i)
  PROVE  TypeOK'
<1>1. created + 1 \in Runs /\ lastSeq + 1 \in Seqs
  BY BoundsAssumption
  DEF TypeOK, RegistryOK, SubmitUnsaved, Admissible, Runs, MaybeRun, Seqs
<1>2. RegistryOK'
  BY <1>1, BoundsAssumption, MayBeNoRun
  DEF TypeOK, RegistryOK, SubmitUnsaved, NewJob, Job, Statuses, Unfinished, Runs,
      MaybeRun
<1>3. ProcsOK'
  BY <1>1, LabelsTyped, LetGoTyped DEF TypeOK, ProcsOK, SubmitUnsaved, Procs, ownFrame
<1>4. StorageOK'
  <2>1. NewMeta \in Meta
    BY <1>1, MayBeNoRun DEF NewMeta, Meta, Statuses, Unfinished
  <2>2. FailedSaves(disk[i], NewMeta) \subseteq Dir
    BY <2>1, FailedSavesTyped DEF TypeOK, StorageOK
  <2> QED BY <2>2, FaultTyped DEF TypeOK, StorageOK, SubmitUnsaved
<1>5. FlagsOK' /\ FetchesOK' /\ SavesOK' /\ UNCHANGED lifeVars
  BY DEF TypeOK, SubmitUnsaved, FlagsOK, flagVars, FetchesOK, fetchVars, SavesOK,
         saveVars, lifeVars
<1>6. QED BY <1>2, <1>3, <1>4, <1>5 DEF TypeOK, lifeVars

LEMMA DeleteTyped ==
  ASSUME TypeOK, NEW c \in Clients, NEW i \in Ids, Delete(c, i)
  PROVE  TypeOK'
<1>1. jobs[i] \in Runs
  BY DEF TypeOK, RegistryOK, Delete, Runs, MaybeRun, NoRun
<1>2. FlagsOK'
  BY <1>1 DEF TypeOK, FlagsOK, Delete
<1>3. ProcsOK'
  BY <1>1, LabelsTyped, TakeTyped DEF TypeOK, ProcsOK, Delete, Procs, Workers, ownFrame
<1>4. RegistryOK' /\ FetchesOK' /\ SavesOK' /\ StorageOK' /\ UNCHANGED lifeVars
  BY DEF TypeOK, Delete, RegistryOK, regVars, FetchesOK, fetchVars, SavesOK, saveVars,
         StorageOK, lifeVars
<1>5. QED BY <1>2, <1>3, <1>4 DEF TypeOK, lifeVars

LEMMA WaitTimesOutTyped ==
  ASSUME TypeOK, NEW c \in Clients, WaitTimesOut(c)
  PROVE  TypeOK'
<1>1. ProcsOK'
  BY LabelsTyped, LetGoTyped DEF TypeOK, ProcsOK, WaitTimesOut, Procs, ownFrame
<1>2. RegistryOK' /\ FlagsOK' /\ FetchesOK' /\ SavesOK' /\ StorageOK' /\ UNCHANGED lifeVars
  BY DEF TypeOK, WaitTimesOut, ownFrame, RegistryOK, regVars, FlagsOK, flagVars,
         FetchesOK, fetchVars, SavesOK, saveVars, StorageOK, lifeVars
<1>3. QED BY <1>1, <1>2 DEF TypeOK, lifeVars

LEMMA ListTyped ==
  ASSUME TypeOK, NEW c \in Clients, List(c)
  PROVE  TypeOK'
<1>1. ProcsOK'
  BY LabelsTyped, MoveTyped, RegistryTyped DEF TypeOK, ProcsOK, List, RegistryOK, Procs
<1>2. RegistryOK' /\ FlagsOK' /\ FetchesOK' /\ SavesOK' /\ StorageOK' /\ UNCHANGED lifeVars
  BY DEF TypeOK, List, RegistryOK, regVars, FlagsOK, flagVars, FetchesOK, fetchVars,
         SavesOK, saveVars, StorageOK, lifeVars
<1>3. QED BY <1>1, <1>2 DEF TypeOK, lifeVars

LEMMA StatFindsTyped ==
  ASSUME TypeOK, NEW c \in Clients, NEW r \in Runs, StatFinds(c, r)
  PROVE  TypeOK'
<1>1. ProcsOK'
  BY LabelsTyped, MoveTyped DEF TypeOK, ProcsOK, StatFinds, Procs, ListNext
<1>2. RegistryOK' /\ FlagsOK' /\ FetchesOK' /\ SavesOK' /\ StorageOK' /\ UNCHANGED lifeVars
  BY DEF TypeOK, StatFinds, RegistryOK, regVars, FlagsOK, flagVars, FetchesOK,
         fetchVars, SavesOK, saveVars, StorageOK, lifeVars
<1>3. QED BY <1>1, <1>2 DEF TypeOK, lifeVars

LEMMA StatMissesTyped ==
  ASSUME TypeOK, NEW c \in Clients, NEW r \in Runs, StatMisses(c, r)
  PROVE  TypeOK'
<1>1. ProcsOK'
  BY LabelsTyped, TakeTyped DEF TypeOK, ProcsOK, StatMisses, Procs
<1>2. StorageOK'
  BY FaultTyped DEF TypeOK, StorageOK, StatMisses
<1>3. RegistryOK' /\ FlagsOK' /\ FetchesOK' /\ SavesOK' /\ UNCHANGED lifeVars
  BY DEF TypeOK, StatMisses, RegistryOK, regVars, FlagsOK, flagVars, FetchesOK,
         fetchVars, SavesOK, saveVars, lifeVars
<1>4. QED BY <1>1, <1>2, <1>3 DEF TypeOK, lifeVars

LEMMA DowngradeTyped ==
  ASSUME TypeOK, NEW c \in Clients, Downgrade(c)
  PROVE  TypeOK'
<1>1. own[c] \in Runs
  BY DEF TypeOK, ProcsOK, FreeLabels, Procs, Workers, Downgrade
<1>2. RegistryOK'
  BY <1>1, StatusTyped DEF TypeOK, RegistryOK, Downgrade, Statuses
<1>3. ProcsOK'
  BY <1>1, LabelsTyped, LetGoTyped DEF TypeOK, ProcsOK, Downgrade, Procs, ListNext
<1>4. SavesOK'
  BY <1>1, SpawnSaveTyped DEF TypeOK, SavesOK, Downgrade, saveVars
<1>5. FlagsOK' /\ FetchesOK' /\ StorageOK' /\ UNCHANGED lifeVars
  BY DEF TypeOK, Downgrade, FlagsOK, flagVars, FetchesOK, fetchVars, StorageOK, lifeVars
<1>6. QED BY <1>2, <1>3, <1>4, <1>5 DEF TypeOK, lifeVars

LEMMA BeginSaveTyped ==
  ASSUME TypeOK, NEW p \in Procs, BeginSave(p)
  PROVE  TypeOK'
<1>1. own[p] \in Runs
  BY DEF TypeOK, ProcsOK, FreeLabels, Procs, Workers, BeginSave
<1>2. ProcsOK'
  BY <1>1, LabelsTyped, MoveTyped DEF TypeOK, ProcsOK, BeginSave
<1>3. SavesOK'
  BY <1>1, MetaTyped DEF TypeOK, SavesOK, BeginSave, RegistryOK, Lock, Snapshot
<1>4. RegistryOK' /\ FlagsOK' /\ FetchesOK' /\ StorageOK' /\ UNCHANGED lifeVars
  BY DEF TypeOK, BeginSave, RegistryOK, regVars, FlagsOK, flagVars, FetchesOK,
         fetchVars, StorageOK, lifeVars
<1>5. QED BY <1>2, <1>3, <1>4 DEF TypeOK, lifeVars

LEMMA SkipSaveTyped ==
  ASSUME TypeOK, NEW p \in Procs, SkipSave(p)
  PROVE  TypeOK'
<1>1. own[p] \in Runs
  BY DEF TypeOK, ProcsOK, FreeLabels, Procs, Workers, SkipSave, Moves
<1>2. ProcsOK'
  BY <1>1, LabelsTyped, MoveTyped DEF TypeOK, ProcsOK, SkipSave, Moves, Saved, pcFrame
<1>3. RegistryOK' /\ FlagsOK' /\ FetchesOK' /\ SavesOK' /\ StorageOK' /\ UNCHANGED lifeVars
  BY DEF TypeOK, SkipSave, Moves, pcFrame, RegistryOK, regVars, FlagsOK, flagVars,
         FetchesOK, fetchVars, SavesOK, saveVars, StorageOK, lifeVars
<1>4. QED BY <1>2, <1>3 DEF TypeOK, lifeVars

LEMMA EndSaveTyped ==
  ASSUME TypeOK, NEW p \in Procs, EndSave(p)
  PROVE  TypeOK'
<1>1. own[p] \in Runs
  BY DEF TypeOK, ProcsOK, FreeLabels, Procs, Workers, EndSave
<1>2. ProcsOK'
  BY <1>1, LabelsTyped, MoveTyped DEF TypeOK, ProcsOK, EndSave, Saved, Unsaved
<1>3. SavesOK'
  BY <1>1, ConstantsTyped DEF TypeOK, SavesOK, EndSave, Unlock, Forget
<1>4. StorageOK'
  BY <1>1, StoreTyped DEF TypeOK, StorageOK, EndSave, SavesOK, RegistryOK
<1>5. RegistryOK' /\ FlagsOK' /\ FetchesOK' /\ UNCHANGED lifeVars
  BY DEF TypeOK, EndSave, RegistryOK, regVars, FlagsOK, flagVars, FetchesOK, fetchVars,
         lifeVars
<1>6. QED BY <1>2, <1>3, <1>4, <1>5 DEF TypeOK, lifeVars

LEMMA BeginAsyncSaveTyped ==
  ASSUME TypeOK, NEW r \in Runs, BeginAsyncSave(r)
  PROVE  TypeOK'
<1>1. SavesOK'
  BY BoundsAssumption, MetaTyped
  DEF TypeOK, SavesOK, BeginAsyncSave, RegistryOK, Lock, Snapshot
<1>2. RegistryOK' /\ FlagsOK' /\ ProcsOK' /\ FetchesOK' /\ StorageOK' /\ UNCHANGED lifeVars
  BY DEF TypeOK, BeginAsyncSave, RegistryOK, regVars, FlagsOK, flagVars, ProcsOK,
         procVars, FetchesOK, fetchVars, StorageOK, lifeVars
<1>3. QED BY <1>1, <1>2 DEF TypeOK, lifeVars

LEMMA EndAsyncSaveTyped ==
  ASSUME TypeOK, NEW r \in Runs, EndAsyncSave(r)
  PROVE  TypeOK'
<1>1. SavesOK'
  BY ConstantsTyped DEF TypeOK, SavesOK, EndAsyncSave, Unlock, Forget
<1>2. StorageOK'
  BY StoreTyped DEF TypeOK, StorageOK, EndAsyncSave, SavesOK, RegistryOK
<1>3. RegistryOK' /\ FlagsOK' /\ ProcsOK' /\ FetchesOK' /\ UNCHANGED lifeVars
  BY DEF TypeOK, EndAsyncSave, RegistryOK, regVars, FlagsOK, flagVars, ProcsOK,
         procVars, FetchesOK, fetchVars, lifeVars
<1>4. QED BY <1>1, <1>2, <1>3 DEF TypeOK, lifeVars

LEMMA MarkTyped ==
  ASSUME TypeOK, NEW w \in Workers, Mark(w)
  PROVE  TypeOK'
<1>1. own[w] \in Runs
  BY DEF TypeOK, ProcsOK, FreeLabels, Procs, Workers, Mark
<1>2. RegistryOK'
  BY <1>1, StatusTyped DEF TypeOK, RegistryOK, Mark, Statuses, jobFrame
<1>3. ProcsOK'
  BY <1>1, LabelsTyped, MoveTyped DEF TypeOK, ProcsOK, Mark, Procs, Workers, jobFrame
<1>4. FlagsOK' /\ FetchesOK' /\ SavesOK' /\ StorageOK' /\ UNCHANGED lifeVars
  BY DEF TypeOK, Mark, jobFrame, FlagsOK, flagVars, FetchesOK, fetchVars, SavesOK,
         saveVars, StorageOK, lifeVars
<1>5. QED BY <1>2, <1>3, <1>4 DEF TypeOK, lifeVars

LEMMA SleepTyped ==
  ASSUME TypeOK, NEW w \in Workers, Sleep(w)
  PROVE  TypeOK'
<1>1. ProcsOK'
  BY LabelsTyped, MoveTyped DEF TypeOK, ProcsOK, Sleep, Moves, Procs, Workers, pcFrame
<1>2. RegistryOK' /\ FlagsOK' /\ FetchesOK' /\ SavesOK' /\ StorageOK' /\ UNCHANGED lifeVars
  BY DEF TypeOK, Sleep, Moves, pcFrame, RegistryOK, regVars, FlagsOK, flagVars,
         FetchesOK, fetchVars, SavesOK, saveVars, StorageOK, lifeVars
<1>3. QED BY <1>1, <1>2 DEF TypeOK, lifeVars

LEMMA ExitWorkerTyped ==
  ASSUME TypeOK, NEW w \in Workers, ExitWorker(w)
  PROVE  TypeOK'
<1>1. ProcsOK'
  BY LabelsTyped, MoveTyped
  DEF TypeOK, ProcsOK, ExitWorker, Moves, Procs, Workers, pcFrame
<1>2. RegistryOK' /\ FlagsOK' /\ FetchesOK' /\ SavesOK' /\ StorageOK' /\ UNCHANGED lifeVars
  BY DEF TypeOK, ExitWorker, Moves, pcFrame, RegistryOK, regVars, FlagsOK, flagVars,
         FetchesOK, fetchVars, SavesOK, saveVars, StorageOK, lifeVars
<1>3. QED BY <1>1, <1>2 DEF TypeOK, lifeVars

LEMMA PickDownloadTyped ==
  ASSUME TypeOK, NEW r \in Runs, PickDownload(r)
  PROVE  TypeOK'
<1>1. FlagsOK'
  BY DEF TypeOK, FlagsOK, PickDownload
<1>2. ProcsOK'
  BY LabelsTyped, TakeTyped DEF TypeOK, ProcsOK, PickDownload, Procs, Workers, ownFrame
<1>3. RegistryOK' /\ FetchesOK' /\ SavesOK' /\ StorageOK' /\ UNCHANGED lifeVars
  BY DEF TypeOK, PickDownload, RegistryOK, regVars, FetchesOK, fetchVars, SavesOK,
         saveVars, StorageOK, lifeVars
<1>4. QED BY <1>1, <1>2, <1>3 DEF TypeOK, lifeVars

LEMMA StartDownloadTyped ==
  ASSUME TypeOK, StartDownload
  PROVE  TypeOK'
<1>1. own[dw] \in Runs
  BY DEF TypeOK, ProcsOK, FreeLabels, Procs, Workers, StartDownload
<1>2. RegistryOK'
  BY <1>1, StatusTyped
  DEF TypeOK, RegistryOK, StartDownload, Statuses, Unfinished, InFlight
<1>3. ProcsOK'
  BY <1>1, LabelsTyped, MoveTyped
  DEF TypeOK, ProcsOK, StartDownload, Procs, Workers, pcFrame
<1>4. FetchesOK'
  <2>1. job[own[dw]].seq \in Seqs
    BY <1>1 DEF TypeOK, RegistryOK, Job
  <2> QED BY <2>1 DEF TypeOK, FetchesOK, StartDownload
<1>5. FlagsOK' /\ SavesOK' /\ StorageOK' /\ UNCHANGED lifeVars
  BY DEF TypeOK, StartDownload, FlagsOK, flagVars, SavesOK, saveVars, StorageOK,
         lifeVars
<1>6. QED BY <1>2, <1>3, <1>4, <1>5 DEF TypeOK, lifeVars

LEMMA MakeWorkTyped ==
  ASSUME TypeOK, MakeWork
  PROVE  TypeOK'
<1>1. own[dw] \in Runs
  BY DEF TypeOK, ProcsOK, FreeLabels, Procs, Workers, MakeWork
<1>2. ProcsOK'
  BY <1>1, LabelsTyped, MoveTyped DEF TypeOK, ProcsOK, MakeWork, Procs, Workers, pcFrame
<1>3. StorageOK'
  BY <1>1 DEF TypeOK, StorageOK, MakeWork, Dir
<1>4. RegistryOK' /\ FlagsOK' /\ FetchesOK' /\ SavesOK' /\ UNCHANGED lifeVars
  BY DEF TypeOK, MakeWork, RegistryOK, regVars, FlagsOK, flagVars, FetchesOK, fetchVars,
         SavesOK, saveVars, lifeVars
<1>5. QED BY <1>2, <1>3, <1>4 DEF TypeOK, lifeVars

LEMMA ReportTyped ==
  ASSUME TypeOK, NEW stage \in InFlight, Report(stage)
  PROVE  TypeOK'
<1>1. own[dw] \in Runs
  BY DEF TypeOK, ProcsOK, FreeLabels, Procs, Workers, Report, NextStages
<1>2. RegistryOK'
  BY <1>1, StatusTyped DEF TypeOK, RegistryOK, Report, Statuses, Unfinished
<1>3. ProcsOK'
  BY <1>1, LabelsTyped, MoveTyped DEF TypeOK, ProcsOK, Report, Procs, Workers, InFlight
<1>4. SavesOK'
  BY <1>1, SpawnSaveTyped DEF TypeOK, SavesOK, Report, saveVars
<1>5. FlagsOK' /\ FetchesOK' /\ StorageOK' /\ UNCHANGED lifeVars
  BY DEF TypeOK, Report, FlagsOK, flagVars, FetchesOK, fetchVars, StorageOK, lifeVars
<1>6. QED BY <1>2, <1>3, <1>4, <1>5 DEF TypeOK, lifeVars

LEMMA CheckContextTyped ==
  ASSUME TypeOK, CheckContext
  PROVE  TypeOK'
<1>1. own[dw] \in Runs
  BY DEF TypeOK, ProcsOK, FreeLabels, Procs, Workers, CheckContext, Moves
<1>2. ProcsOK'
  BY <1>1, LabelsTyped, MoveTyped
  DEF TypeOK, ProcsOK, CheckContext, Moves, pcFrame, Procs, Workers
<1>3. RegistryOK' /\ FlagsOK' /\ FetchesOK' /\ SavesOK' /\ StorageOK' /\ UNCHANGED lifeVars
  BY DEF TypeOK, CheckContext, Moves, pcFrame, RegistryOK, regVars, FlagsOK, flagVars,
         FetchesOK, fetchVars, SavesOK, saveVars, StorageOK, lifeVars
<1>4. QED BY <1>2, <1>3 DEF TypeOK, lifeVars

LEMMA PublishTyped ==
  ASSUME TypeOK, Publish
  PROVE  TypeOK'
<1>1. own[dw] \in Runs
  BY DEF TypeOK, ProcsOK, FreeLabels, Procs, Workers, Publish
<1>2. ProcsOK'
  BY <1>1, LabelsTyped, MoveTyped DEF TypeOK, ProcsOK, Publish, Procs, Workers, pcFrame
<1>3. StorageOK'
  BY <1>1 DEF TypeOK, StorageOK, Publish, Dir
<1>4. RegistryOK' /\ FlagsOK' /\ FetchesOK' /\ SavesOK' /\ UNCHANGED lifeVars
  BY DEF TypeOK, Publish, RegistryOK, regVars, FlagsOK, flagVars, FetchesOK, fetchVars,
         SavesOK, saveVars, lifeVars
<1>5. QED BY <1>2, <1>3, <1>4 DEF TypeOK, lifeVars

LEMMA PublishNothingTyped ==
  ASSUME TypeOK, PublishNothing
  PROVE  TypeOK'
<1>1. own[dw] \in Runs
  BY DEF TypeOK, ProcsOK, FreeLabels, Procs, Workers, PublishNothing
<1>2. ProcsOK'
  BY <1>1, LabelsTyped, MoveTyped
  DEF TypeOK, ProcsOK, PublishNothing, Procs, Workers, pcFrame
<1>3. StorageOK'
  BY <1>1, FaultTyped DEF TypeOK, StorageOK, PublishNothing
<1>4. RegistryOK' /\ FlagsOK' /\ FetchesOK' /\ SavesOK' /\ UNCHANGED lifeVars
  BY DEF TypeOK, PublishNothing, RegistryOK, regVars, FlagsOK, flagVars, FetchesOK,
         fetchVars, SavesOK, saveVars, lifeVars
<1>5. QED BY <1>2, <1>3, <1>4 DEF TypeOK, lifeVars

LEMMA PipelineFailsTyped ==
  ASSUME TypeOK, PipelineFails
  PROVE  TypeOK'
<1>1. own[dw] \in Runs
  BY DEF TypeOK, ProcsOK, FreeLabels, Procs, Workers, PipelineFails, PipelineLabels,
         Moves
<1>2. ProcsOK'
  BY <1>1, LabelsTyped, MoveTyped
  DEF TypeOK, ProcsOK, PipelineFails, Moves, pcFrame, Procs, Workers
<1>3. RegistryOK' /\ FlagsOK' /\ FetchesOK' /\ SavesOK' /\ StorageOK' /\ UNCHANGED lifeVars
  BY DEF TypeOK, PipelineFails, Moves, pcFrame, RegistryOK, regVars, FlagsOK, flagVars,
         FetchesOK, fetchVars, SavesOK, saveVars, StorageOK, lifeVars
<1>4. QED BY <1>2, <1>3 DEF TypeOK, lifeVars

LEMMA PipelineCanceledTyped ==
  ASSUME TypeOK, PipelineCanceled
  PROVE  TypeOK'
<1>1. own[dw] \in Runs
  BY DEF TypeOK, ProcsOK, FreeLabels, Procs, Workers, PipelineCanceled, PipelineLabels,
         Moves
<1>2. ProcsOK'
  BY <1>1, LabelsTyped, MoveTyped
  DEF TypeOK, ProcsOK, PipelineCanceled, Moves, pcFrame, Procs, Workers
<1>3. RegistryOK' /\ FlagsOK' /\ FetchesOK' /\ SavesOK' /\ StorageOK' /\ UNCHANGED lifeVars
  BY DEF TypeOK, PipelineCanceled, Moves, pcFrame, RegistryOK, regVars, FlagsOK,
         flagVars, FetchesOK, fetchVars, SavesOK, saveVars, StorageOK, lifeVars
<1>4. QED BY <1>2, <1>3 DEF TypeOK, lifeVars

LEMMA EndDownloadTyped ==
  ASSUME TypeOK, EndDownload
  PROVE  TypeOK'
<1>1. own[dw] \in Runs
  BY DEF TypeOK, ProcsOK, FreeLabels, Procs, Workers, EndDownload
<1>2. RegistryOK'
  <2> DEFINE status == IF pc[dw] = "succeeded" THEN "ready" ELSE "failed"
  <2>1. status \in Statuses
    BY DEF Statuses
  <2>2. CASE ResultDropped(own[dw])
    BY <2>2 DEF TypeOK, RegistryOK, EndDownload, jobFrame
  <2>3. CASE ~ResultDropped(own[dw])
    <3>1. PICK known \in BOOLEAN :
            job' = [job EXCEPT ![own[dw]].status = status, ![own[dw]].titled = @ \/ known]
      BY <2>3, Zenon DEF EndDownload
    <3>2. job' \in [Runs -> Job]
      BY <1>1, <2>1, <3>1, TitledTyped DEF TypeOK, RegistryOK
    <3> QED BY <3>2 DEF TypeOK, RegistryOK, EndDownload, jobFrame
  <2> QED BY <2>2, <2>3
<1>3. ProcsOK'
  BY <1>1, LabelsTyped, MoveTyped
  DEF TypeOK, ProcsOK, EndDownload, jobFrame, Procs, Workers
<1>4. FlagsOK' /\ FetchesOK' /\ SavesOK' /\ StorageOK' /\ UNCHANGED lifeVars
  BY DEF TypeOK, EndDownload, jobFrame, FlagsOK, flagVars, FetchesOK, fetchVars,
         SavesOK, saveVars, StorageOK, lifeVars
<1>5. QED BY <1>2, <1>3, <1>4 DEF TypeOK, lifeVars

LEMMA ReleaseDownloadTyped ==
  ASSUME TypeOK, ReleaseDownload
  PROVE  TypeOK'
<1>1. own[dw] \in Runs
  BY DEF TypeOK, ProcsOK, FreeLabels, Procs, Workers, ReleaseDownload
<1>2. FlagsOK'
  BY <1>1 DEF TypeOK, FlagsOK, ReleaseDownload
<1>3. ProcsOK'
  BY <1>1, LabelsTyped, MoveTyped, LetGoTyped
  DEF TypeOK, ProcsOK, ReleaseDownload, Procs, Workers
<1>4. FetchesOK'
  BY <1>1, BoundsAssumption DEF TypeOK, FetchesOK, ReleaseDownload, Workers, Seqs
<1>5. RegistryOK' /\ SavesOK' /\ StorageOK' /\ UNCHANGED lifeVars
  BY DEF TypeOK, ReleaseDownload, RegistryOK, regVars, SavesOK, saveVars, StorageOK,
         lifeVars
<1>6. QED BY <1>2, <1>3, <1>4, <1>5 DEF TypeOK, lifeVars

LEMMA PickTitleTyped ==
  ASSUME TypeOK, NEW t \in TitleWorkers, NEW r \in Runs, PickTitle(t, r)
  PROVE  TypeOK'
<1>1. FlagsOK'
  BY DEF TypeOK, FlagsOK, PickTitle
<1>2. ProcsOK'
  BY LabelsTyped, TakeTyped DEF TypeOK, ProcsOK, PickTitle, Procs, Workers, ownFrame
<1>3. RegistryOK' /\ FetchesOK' /\ SavesOK' /\ StorageOK' /\ UNCHANGED lifeVars
  BY DEF TypeOK, PickTitle, RegistryOK, regVars, FetchesOK, fetchVars, SavesOK,
         saveVars, StorageOK, lifeVars
<1>4. QED BY <1>1, <1>2, <1>3 DEF TypeOK, lifeVars

LEMMA StartFetchTyped ==
  ASSUME TypeOK, NEW t \in TitleWorkers, StartFetch(t)
  PROVE  TypeOK'
<1>1. own[t] \in Runs
  BY DEF TypeOK, ProcsOK, FreeLabels, Procs, Workers, StartFetch
<1>2. ProcsOK'
  BY <1>1, LabelsTyped, MoveTyped
  DEF TypeOK, ProcsOK, StartFetch, Procs, Workers, pcFrame
<1>3. FetchesOK'
  <2>1. job[own[t]].seq \in Seqs
    BY <1>1 DEF TypeOK, RegistryOK, Job
  <2>2. 1 \in 0..TitleAttempts
    BY BoundsAssumption
  <2> QED BY <2>1, <2>2 DEF TypeOK, FetchesOK, StartFetch, Workers
<1>4. RegistryOK' /\ FlagsOK' /\ SavesOK' /\ StorageOK' /\ UNCHANGED lifeVars
  BY DEF TypeOK, StartFetch, RegistryOK, regVars, FlagsOK, flagVars, SavesOK, saveVars,
         StorageOK, lifeVars
<1>5. QED BY <1>2, <1>3, <1>4 DEF TypeOK, lifeVars

LEMMA FetchReturnsTyped ==
  ASSUME TypeOK, NEW t \in TitleWorkers, NEW label \in {"fetched", "rejected", "erred"},
         FetchReturns(t, label)
  PROVE  TypeOK'
<1>1. own[t] \in Runs
  BY DEF TypeOK, ProcsOK, FreeLabels, Procs, Workers, FetchReturns, Moves
<1>2. ProcsOK'
  BY <1>1, LabelsTyped, MoveTyped
  DEF TypeOK, ProcsOK, FetchReturns, Moves, pcFrame, Procs, Workers
<1>3. RegistryOK' /\ FlagsOK' /\ FetchesOK' /\ SavesOK' /\ StorageOK' /\ UNCHANGED lifeVars
  BY DEF TypeOK, FetchReturns, Moves, pcFrame, RegistryOK, regVars, FlagsOK, flagVars,
         FetchesOK, fetchVars, SavesOK, saveVars, StorageOK, lifeVars
<1>4. QED BY <1>2, <1>3 DEF TypeOK, lifeVars

LEMMA ApplyTitleTyped ==
  ASSUME TypeOK, NEW t \in TitleWorkers, ApplyTitle(t)
  PROVE  TypeOK'
<1>1. own[t] \in Runs
  BY DEF TypeOK, ProcsOK, FreeLabels, Procs, Workers, ApplyTitle
<1>2. RegistryOK'
  <2> DEFINE missing == Saveable(own[t]) /\ ~job[own[t]].titled
  <2>1. CASE ~missing
    BY <2>1 DEF TypeOK, RegistryOK, ApplyTitle, jobFrame
  <2>2. CASE missing
    <3>1. PICK known \in BOOLEAN : job' = [job EXCEPT ![own[t]].titled = known]
      BY <2>2, Zenon DEF ApplyTitle
    <3>2. job' \in [Runs -> Job]
      BY <1>1, <3>1, TitledTyped DEF TypeOK, RegistryOK, Statuses
    <3> QED BY <3>2 DEF TypeOK, RegistryOK, ApplyTitle, jobFrame
  <2> QED BY <2>1, <2>2
<1>3. ProcsOK'
  BY <1>1, LabelsTyped, MoveTyped
  DEF TypeOK, ProcsOK, ApplyTitle, jobFrame, Procs, Workers
<1>4. FlagsOK' /\ FetchesOK' /\ SavesOK' /\ StorageOK' /\ UNCHANGED lifeVars
  BY DEF TypeOK, ApplyTitle, jobFrame, FlagsOK, flagVars, FetchesOK, fetchVars, SavesOK,
         saveVars, StorageOK, lifeVars
<1>5. QED BY <1>2, <1>3, <1>4 DEF TypeOK, lifeVars

LEMMA ApplyRejectionTyped ==
  ASSUME TypeOK, NEW t \in TitleWorkers, ApplyRejection(t)
  PROVE  TypeOK'
<1>1. own[t] \in Runs
  BY DEF TypeOK, ProcsOK, FreeLabels, Procs, Workers, ApplyRejection
<1>2. RegistryOK'
  BY <1>1, StatusTyped DEF TypeOK, RegistryOK, ApplyRejection, jobFrame, Statuses
<1>3. ProcsOK'
  BY <1>1, LabelsTyped, MoveTyped
  DEF TypeOK, ProcsOK, ApplyRejection, jobFrame, Procs, Workers
<1>4. FlagsOK' /\ FetchesOK' /\ SavesOK' /\ StorageOK' /\ UNCHANGED lifeVars
  BY DEF TypeOK, ApplyRejection, jobFrame, FlagsOK, flagVars, FetchesOK, fetchVars,
         SavesOK, saveVars, StorageOK, lifeVars
<1>5. QED BY <1>2, <1>3, <1>4 DEF TypeOK, lifeVars

LEMMA AfterErrorTyped ==
  ASSUME TypeOK, NEW t \in TitleWorkers, AfterError(t)
  PROVE  TypeOK'
<1>1. own[t] \in Runs
  BY DEF TypeOK, ProcsOK, FreeLabels, Procs, Workers, AfterError
<1>2. ProcsOK'
  BY <1>1, LabelsTyped, MoveTyped
  DEF TypeOK, ProcsOK, AfterError, Moves, pcFrame, Procs, Workers
<1>3. RegistryOK' /\ FlagsOK' /\ FetchesOK' /\ SavesOK' /\ StorageOK' /\ UNCHANGED lifeVars
  BY DEF TypeOK, AfterError, Moves, pcFrame, RegistryOK, regVars, FlagsOK, flagVars,
         FetchesOK, fetchVars, SavesOK, saveVars, StorageOK, lifeVars
<1>4. QED BY <1>2, <1>3 DEF TypeOK, lifeVars

LEMMA PauseTyped ==
  ASSUME TypeOK, NEW t \in TitleWorkers, Pause(t)
  PROVE  TypeOK'
<1>1. own[t] \in Runs
  BY DEF TypeOK, ProcsOK, FreeLabels, Procs, Workers, Pause
<1>2. ProcsOK'
  BY <1>1, LabelsTyped, MoveTyped DEF TypeOK, ProcsOK, Pause, Procs, Workers, pcFrame
<1>3. FetchesOK'
  <2>1. CtxReads(t) \subseteq Seqs
    BY <1>1 DEF TypeOK, FetchesOK, RegistryOK, Job, CtxReads, Workers
  <2> QED BY <2>1 DEF TypeOK, FetchesOK, Pause
<1>4. RegistryOK' /\ FlagsOK' /\ SavesOK' /\ StorageOK' /\ UNCHANGED lifeVars
  BY DEF TypeOK, Pause, RegistryOK, regVars, FlagsOK, flagVars, SavesOK, saveVars,
         StorageOK, lifeVars
<1>5. QED BY <1>2, <1>3, <1>4 DEF TypeOK, lifeVars

LEMMA BackoffCancelledTyped ==
  ASSUME TypeOK, NEW t \in TitleWorkers, BackoffCancelled(t)
  PROVE  TypeOK'
<1>1. own[t] \in Runs
  BY DEF TypeOK, ProcsOK, FreeLabels, Procs, Workers, BackoffCancelled, Moves
<1>2. ProcsOK'
  BY <1>1, LabelsTyped, MoveTyped
  DEF TypeOK, ProcsOK, BackoffCancelled, Moves, pcFrame, Procs, Workers
<1>3. RegistryOK' /\ FlagsOK' /\ FetchesOK' /\ SavesOK' /\ StorageOK' /\ UNCHANGED lifeVars
  BY DEF TypeOK, BackoffCancelled, Moves, pcFrame, RegistryOK, regVars, FlagsOK,
         flagVars, FetchesOK, fetchVars, SavesOK, saveVars, StorageOK, lifeVars
<1>4. QED BY <1>2, <1>3 DEF TypeOK, lifeVars

LEMMA BackoffElapsesTyped ==
  ASSUME TypeOK, NEW t \in TitleWorkers, BackoffElapses(t), RetriesLeft
  PROVE  TypeOK'
<1>1. own[t] \in Runs
  BY DEF TypeOK, ProcsOK, FreeLabels, Procs, Workers, BackoffElapses
<1>2. ProcsOK'
  BY <1>1, LabelsTyped, MoveTyped
  DEF TypeOK, ProcsOK, BackoffElapses, Procs, Workers, pcFrame
<1>3. FetchesOK'
  BY <1>1, BoundsAssumption DEF TypeOK, FetchesOK, BackoffElapses, RetriesLeft, Seqs
<1>4. RegistryOK' /\ FlagsOK' /\ SavesOK' /\ StorageOK' /\ UNCHANGED lifeVars
  BY DEF TypeOK, BackoffElapses, RegistryOK, regVars, FlagsOK, flagVars, SavesOK,
         saveVars, StorageOK, lifeVars
<1>5. QED BY <1>2, <1>3, <1>4 DEF TypeOK, lifeVars

LEMMA GiveUpTyped ==
  ASSUME TypeOK, NEW t \in TitleWorkers, GiveUp(t)
  PROVE  TypeOK'
<1>1. own[t] \in Runs
  BY DEF TypeOK, ProcsOK, FreeLabels, Procs, Workers, GiveUp
<1>2. RegistryOK'
  BY <1>1, BoundsAssumption DEF TypeOK, RegistryOK, GiveUp, jobFrame, Job
<1>3. ProcsOK'
  BY <1>1, LabelsTyped, MoveTyped DEF TypeOK, ProcsOK, GiveUp, jobFrame, Procs, Workers
<1>4. FlagsOK' /\ FetchesOK' /\ SavesOK' /\ StorageOK' /\ UNCHANGED lifeVars
  BY DEF TypeOK, GiveUp, jobFrame, FlagsOK, flagVars, FetchesOK, fetchVars, SavesOK,
         saveVars, StorageOK, lifeVars
<1>5. QED BY <1>2, <1>3, <1>4 DEF TypeOK, lifeVars

LEMMA ReleaseFetchTyped ==
  ASSUME TypeOK, NEW t \in TitleWorkers, ReleaseFetch(t)
  PROVE  TypeOK'
<1>1. own[t] \in Runs
  BY DEF TypeOK, ProcsOK, FreeLabels, Procs, Workers, ReleaseFetch
<1>2. FlagsOK'
  BY <1>1 DEF TypeOK, FlagsOK, ReleaseFetch
<1>3. ProcsOK'
  BY <1>1, LabelsTyped, MoveTyped, LetGoTyped
  DEF TypeOK, ProcsOK, ReleaseFetch, Procs, Workers
<1>4. FetchesOK'
  BY <1>1, BoundsAssumption DEF TypeOK, FetchesOK, ReleaseFetch, Workers, Seqs
<1>5. RegistryOK' /\ SavesOK' /\ StorageOK' /\ UNCHANGED lifeVars
  BY DEF TypeOK, ReleaseFetch, RegistryOK, regVars, SavesOK, saveVars, StorageOK,
         lifeVars
<1>6. QED BY <1>2, <1>3, <1>4, <1>5 DEF TypeOK, lifeVars

LEMMA FinalizeTyped ==
  ASSUME TypeOK, NEW p \in Procs, Finalize(p)
  PROVE  TypeOK'
<1>1. own[p] \in Runs
  BY DEF TypeOK, ProcsOK, FreeLabels, Procs, Workers, Finalize
<1>2. ProcsOK'
  BY <1>1, LabelsTyped, MoveTyped, LetGoTyped DEF TypeOK, ProcsOK, Finalize
<1>3. SavesOK'
  BY <1>1 DEF TypeOK, SavesOK, Finalize, Lock
<1>4. RegistryOK' /\ FlagsOK' /\ FetchesOK' /\ StorageOK' /\ UNCHANGED lifeVars
  BY DEF TypeOK, Finalize, RegistryOK, regVars, FlagsOK, flagVars, FetchesOK, fetchVars,
         StorageOK, lifeVars
<1>5. QED BY <1>2, <1>3, <1>4 DEF TypeOK, lifeVars

LEMMA RemoveFilesTyped ==
  ASSUME TypeOK, NEW p \in Procs, RemoveFiles(p)
  PROVE  TypeOK'
<1>1. own[p] \in Runs
  BY DEF TypeOK, ProcsOK, FreeLabels, Procs, Workers, RemoveFiles
<1>2. ProcsOK'
  BY <1>1, LabelsTyped, MoveTyped
  DEF TypeOK, ProcsOK, RemoveFiles, Procs, Workers, pcFrame
<1>3. StorageOK'
  BY <1>1, ConstantsTyped DEF TypeOK, StorageOK, RemoveFiles
<1>4. RegistryOK' /\ FlagsOK' /\ FetchesOK' /\ SavesOK' /\ UNCHANGED lifeVars
  BY DEF TypeOK, RemoveFiles, RegistryOK, regVars, FlagsOK, flagVars, FetchesOK,
         fetchVars, SavesOK, saveVars, lifeVars
<1>5. QED BY <1>2, <1>3, <1>4 DEF TypeOK, lifeVars

LEMMA RemoveFailsTyped ==
  ASSUME TypeOK, NEW p \in Procs, RemoveFails(p)
  PROVE  TypeOK'
<1>1. own[p] \in Runs
  BY DEF TypeOK, ProcsOK, FreeLabels, Procs, Workers, RemoveFails
<1>2. ProcsOK'
  BY <1>1, LabelsTyped, MoveTyped
  DEF TypeOK, ProcsOK, RemoveFails, Procs, Workers, pcFrame
<1>3. StorageOK'
  <2>1. \A i \in Ids : PartialRemovals(disk[i]) \subseteq Dir
    BY PartialTyped DEF TypeOK, StorageOK
  <2> QED BY <2>1, FaultTyped DEF TypeOK, StorageOK, RemoveFails
<1>4. RegistryOK' /\ FlagsOK' /\ FetchesOK' /\ SavesOK' /\ UNCHANGED lifeVars
  BY DEF TypeOK, RemoveFails, RegistryOK, regVars, FlagsOK, flagVars, FetchesOK,
         fetchVars, SavesOK, saveVars, lifeVars
<1>5. QED BY <1>2, <1>3, <1>4 DEF TypeOK, lifeVars

LEMMA UnregisterTyped ==
  ASSUME TypeOK, NEW p \in Procs, Unregister(p)
  PROVE  TypeOK'
<1>1. own[p] \in Runs
  BY DEF TypeOK, ProcsOK, FreeLabels, Procs, Workers, Unregister
<1>2. RegistryOK'
  BY <1>1, MayBeNoRun DEF TypeOK, RegistryOK, Unregister
<1>3. ProcsOK'
  BY <1>1, AnswerTyped DEF TypeOK, ProcsOK, Unregister
<1>4. SavesOK'
  BY <1>1 DEF TypeOK, SavesOK, Unregister, Unlock
<1>5. FlagsOK' /\ FetchesOK' /\ StorageOK' /\ UNCHANGED lifeVars
  BY DEF TypeOK, Unregister, FlagsOK, flagVars, FetchesOK, fetchVars, StorageOK,
         lifeVars
<1>6. QED BY <1>2, <1>3, <1>4, <1>5 DEF TypeOK, lifeVars

LEMMA KeepCardTyped ==
  ASSUME TypeOK, NEW p \in Procs, KeepCard(p)
  PROVE  TypeOK'
<1>1. own[p] \in Runs
  BY DEF TypeOK, ProcsOK, FreeLabels, Procs, Workers, KeepCard
<1>2. RegistryOK'
  BY <1>1, StatusTyped DEF TypeOK, RegistryOK, KeepCard, Statuses
<1>3. FlagsOK'
  BY <1>1 DEF TypeOK, FlagsOK, KeepCard
<1>4. ProcsOK'
  BY <1>1, AnswerTyped DEF TypeOK, ProcsOK, KeepCard
<1>5. SavesOK'
  BY <1>1, BoundsAssumption DEF TypeOK, SavesOK, KeepCard, Unlock, SpawnSave
<1>6. FetchesOK' /\ StorageOK' /\ UNCHANGED lifeVars
  BY DEF TypeOK, KeepCard, FetchesOK, fetchVars, StorageOK, lifeVars
<1>7. QED BY <1>2, <1>3, <1>4, <1>5, <1>6 DEF TypeOK, lifeVars

LEMMA CloseTyped ==
  ASSUME TypeOK, Close
  PROVE  TypeOK'
<1>1. ProcsOK'
  BY LabelsTyped, MoveTyped DEF TypeOK, ProcsOK, Close, Procs
<1>2. StorageOK'
  BY RestartTyped DEF TypeOK, StorageOK, Close
<1>3. phase' \in {"down", "booting", "serving"} /\ closing' \in BOOLEAN
  BY DEF TypeOK, lifeVars, Close
<1>4. RegistryOK' /\ FlagsOK' /\ FetchesOK' /\ SavesOK'
  BY DEF TypeOK, Close, RegistryOK, regVars, FlagsOK, flagVars, FetchesOK, fetchVars,
         SavesOK, saveVars
<1>5. QED BY <1>1, <1>2, <1>3, <1>4 DEF TypeOK

LEMMA ConvertInterruptedTyped ==
  ASSUME TypeOK, ConvertInterrupted
  PROVE  TypeOK'
<1>1. RegistryOK'
  BY DEF TypeOK, RegistryOK, ConvertInterrupted, Job, Statuses
<1>2. ProcsOK'
  BY LabelsTyped, MoveTyped, RegistryTyped
  DEF TypeOK, ProcsOK, ConvertInterrupted, RegistryOK, Interrupted, Procs
<1>3. FlagsOK' /\ FetchesOK' /\ SavesOK' /\ StorageOK' /\ UNCHANGED lifeVars
  BY DEF TypeOK, ConvertInterrupted, FlagsOK, flagVars, FetchesOK, fetchVars, SavesOK,
         saveVars, StorageOK, lifeVars
<1>4. QED BY <1>1, <1>2, <1>3 DEF TypeOK, lifeVars

LEMMA CloseSavesTyped ==
  ASSUME TypeOK, NEW r \in Runs, CloseSaves(r)
  PROVE  TypeOK'
<1>1. ProcsOK'
  BY LabelsTyped, TakeTyped DEF TypeOK, ProcsOK, CloseSaves, Procs
<1>2. RegistryOK' /\ FlagsOK' /\ FetchesOK' /\ SavesOK' /\ StorageOK' /\ UNCHANGED lifeVars
  BY DEF TypeOK, CloseSaves, RegistryOK, regVars, FlagsOK, flagVars, FetchesOK,
         fetchVars, SavesOK, saveVars, StorageOK, lifeVars
<1>3. QED BY <1>1, <1>2 DEF TypeOK, lifeVars

LEMMA CloseReturnsTyped ==
  ASSUME TypeOK, CloseReturns
  PROVE  TypeOK'
<1>1. ProcsOK'
  BY LabelsTyped, LetGoTyped DEF TypeOK, ProcsOK, CloseReturns, Procs, ownFrame
<1>2. RegistryOK' /\ FlagsOK' /\ FetchesOK' /\ SavesOK' /\ StorageOK' /\ UNCHANGED lifeVars
  BY DEF TypeOK, CloseReturns, ownFrame, RegistryOK, regVars, FlagsOK, flagVars,
         FetchesOK, fetchVars, SavesOK, saveVars, StorageOK, lifeVars
<1>3. QED BY <1>1, <1>2 DEF TypeOK, lifeVars

\* The end of the process, whichever way it comes.
LEMMA EndTyped ==
  ASSUME TypeOK, Exit \/ Crash \/ RecoverFails
  PROVE  TypeOK'
<1>0. PowerOff
  BY DEF Exit, Crash, RecoverFails, Ends
<1>1. RegistryOK'
  BY <1>0, PowerOffTyped DEF TypeOK, RegistryOK
<1>2. FlagsOK'
  BY <1>0, PowerOffTyped DEF TypeOK, FlagsOK
<1>3. ProcsOK'
  BY <1>0, PowerOffTyped DEF TypeOK, ProcsOK
<1>4. FetchesOK'
  BY <1>0, PowerOffTyped DEF TypeOK, FetchesOK
<1>5. SavesOK'
  BY <1>0, PowerOffTyped DEF TypeOK, SavesOK
<1>6. StorageOK'
  <2>1. \A i \in Ids : Torn(i) \subseteq Dir
    BY TornTyped DEF TypeOK
  <2>2. disk' \in [Ids -> Dir]
    BY <2>1 DEF TypeOK, StorageOK, Exit, Crash, RecoverFails, Ends, Residues
  <2>3. left' \in [restarts : 0..MaxRestarts, faults : 0..MaxFaults, vanish : 0..MaxVanish]
    BY RestartTyped, FaultTyped DEF TypeOK, StorageOK, Exit, Crash, RecoverFails
  <2> QED BY <2>2, <2>3 DEF StorageOK
<1>7. phase' \in {"down", "booting", "serving"} /\ closing' \in BOOLEAN
  BY <1>0 DEF PowerOff
<1>8. QED BY <1>1, <1>2, <1>3, <1>4, <1>5, <1>6, <1>7 DEF TypeOK

LEMMA BootTyped ==
  ASSUME TypeOK, Boot
  PROVE  TypeOK'
<1>1. ProcsOK'
  BY DEF TypeOK, ProcsOK, Boot, procVars
<1>2. phase' \in {"down", "booting", "serving"} /\ closing' \in BOOLEAN
  BY DEF TypeOK, lifeVars, Boot
<1>3. RegistryOK' /\ FlagsOK' /\ FetchesOK' /\ SavesOK' /\ StorageOK'
  BY DEF TypeOK, Boot, procVars, RegistryOK, regVars, FlagsOK, flagVars, FetchesOK,
         fetchVars, SavesOK, saveVars, StorageOK
<1>4. QED BY <1>1, <1>2, <1>3 DEF TypeOK

LEMMA VanishTyped ==
  ASSUME TypeOK, NEW i \in Ids, Vanish(i)
  PROVE  TypeOK'
<1>1. ProcsOK'
  BY DEF TypeOK, ProcsOK, Vanish, procVars
<1>2. StorageOK'
  <2>1. disk' \in [Ids -> Dir]
    BY DEF TypeOK, StorageOK, Vanish, Dir
  <2> QED BY <2>1, BoundsAssumption DEF TypeOK, StorageOK, Vanish
<1>3. RegistryOK' /\ FlagsOK' /\ FetchesOK' /\ SavesOK' /\ UNCHANGED lifeVars
  BY DEF TypeOK, Vanish, procVars, RegistryOK, regVars, FlagsOK, flagVars, FetchesOK,
         fetchVars, SavesOK, saveVars, lifeVars
<1>4. QED BY <1>1, <1>2, <1>3 DEF TypeOK, lifeVars

LEMMA RecoverTyped ==
  ASSUME TypeOK, Recover
  PROVE  TypeOK'
<1>1. IsFiniteSet(Found) /\ IsFiniteSet(Bare)
  BY NamesAssumption, FS_Subset DEF Found, Bare
<1>2. Cardinality(Found) \in Nat /\ Cardinality(Bare) \in Nat
  BY <1>1, FS_CardinalityType
<1>3. /\ created + Cardinality(Bare) \in MaybeRun
      /\ created + 1 .. created + Cardinality(Bare) \subseteq Runs
      /\ 1..Cardinality(Found) \subseteq Seqs /\ Cardinality(Found) \in Seqs
  BY <1>2, BoundsAssumption DEF TypeOK, RegistryOK, Recover, Runs, MaybeRun, Seqs
<1>4. PICK rank \in Bijection(Found, 1..Cardinality(Found)),
          stamp \in Bijection(Bare, created + 1 .. created + Cardinality(Bare)),
          unread \in Unread :
        /\ Registers(rank, stamp, unread)
        /\ UNCHANGED left \/ Fault
  BY DEF Recover
<1>5. ASSUME NEW i \in Found PROVE RunFound(i, stamp) \in MaybeRun
  <2>1. i \in Bare => stamp[i] \in Runs
    BY <1>3 DEF Bijection, Injection
  <2>2. disk[i].meta.run \in MaybeRun
    BY DEF TypeOK, StorageOK, Dir, Meta, Found
  <2> QED BY <2>1, <2>2, MayBeNoRun DEF RunFound
<1>6. ASSUME NEW i \in Found PROVE JobRecovered(i, rank, unread) \in Job
  <2>1. i \in Ids /\ disk[i] \in Dir
    BY DEF Found, TypeOK, StorageOK
  <2>2. rank[i] \in Seqs
    BY <1>3 DEF Bijection, Injection
  <2>3. disk[i].meta.titled \in BOOLEAN /\ RecoveredStatus(disk[i]) \in Statuses
        /\ "failed" \in Statuses
    BY <2>1 DEF Dir, Meta, RecoveredStatus, Statuses
  <2>4. 0 \in 0..TitleAttempts
    BY BoundsAssumption
  <2> QED BY <2>1, <2>2, <2>3, <2>4 DEF JobRecovered, Job
<1>7. jobs' \in [Ids -> MaybeRun]
  BY <1>4, <1>5, MayBeNoRun DEF Registers
<1>8. job' \in [Runs -> Job]
  <2>1. ASSUME NEW r \in Runs, \E i \in Found : RunFound(i, stamp) = r
        PROVE  JobRecovered(CHOOSE i \in Found : RunFound(i, stamp) = r,
                            rank, unread) \in Job
    BY <2>1, <1>6
  <2>2. \A r \in Runs : job[r] \in Job
    BY DEF TypeOK, RegistryOK
  <2> QED BY <1>4, <2>1, <2>2 DEF Registers
<1>9. RegistryOK'
  BY <1>3, <1>7, <1>8 DEF TypeOK, RegistryOK, Recover
<1>10. ProcsOK'
  <2>1. pc' \in [Procs -> Labels]
    BY LabelsTyped DEF TypeOK, ProcsOK, Recover, Woken
  <2>2. \A q \in Procs : pc'[q] \notin FreeLabels => pc'[q] = pc[q]
    BY LabelsTyped DEF Recover, Woken
  <2> QED BY <2>1, <2>2 DEF TypeOK, ProcsOK, Recover
<1>11. FlagsOK' /\ FetchesOK' /\ SavesOK' /\ StorageOK'
  <2>1. left' \in [restarts : 0..MaxRestarts, faults : 0..MaxFaults, vanish : 0..MaxVanish]
    BY <1>4, FaultTyped DEF TypeOK, StorageOK
  <2> QED
    BY <2>1 DEF TypeOK, Recover, FlagsOK, flagVars, FetchesOK, fetchVars, SavesOK, saveVars,
                StorageOK
<1>12. phase' = "serving" /\ closing' = closing
  BY DEF Recover
<1>13. QED BY <1>9, <1>10, <1>11, <1>12 DEF TypeOK

-----------------------------------------------------------------------------
(* The steps of Next, one disjunct for each operation. *)

LEMMA StepCases ==
  ASSUME Next
  PROVE  \/ \E c \in Clients, i \in Ids :
              \/ SubmitAnswered(c, i) \/ SubmitWaits(c, i) \/ SubmitRequeues(c, i)
              \/ SubmitNew(c, i) \/ SubmitUnsaved(c, i) \/ Retry(c, i) \/ Delete(c, i)
         \/ \E c \in Clients : List(c) \/ Downgrade(c) \/ WaitTimesOut(c)
         \/ \E c \in Clients, r \in Runs : StatFinds(c, r) \/ StatMisses(c, r)
         \/ \E p \in Workers \union Clients : Removal(p)
         \/ \E p \in Workers \union {closer} : Saves(p)
         \/ \E r \in Runs : AsyncSave(r)
         \/ \E w \in Workers : Sleep(w) \/ ExitWorker(w) \/ Mark(w)
         \/ \E r \in Runs : PickDownload(r)
         \/ StartDownload \/ EndDownload \/ ReleaseDownload
         \/ Pipeline
         \/ \E t \in TitleWorkers, r \in Runs : PickTitle(t, r)
         \/ \E t \in TitleWorkers, label \in {"fetched", "rejected", "erred"} :
              FetchReturns(t, label)
         \/ \E t \in TitleWorkers :
              \/ StartFetch(t) \/ ApplyTitle(t) \/ ApplyRejection(t) \/ AfterError(t)
              \/ Pause(t) \/ BackoffCancelled(t) \/ BackoffElapses(t) \/ GiveUp(t)
              \/ ReleaseFetch(t)
         \/ \E r \in Runs : CloseSaves(r)
         \/ Close \/ ConvertInterrupted \/ CloseReturns
         \/ Exit \/ Crash \/ RecoverFails \/ Boot \/ Recover
         \/ \E i \in Ids : Vanish(i)
<1>1. ASSUME NEW c \in Clients, Requests(c) \/ Removal(c)
      PROVE  \/ \E i \in Ids :
                  \/ SubmitAnswered(c, i) \/ SubmitWaits(c, i) \/ SubmitRequeues(c, i)
                  \/ SubmitNew(c, i) \/ SubmitUnsaved(c, i) \/ Retry(c, i) \/ Delete(c, i)
             \/ List(c) \/ Downgrade(c) \/ WaitTimesOut(c)
             \/ \E r \in Runs : StatFinds(c, r) \/ StatMisses(c, r)
             \/ Removal(c)
  BY <1>1 DEF Requests, Asked
<1>2. dw \in Workers /\ TitleWorkers \subseteq Workers
  BY DEF Workers
<1>3. CASE \E c \in Clients : Requests(c) \/ Removal(c)
  BY <1>1, <1>3
<1>4. CASE DownloadWorker
  BY <1>2, <1>4 DEF DownloadWorker, Worker
<1>5. CASE \E t \in TitleWorkers : TitleWorker(t)
  BY <1>2, <1>5 DEF TitleWorker, Worker
<1>6. CASE \E r \in Runs : AsyncSave(r)
  BY <1>6
<1>7. CASE Closing
  BY <1>7 DEF Closing
<1>8. CASE Process
  BY <1>8 DEF Process
<1>9. QED BY <1>3, <1>4, <1>5, <1>6, <1>7, <1>8 DEF Next

LEMMA TypeOKNext ==
  ASSUME TypeOK, RetriesLeft, Next
  PROVE  TypeOK'
<1>1. ASSUME NEW c \in Clients, NEW i \in Ids,
             \/ SubmitAnswered(c, i) \/ SubmitWaits(c, i) \/ SubmitRequeues(c, i)
             \/ SubmitNew(c, i) \/ SubmitUnsaved(c, i) \/ Retry(c, i) \/ Delete(c, i)
      PROVE  TypeOK'
  BY <1>1, SubmitAnsweredTyped, SubmitWaitsTyped, SubmitRequeuesTyped, SubmitNewTyped,
     SubmitUnsavedTyped, RetryTyped, DeleteTyped
<1>2. ASSUME NEW c \in Clients, List(c) \/ Downgrade(c) \/ WaitTimesOut(c)
      PROVE  TypeOK'
  BY <1>2, ListTyped, DowngradeTyped, WaitTimesOutTyped
<1>3. ASSUME NEW c \in Clients, NEW r \in Runs, StatFinds(c, r) \/ StatMisses(c, r)
      PROVE  TypeOK'
  BY <1>3, StatFindsTyped, StatMissesTyped
<1>4. ASSUME NEW p \in Procs, Removal(p) \/ Saves(p)
      PROVE  TypeOK'
  BY <1>4, FinalizeTyped, RemoveFilesTyped, RemoveFailsTyped, UnregisterTyped,
     KeepCardTyped, BeginSaveTyped, SkipSaveTyped, EndSaveTyped DEF Removal, Saves
<1>5. ASSUME NEW r \in Runs, AsyncSave(r) \/ PickDownload(r) \/ CloseSaves(r)
      PROVE  TypeOK'
  BY <1>5, BeginAsyncSaveTyped, EndAsyncSaveTyped, PickDownloadTyped, CloseSavesTyped
  DEF AsyncSave
<1>6. ASSUME NEW w \in Workers, Sleep(w) \/ ExitWorker(w) \/ Mark(w)
      PROVE  TypeOK'
  BY <1>6, SleepTyped, ExitWorkerTyped, MarkTyped
<1>7. CASE StartDownload \/ EndDownload \/ ReleaseDownload \/ Pipeline
  BY <1>7, StartDownloadTyped, EndDownloadTyped, ReleaseDownloadTyped, MakeWorkTyped,
     ReportTyped, CheckContextTyped, PublishTyped, PublishNothingTyped,
     PipelineFailsTyped, PipelineCanceledTyped DEF Pipeline
<1>8. ASSUME NEW t \in TitleWorkers,
             \/ \E r \in Runs : PickTitle(t, r)
             \/ \E label \in {"fetched", "rejected", "erred"} : FetchReturns(t, label)
             \/ StartFetch(t) \/ ApplyTitle(t) \/ ApplyRejection(t) \/ AfterError(t)
             \/ Pause(t) \/ BackoffCancelled(t) \/ BackoffElapses(t) \/ GiveUp(t)
             \/ ReleaseFetch(t)
      PROVE  TypeOK'
  BY <1>8, PickTitleTyped, FetchReturnsTyped, StartFetchTyped, ApplyTitleTyped,
     ApplyRejectionTyped, AfterErrorTyped, PauseTyped, BackoffCancelledTyped,
     BackoffElapsesTyped, GiveUpTyped, ReleaseFetchTyped
<1>9. CASE Close \/ ConvertInterrupted \/ CloseReturns
  BY <1>9, CloseTyped, ConvertInterruptedTyped, CloseReturnsTyped
<1>10. CASE Exit \/ Crash \/ RecoverFails \/ Boot \/ Recover \/ \E i \in Ids : Vanish(i)
  BY <1>10, EndTyped, BootTyped, RecoverTyped, VanishTyped
<1>11. Workers \union Clients \subseteq Procs /\ Workers \union {closer} \subseteq Procs
  BY DEF Procs
<1>12. QED
  BY <1>1, <1>2, <1>3, <1>4, <1>5, <1>6, <1>7, <1>8, <1>9, <1>10, <1>11, StepCases

-----------------------------------------------------------------------------
(* The attempts of a title fetch. *)

Waits == {"pause", "backoff"}

\* A step after which nobody waits to retry who did not before.
LEMMA RetriesKept ==
  ASSUME RetriesLeft, UNCHANGED attempt,
         \A t \in TitleWorkers : pc'[t] \in Waits => pc'[t] = pc[t] \/ pc[t] \in Waits
  PROVE  RetriesLeft'
  BY DEF RetriesLeft, Waits

LEMMA RetriesKeptByGoto ==
  ASSUME ProcsOK, RetriesLeft, UNCHANGED attempt,
         NEW p \in Procs, NEW to \in Labels \ Waits, Goto(p, to) \/ WakeGoto(p, to)
  PROVE  RetriesLeft'
<1>1. \A t \in Procs : pc'[t] \in Waits => pc'[t] = pc[t]
  BY LabelsTyped, GotoTyped DEF FreeLabels, Waits
<1> QED BY <1>1, RetriesKept DEF Procs, Workers

LEMMA NotWaits ==
  /\ "idle" \notin Waits /\ "waiting" \notin Waits /\ "exited" \notin Waits
  /\ "listing" \notin Waits /\ "draining" \notin Waits /\ "saving" \notin Waits
  /\ "closed" \notin Waits /\ "picked" \notin Waits /\ "saveStart" \notin Waits
  /\ "writeStart" \notin Waits /\ "save" \notin Waits /\ "write" \notin Waits
  /\ "mark" \notin Waits /\ "prepare" \notin Waits /\ "prepared" \notin Waits
  /\ "downloading" \notin Waits /\ "processing" \notin Waits
  /\ "verifying" \notin Waits /\ "publish" \notin Waits /\ "succeeded" \notin Waits
  /\ "errored" \notin Waits /\ "canceled" \notin Waits /\ "release" \notin Waits
  /\ "fetch" \notin Waits /\ "fetched" \notin Waits /\ "rejected" \notin Waits
  /\ "erred" \notin Waits /\ "giveUp" \notin Waits /\ "finalize" \notin Waits
  /\ "remove" \notin Waits /\ "unregister" \notin Waits /\ "stuck" \notin Waits
  /\ "awaitSubmit" \notin Waits /\ "awaitDelete" \notin Waits
  /\ "resubmit" \notin Waits /\ "downgrade" \notin Waits
  BY DEF Waits

LEMMA RetriesLeftNext ==
  ASSUME TypeOK, RetriesLeft, Next
  PROVE  RetriesLeft'
<1> USE LabelsTyped, NotWaits, RetriesKeptByGoto DEF TypeOK
<1>1. ASSUME NEW c \in Clients, NEW i \in Ids,
             \/ SubmitAnswered(c, i) \/ SubmitWaits(c, i) \/ SubmitRequeues(c, i)
             \/ SubmitNew(c, i) \/ SubmitUnsaved(c, i) \/ Retry(c, i) \/ Delete(c, i)
      PROVE  RetriesLeft'
  <2>1. UNCHANGED attempt /\ c \in Procs
    BY <1>1
    DEF SubmitAnswered, SubmitWaits, SubmitRequeues, SubmitNew, SubmitUnsaved, Retry,
            Delete, ownFrame, fetchVars, Procs
  <2>2. \E to \in {"idle", "awaitSubmit", "awaitDelete", "finalize"} :
          Goto(c, to) \/ WakeGoto(c, to)
    BY <1>1
    DEF SubmitAnswered, SubmitWaits, SubmitRequeues, SubmitNew, SubmitUnsaved, Retry,
            Delete
  <2> QED BY <2>1, <2>2
<1>2. ASSUME NEW c \in Clients, List(c) \/ Downgrade(c) \/ WaitTimesOut(c)
      PROVE  RetriesLeft'
  <2>1. UNCHANGED attempt /\ c \in Procs
    BY <1>2 DEF List, Downgrade, WaitTimesOut, ownFrame, fetchVars, Procs
  <2>2. \E to \in {"idle", "listing"} : Goto(c, to)
    BY <1>2 DEF List, Downgrade, WaitTimesOut, ListNext
  <2> QED BY <2>1, <2>2
<1>3. ASSUME NEW c \in Clients, NEW r \in Runs, StatFinds(c, r) \/ StatMisses(c, r)
      PROVE  RetriesLeft'
  <2>1. UNCHANGED attempt /\ c \in Procs
    BY <1>3 DEF StatFinds, StatMisses, fetchVars, Procs
  <2>2. \E to \in {"idle", "listing", "downgrade"} : Goto(c, to)
    BY <1>3 DEF StatFinds, StatMisses, ListNext
  <2> QED BY <2>1, <2>2
<1>4. ASSUME NEW p \in Procs, Saves(p)
      PROVE  RetriesLeft'
  <2>1. UNCHANGED attempt
    BY <1>4 DEF Saves, BeginSave, SkipSave, EndSave, Moves, pcFrame, fetchVars
  <2>2. \E to \in {"write", "writeStart", "prepare", "saving", "release", "mark"} : Goto(p, to)
    BY <1>4 DEF Saves, BeginSave, SkipSave, EndSave, Moves, Saved, Unsaved
  <2> QED BY <2>1, <2>2
<1>5. ASSUME NEW p \in Procs, Removal(p)
      PROVE  RetriesLeft'
  <2>1. UNCHANGED attempt
    BY <1>5
    DEF Removal, Finalize, RemoveFiles, RemoveFails, Unregister, KeepCard, fetchVars
  <2>2. CASE \E to \in {"remove", "idle", "unregister", "stuck"} : Goto(p, to)
    BY <2>1, <2>2
  <2>3. ASSUME NEW r, AnswerWaiters(p, r)
        PROVE  RetriesLeft'
    <3>1. \A q \in Procs : pc'[q] \in Waits => pc'[q] = pc[q]
      BY <2>3 DEF AnswerWaiters
    <3> QED BY <2>1, <3>1, RetriesKept DEF Procs, Workers
  <2> QED BY <1>5, <2>2, <2>3
          DEF Removal, Finalize, RemoveFiles, RemoveFails, Unregister, KeepCard
<1>6. ASSUME NEW r \in Runs, AsyncSave(r)
      PROVE  RetriesLeft'
  BY <1>6, RetriesKept DEF AsyncSave, BeginAsyncSave, EndAsyncSave, procVars, fetchVars
<1>7. ASSUME NEW r \in Runs, PickDownload(r) \/ CloseSaves(r)
      PROVE  RetriesLeft'
  BY <1>7 DEF PickDownload, CloseSaves, fetchVars, Procs, Workers
<1>8. ASSUME NEW w \in Workers, Sleep(w) \/ ExitWorker(w) \/ Mark(w)
      PROVE  RetriesLeft'
  BY <1>8 DEF Sleep, ExitWorker, Mark, Moves, pcFrame, jobFrame, fetchVars, Procs
<1>9. CASE StartDownload \/ EndDownload \/ ReleaseDownload \/ Pipeline
  <2>1. UNCHANGED attempt /\ dw \in Procs
    BY <1>9 DEF StartDownload, EndDownload, ReleaseDownload, Pipeline, MakeWork, Report,
            CheckContext, Publish, PublishNothing, PipelineFails, PipelineCanceled, Moves,
            pcFrame, jobFrame, fetchVars, Procs, Workers
  <2>2. \E to \in {"saveStart", "release", "save", "finalize", "idle", "prepared",
                   "publish", "succeeded", "errored", "canceled"} \union InFlight :
          Goto(dw, to) \/ WakeGoto(dw, to)
    BY <1>9 DEF StartDownload, EndDownload, ReleaseDownload, Pipeline, MakeWork, Report,
            CheckContext, Publish, PublishNothing, PipelineFails, PipelineCanceled, Moves
  <2> QED BY <2>1, <2>2 DEF InFlight
<1>10. ASSUME NEW t \in TitleWorkers,
             \/ \E r \in Runs : PickTitle(t, r)
             \/ \E label \in {"fetched", "rejected", "erred"} : FetchReturns(t, label)
             \/ ApplyTitle(t) \/ ApplyRejection(t) \/ GiveUp(t) \/ BackoffCancelled(t)
      PROVE  RetriesLeft'
  <2>1. UNCHANGED attempt /\ t \in Procs
    BY <1>10 DEF PickTitle, FetchReturns, ApplyTitle, ApplyRejection, GiveUp,
             BackoffCancelled, Moves, pcFrame, jobFrame, fetchVars, Procs, Workers
  <2>2. \E to \in {"picked", "fetched", "rejected", "erred", "save", "release"} : Goto(t, to)
    BY <1>10 DEF PickTitle, FetchReturns, ApplyTitle, ApplyRejection, GiveUp,
             BackoffCancelled, Moves
  <2> QED BY <2>1, <2>2
<1>11. ASSUME NEW t \in TitleWorkers, AfterError(t) \/ Pause(t)
       PROVE  RetriesLeft'
  <2>1. UNCHANGED attempt /\ t \in Procs
    BY <1>11 DEF AfterError, Pause, Moves, pcFrame, fetchVars, Procs, Workers
  <2>2. CASE \E to \in {"release", "giveUp"} : Goto(t, to)
    BY <2>1, <2>2
  <2>3. CASE Goto(t, "pause") /\ MayRetry(t)
    BY <2>1, <2>3 DEF Goto, MayRetry, RetriesLeft, ProcsOK, Procs, Workers
  <2>4. CASE Pause(t)
    BY <2>1, <2>4, RetriesKept DEF Pause, Goto, ProcsOK, Waits, Procs, Workers
  <2> QED BY <1>11, <2>2, <2>3, <2>4 DEF AfterError, Moves
<1>12. ASSUME NEW t \in TitleWorkers, StartFetch(t) \/ BackoffElapses(t)
       PROVE  RetriesLeft'
  <2>1. t \in Procs /\ Goto(t, "fetch")
    BY <1>12 DEF StartFetch, BackoffElapses, Procs, Workers
  <2>2. \A u \in TitleWorkers \ {t} : pc'[u] = pc[u] /\ attempt'[u] = attempt[u]
    BY <1>12, <2>1
    DEF StartFetch, BackoffElapses, Goto, ProcsOK, FetchesOK, Procs, Workers
  <2>3. pc'[t] \notin Waits
    BY <2>1 DEF Goto, ProcsOK
  <2> QED BY <2>2, <2>3 DEF RetriesLeft, Waits
<1>13. ASSUME NEW t \in TitleWorkers, ReleaseFetch(t)
       PROVE  RetriesLeft'
  <2>1. \A u \in TitleWorkers : pc'[u] \in Waits => pc'[u] = pc[u] /\ attempt'[u] = attempt[u]
    BY <1>13
    DEF ReleaseFetch, Goto, WakeGoto, Woken, ProcsOK, FetchesOK, Waits, Procs, Workers
  <2> QED BY <2>1 DEF RetriesLeft, Waits
<1>14. CASE Close \/ ConvertInterrupted \/ CloseReturns
  BY <1>14 DEF Close, ConvertInterrupted, CloseReturns, ownFrame, fetchVars, Procs
<1>15. CASE Exit \/ Crash \/ RecoverFails
  BY <1>15 DEF Exit, Crash, RecoverFails, Ends, PowerOff, AllIdle, RetriesLeft, Procs, Workers
<1>16. CASE Boot \/ \E i \in Ids : Vanish(i)
  BY <1>16, RetriesKept DEF Boot, Vanish, procVars, fetchVars
<1>17. CASE Recover
  <2>1. \A t \in TitleWorkers : pc'[t] \in Waits => pc'[t] = pc[t]
    BY <1>17 DEF Recover, Woken, Procs, Workers
  <2> QED BY <1>17, <2>1, RetriesKept DEF Recover, fetchVars
<1>18. Workers \union Clients \subseteq Procs /\ Workers \union {closer} \subseteq Procs
  BY DEF Procs
<1>19. QED
  BY <1>1, <1>2, <1>3, <1>4, <1>5, <1>6, <1>7, <1>8, <1>9, <1>10, <1>11, <1>12, <1>13,
     <1>14, <1>15, <1>16, <1>17, <1>18, StepCases

-----------------------------------------------------------------------------
\* Every reachable state of the manager is well typed: in particular a
\* goroutine at work always has a job object, fetches never exceed their
\* attempts, and a recovered registry is made of proper job objects.
THEOREM TypeCorrect == Spec => []TypeOK
<1>1. Init => TypeOK /\ RetriesLeft
  <2> SUFFICES ASSUME Init PROVE TypeOK /\ RetriesLeft
    OBVIOUS
  <2>1. RegistryOK /\ FlagsOK
    BY BoundsAssumption, MayBeNoRun, ConstantsTyped
    DEF Init, RegistryOK, FlagsOK, NoJobs, NoObjects, Seqs, NoRun, MaybeRun
  <2>2. ProcsOK
    BY MayBeNoRun, LabelsTyped DEF Init, ProcsOK, AllIdle, AllUnowned, NothingToDo
  <2>3. FetchesOK /\ SavesOK
    BY BoundsAssumption, ConstantsTyped
    DEF Init, FetchesOK, SavesOK, NoContexts, NoFetches, Seqs, AllUnlocked, NoSnapshots,
        NonePending
  <2>4. StorageOK
    BY BoundsAssumption, ConstantsTyped DEF Init, StorageOK
  <2>5. RetriesLeft
    BY DEF Init, RetriesLeft, AllIdle, Procs, Workers
  <2> QED BY <2>1, <2>2, <2>3, <2>4, <2>5 DEF TypeOK, Init
<1>2. TypeOK /\ RetriesLeft /\ [Next]_vars => (TypeOK /\ RetriesLeft)'
  <2> SUFFICES ASSUME TypeOK, RetriesLeft, [Next]_vars PROVE (TypeOK /\ RetriesLeft)'
    OBVIOUS
  <2>1. CASE Next
    BY <2>1, TypeOKNext, RetriesLeftNext
  <2>2. CASE UNCHANGED vars
    BY <2>2 DEF TypeOK, RegistryOK, FlagsOK, ProcsOK, FetchesOK, SavesOK, StorageOK,
            RetriesLeft, vars, lifeVars, regVars, flagVars, procVars, fetchVars, saveVars
  <2> QED BY <2>1, <2>2
<1> QED BY <1>1, <1>2, PTL DEF Spec

=============================================================================
