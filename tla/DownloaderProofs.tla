-------------------------- MODULE DownloaderProofs --------------------------
(***************************************************************************)
(* What a power loss may leave of a video's directory, for any bounds: the *)
(* record of the last Save or a later one until a Remove begins, no        *)
(* directory whose removal was confirmed, and no media file but a verified *)
(* one.  And what a run of a tool leaves: no process that holds a pipe.    *)
(*                                                                         *)
(* StoreInv says what each operation has done when it comes to its sync,   *)
(* that the pipeline and a removal are never at work together, and that a  *)
(* download has a card, which no confirmed removal leaves.  RunInv         *)
(* ties the command to the step of Download that started it, VideoInv the  *)
(* output to the checks it has passed, OwnInv the work to the attempt.     *)
(* With SeenInv, what the manager sees of a directory and of a result,     *)
(* they give the refinement of Files; with RestInv, where a power loss is  *)
(* no more than a crash.  The type invariant comes last.                   *)
(***************************************************************************)
EXTENDS FilesOfDownloader, TLAPS

Shapes ==
  /\ now = [dir |-> now.dir, meta |-> now.meta, video |-> now.video]
  /\ after = [dir |-> after.dir, meta |-> after.meta, video |-> after.video]
  /\ now.dir \in BOOLEAN /\ after.dir \subseteq BOOLEAN
  /\ saves \in Nat

\* What the process sees is one of the things a power loss may leave.
Seen == now.dir \in after.dir /\ now.meta \in after.meta /\ now.video \in after.video

\* What Save and Remove have done so far; a removal has the directory for itself.
SaveInv ==
  /\ op \in SaveSteps => saves \in safe /\ saves > 0
  /\ op = "write" => now.dir
  /\ op = "sync" => now.dir /\ now.meta = saves

RemoveInv ==
  /\ op \in RemoveSteps => NoRecord \in safe /\ at = "idle" /\ up
  /\ op = "syncRoot" => ~now.dir /\ now.meta = NoRecord /\ now.video = NoVideo

\* A download has a card, so no removal has been confirmed since; once it has a
\* work directory, it has the directory.
CardInv ==
  /\ card \in BOOLEAN
  /\ card => safe # {NoRecord}
  /\ at # "idle" => up /\ card
  /\ at \notin {"idle", "fetch", "clear", "mkwork", "returned"} => now.dir

StoreInv == Shapes /\ Seen /\ SaveInv /\ RemoveInv /\ CardInv /\ RecordsSurvive /\ RemovalsSurvive

USE DEF SaveSteps, RemoveSteps, NoRecord, NoVideo

LEMMA StoreInvInit == Init => StoreInv
<1> SUFFICES ASSUME Init  PROVE StoreInv
  OBVIOUS
<1>1. /\ now = [dir |-> FALSE, meta |-> 0, video |-> NoVideo]
      /\ after = [dir |-> {FALSE}, meta |-> {0}, video |-> {NoVideo}]
      /\ op = "idle" /\ saves = 0 /\ safe = {0} /\ card = FALSE /\ at = "idle"
  BY DEF Init, StoreInit, Surviving, Settled
<1>2. Shapes /\ Seen
  BY <1>1 DEF Shapes, Seen
<1>3. SaveInv /\ RemoveInv /\ CardInv /\ RecordsSurvive /\ RemovalsSurvive
  BY <1>1 DEF SaveInv, RemoveInv, CardInv, RecordsSurvive, RemovalsSurvive
<1>4. QED
  BY <1>2, <1>3 DEF StoreInv

-----------------------------------------------------------------------------
(* Save and Remove. *)

LEMMA SaveStep ==
  ASSUME StoreInv, up, Save, UNCHANGED <<up, at>>  PROVE StoreInv'
<1> USE DEF StoreInv, Shapes, Seen, SaveInv, RemoveInv, CardInv, RecordsSurvive, RemovalsSurvive, history
<1>1. CASE BeginSave
  <2>1. saves' \in Nat /\ saves' > 0 /\ saves' \in safe'
    BY <1>1 DEF BeginSave
  <2>2. safe' # {0} /\ safe \subseteq safe'
    BY <1>1, <2>1 DEF BeginSave
  <2>3. QED
    BY <1>1, <2>1, <2>2 DEF BeginSave
<1>2. CASE SaveMakesDir
  <2>1. now' = [dir |-> TRUE, meta |-> now.meta, video |-> now.video]
    BY <1>2 DEF SaveMakesDir, DirMade
  <2>2. after' = [dir |-> after.dir \union {TRUE}, meta |-> after.meta, video |-> after.video]
    BY <1>2 DEF SaveMakesDir, DirMade
  <2>3. safe # {0}
    BY <1>2 DEF SaveMakesDir
  <2>4. 0 \notin safe => after'.dir = {TRUE}
    BY <2>2
  <2>5. QED
    BY <1>2, <2>1, <2>2, <2>3, <2>4 DEF SaveMakesDir
<1>3. CASE WriteRecord
  BY <1>3 DEF WriteRecord, PutRecord, RecordData
<1>4. CASE EndSave
  <2>1. safe' = {saves} /\ saves > 0 /\ now.dir /\ now.meta = saves
    BY <1>4 DEF EndSave
  <2>2. after' = [dir |-> {TRUE}, meta |-> {saves}, video |-> {now.video}]
    BY <1>4, <2>1 DEF EndSave, SaveSyncs, DirSynced
  <2>3. safe' # {0}
    BY <2>1
  <2>4. QED
    BY <1>4, <2>1, <2>2, <2>3 DEF EndSave
<1>5. CASE SaveFails
  BY <1>5 DEF SaveFails
<1>6. QED
  BY <1>1, <1>2, <1>3, <1>4, <1>5 DEF Save

LEMMA RemoveStep ==
  ASSUME StoreInv, up, Removes \/ (at = "idle" /\ BeginRemove), UNCHANGED <<up, at>>
  PROVE  StoreInv'
<1> USE DEF StoreInv, Shapes, Seen, SaveInv, RemoveInv, CardInv, RecordsSurvive, RemovalsSurvive, history
<1>1. CASE at = "idle" /\ BeginRemove
  BY <1>1 DEF BeginRemove
<1>2. CASE UnlinkRecord
  BY <1>2 DEF UnlinkRecord
<1>3. CASE UnlinkVideo
  BY <1>3 DEF UnlinkVideo
<1>4. CASE RemoveDir
  BY <1>4 DEF RemoveDir
<1>5. CASE EndRemove
  BY <1>5 DEF EndRemove, RootSynced, Settled
<1>6. CASE RemoveStops
  BY <1>6 DEF RemoveStops
<1>7. QED
  BY <1>1, <1>2, <1>3, <1>4, <1>5, <1>6 DEF Removes
-----------------------------------------------------------------------------
(* Download, its tools and the process. *)

\* The steps of Download that leave the directory of the video alone.
Aside ==
  \/ BeginDownload \/ ClearWork \/ MakeWork \/ Report \/ CheckContext \/ WorkFails \/ Cleanup \/ TakeResult
  \/ SyncOutput \/ CloseFails \/ PublishFails
  \/ StartTool \/ ToolCannotStart \/ Waits \/ ToolFailed \/ ToolSucceeded
  \/ Kills \/ Reads \/ ToolRuns \/ ToolExits \/ Cancel \/ Boot

LEMMA AsideSteps ==
  ASSUME Aside
  PROVE  /\ UNCHANGED <<now, after, op, saves, safe>>
         /\ UNCHANGED <<card, up>> \/ Boot
         /\ at' # "idle" => at # "idle" \/ BeginDownload
         /\ \/ at' \in {"idle", "fetch", "clear", "mkwork", "returned"}
            \/ at \notin {"idle", "fetch", "clear", "mkwork", "returned"}
            \/ now.dir
<1> USE DEF storeVars, history
<1>1. ASSUME BeginDownload \/ ClearWork \/ Report \/ WorkFails \/ Cleanup \/ TakeResult
      PROVE  /\ UNCHANGED <<storeVars, up>> /\ (at' # "idle" => at # "idle" \/ BeginDownload)
             /\ \/ at' \in {"idle", "fetch", "clear", "mkwork", "returned"}
                \/ at \notin {"idle", "fetch", "clear", "mkwork", "returned"}
  BY <1>1 DEF BeginDownload, ClearWork, Report, Reported, WorkFails, Cleanup, TakeResult, Moves, Leaves
<1>2. ASSUME CheckContext \/ SyncOutput \/ CloseFails \/ PublishFails \/ MakeWork
      PROVE  /\ UNCHANGED <<storeVars, up>>
             /\ at \in {"verified", "sync", "rename"} \/ (at = "mkwork" /\ now.dir)
  BY <1>2 DEF CheckContext, SyncOutput, CloseFails, PublishFails, MakeWork, Moves
<1>3. ASSUME StartTool \/ ToolCannotStart \/ Waits \/ Kills \/ Reads \/ ToolRuns \/ ToolExits \/ Cancel
      PROVE  UNCHANGED <<storeVars, up, at>>
  BY <1>3 DEF StartTool, ToolCannotStart, Waits, Kills, Reads, ToolRuns, ToolExits, Cancel, pipelineVars
<1>4. ASSUME ToolFailed \/ ToolSucceeded
      PROVE  /\ UNCHANGED <<storeVars, up>> /\ at # "idle"
             /\ at = "fetch" => at' \in {"clear", "returned"}
             /\ at \in Tools
  BY <1>4 DEF ToolFailed, ToolSucceeded, Looks, Tools, Fetched, Downloaded, VideoProbed,
              AudioProbed, OutputProbed, Continues, Gives, Leaves
<1>5. ASSUME Boot
      PROVE  UNCHANGED <<now, after, op, saves, safe, at>>
  BY <1>5 DEF Boot
<1>6. QED
  BY <1>1, <1>2, <1>3, <1>4, <1>5 DEF Aside, Tools

LEMMA AsideStep == ASSUME StoreInv, Aside  PROVE StoreInv'
<1> DEFINE Early == {"idle", "fetch", "clear", "mkwork", "returned"}
<1>1. UNCHANGED <<now, after, op, saves, safe>>
  BY AsideSteps
<1>2. op \in RemoveSteps => at' = "idle" /\ up'
  BY AsideSteps DEF BeginDownload, Boot, StoreInv, RemoveInv
<1>3. at' \notin Early => now.dir
  BY AsideSteps DEF StoreInv, CardInv
<1>4. CASE UNCHANGED <<card, up>>
  <2>1. at' # "idle" => up /\ card
    BY <1>4, AsideSteps DEF BeginDownload, StoreInv, CardInv
  <2>2. QED
    BY <1>1, <1>2, <1>3, <1>4, <2>1
       DEF StoreInv, Shapes, Seen, SaveInv, RemoveInv, CardInv, RecordsSurvive, RemovalsSurvive
<1>5. CASE Boot
  <2>1. ~up /\ up' /\ at' = at /\ card' = now.dir
    BY <1>5 DEF Boot
  <2>2. at = "idle" /\ (now.dir => safe # {NoRecord})
    BY <2>1 DEF StoreInv, Shapes, Seen, CardInv, RemovalsSurvive
  <2>3. QED
    BY <1>1, <1>2, <1>3, <2>1, <2>2
       DEF StoreInv, Shapes, Seen, SaveInv, RemoveInv, CardInv, RecordsSurvive, RemovalsSurvive
<1>6. QED
  BY <1>4, <1>5, AsideSteps

\* The three steps of Download that change it.  There is a card, so no removal
\* has been confirmed; MakeDir makes the directory when it is missing.
LEMMA PublishStep == ASSUME StoreInv, MakeDir \/ RenameOutput \/ SyncDir  PROVE StoreInv'
<1> USE DEF StoreInv, Shapes, Seen, SaveInv, RemoveInv, CardInv, RecordsSurvive, RemovalsSurvive, history
<1>1. /\ at \in {"mkwork", "rename", "syncDir"} /\ up' = up
      /\ UNCHANGED <<op, saves, safe, card>>
  BY DEF MakeDir, RenameOutput, SyncDir, Moves, pipelineVars
<1>2. up /\ card /\ safe # {0} /\ op \notin RemoveSteps
  BY <1>1
<1>3. CASE MakeDir
  <2>1. after' = [dir |-> after.dir \union {TRUE}, meta |-> after.meta, video |-> after.video]
    BY <1>3 DEF MakeDir, DirMade
  <2>2. now' = [dir |-> TRUE, meta |-> now.meta, video |-> now.video]
    BY <1>3 DEF MakeDir, DirMade
  <2>3. Shapes' /\ Seen' /\ SaveInv'
    BY <1>1, <1>2, <2>1, <2>2
  <2>4. RemoveInv' /\ CardInv'
    BY <1>1, <1>2, <2>2
  <2>5. RecordsSurvive' /\ RemovalsSurvive'
    BY <1>1, <1>2, <2>1
  <2>6. QED
    BY <2>3, <2>4, <2>5
<1>4. CASE RenameOutput
  <2>1. after' = [dir |-> after.dir, meta |-> after.meta, video |-> after.video \union {work.output}]
    BY <1>4 DEF RenameOutput, VideoData
  <2>2. now' = [dir |-> now.dir, meta |-> now.meta, video |-> work.output]
    BY <1>4 DEF RenameOutput
  <2>3. at = "rename" /\ at' = "syncDir" /\ now.dir
    BY <1>4 DEF RenameOutput, Moves
  <2>4. Shapes' /\ Seen'
    BY <1>1, <2>1, <2>2
  <2>5. SaveInv' /\ RemoveInv' /\ CardInv'
    BY <1>1, <1>2, <2>2, <2>3
  <2>6. RecordsSurvive' /\ RemovalsSurvive'
    BY <1>1, <2>1
  <2>7. QED
    BY <2>4, <2>5, <2>6
<1>5. CASE SyncDir
  <2>0. at = "syncDir" /\ now.dir = TRUE
    BY <1>5 DEF SyncDir
  <2>1. after' = after \/ after' = [dir |-> {TRUE}, meta |-> {now.meta}, video |-> {now.video}]
    BY <1>5, <2>0 DEF SyncDir, DirSynced
  <2>2. now' = now
    BY <1>5 DEF SyncDir
  <2>3. SaveInv' /\ RemoveInv' /\ CardInv'
    BY <1>1, <1>2, <2>0, <2>2
  <2>4. CASE after' = after
    BY <1>1, <1>2, <2>2, <2>3, <2>4
  <2>5. CASE after' = [dir |-> {TRUE}, meta |-> {now.meta}, video |-> {now.video}]
    <3>1. Shapes' /\ Seen'
      BY <1>1, <2>0, <2>2, <2>5
    <3>2. RecordsSurvive' /\ RemovalsSurvive'
      BY <1>1, <1>2, <2>2, <2>5
    <3>3. QED
      BY <2>3, <3>1, <3>2
  <2>6. QED
    BY <2>1, <2>4, <2>5
<1>6. QED
  BY <1>3, <1>4, <1>5

\* A crash, or a power loss that leaves what may be left.
LEMMA StopStep == ASSUME StoreInv, Crash \/ PowerLoss  PROVE StoreInv'
<1> USE DEF StoreInv, Shapes, Seen, SaveInv, RemoveInv, CardInv, RecordsSurvive, RemovalsSurvive, history
<1>1. op' = "idle" /\ at' = "idle" /\ card' = FALSE /\ UNCHANGED <<saves, safe>>
  BY DEF Crash, PowerLoss, Stops
<1>2. CASE UNCHANGED <<now, after>>
  BY <1>1, <1>2
<1>3. CASE LosePower
  <2>1. PICK d \in Survivors : now' = Surviving(d)
    BY <1>3 DEF LosePower
  <2>2. /\ after' = [dir |-> {now'.dir}, meta |-> {now'.meta}, video |-> {now'.video}]
        /\ d = [dir |-> d.dir, meta |-> d.meta, video |-> d.video]
        /\ d.dir \in after.dir /\ d.meta \in after.meta
    BY <1>3, <2>1 DEF LosePower, Settled, Survivors
  <2>3. CASE d.dir = TRUE
    <3>1. now' = d
      BY <2>1, <2>3 DEF Surviving
    <3>2. QED
      BY <1>1, <2>2, <2>3, <3>1
  <2>4. CASE d.dir = FALSE
    <3>1. now' = [dir |-> FALSE, meta |-> 0, video |-> NoVideo]
      BY <2>1, <2>4 DEF Surviving
    <3>2. 0 \in safe
      BY <2>2, <2>4
    <3>3. QED
      BY <1>1, <2>2, <3>1, <3>2
  <2>5. QED
    BY <2>2, <2>3, <2>4
<1>4. QED
  BY <1>2, <1>3 DEF Crash, PowerLoss

LEMMA StoreInvStep == ASSUME StoreInv, [Next]_vars  PROVE StoreInv'
<1>1. CASE StoreStep
  BY <1>1, SaveStep, RemoveStep DEF StoreStep
<1>2. CASE Crash \/ PowerLoss
  BY <1>2, StopStep
<1>3. CASE UNCHANGED vars
  BY <1>3 DEF vars, storeVars, history, pipelineVars, StoreInv, Shapes, Seen, SaveInv, RemoveInv,
              CardInv, RecordsSurvive, RemovalsSurvive
<1>4. CASE Aside
  BY <1>4, AsideStep
<1>5. CASE MakeDir \/ RenameOutput \/ SyncDir
  BY <1>5, PublishStep
<1>6. QED
  BY <1>1, <1>2, <1>3, <1>4, <1>5 DEF Next, GoroutinesRun, Pipeline, Aside

LEMMA StoreIsSafe == Spec => []StoreInv
BY StoreInvInit, StoreInvStep, PTL DEF Spec

\* Until a Remove begins, a power loss leaves at any moment, whole, the record of
\* the last Save that returned nil or of one attempted since, in a directory that
\* is there; from then on it may also leave no record, and Remove is not atomic.
\* A removal that Remove confirmed is not undone (Remove: "so the removal survives
\* an abrupt power loss").  It rests on a sync of videos/<id> making its own entry
\* last (DiskStore).
THEOREM StoreIsCrashSafe == Spec => []CrashSafe
<1>1. StoreInv => CrashSafe
  BY DEF StoreInv, CrashSafe
<1>2. QED
  BY <1>1, StoreIsSafe, PTL
-----------------------------------------------------------------------------
(* Run, and what Download makes of its outcome. *)

Ended == {"cleanup", "returned"}

\* A command runs, and an outcome waits, only in the step of its tool; a reader
\* is done with a stream that nobody holds, or gave it up; a kill had the context
\* for a reason, left nothing of the group, and is on its way to be told.
ReaderInv ==
  /\ reader \in [Streams -> Readers] /\ children \subseteq SUBSET Streams
  /\ \A s \in Streams : /\ reader[s] = "reading" => run
                        /\ reader[s] = "ended" => Closed(s)
                        /\ reader[s] = "off" => ~run /\ children = {}
  /\ run \/ leader # "running"
  /\ leader = "killed" => children = {}

OutcomeInv ==
  /\ run \in BOOLEAN /\ ctx \in BOOLEAN
  /\ run => outcome = "none" /\ at \in Tools
  /\ outcome # "none" => at \in Tools
  /\ result # "none" => at \in Ended
  /\ leader = "killed" => ctx /\ (run \/ outcome = "canceled" \/ result = "canceled")

RunInv == ReaderInv /\ OutcomeInv

LEMMA RunInvInit == Init => RunInv
BY DEF Init, RunnerIdle, AllReaders, RunInv, ReaderInv, OutcomeInv, Closed, Readers

LEMMA IdleRunInv ==
  ASSUME NextRunnerIdle, ctx' = FALSE, result' = "none"  PROVE RunInv'
BY DEF NextRunnerIdle, AllReaders, RunInv, ReaderInv, OutcomeInv, Closed, Readers

\* The steps that leave the runner alone are not taken at a tool.
LEMMA QuietStep ==
  ASSUME RunInv, UNCHANGED runnerVars,
         at' = at \/ at \notin Tools,
         result' = result \/ (at \notin Tools /\ result = "none"),
         result' # "none" => at' \in Ended
  PROVE  RunInv'
<1> USE DEF runnerVars, RunInv, ReaderInv, OutcomeInv, Closed
<1>1. CASE at' = at /\ result' = result
  BY <1>1
<1>2. CASE at \notin Tools
  <2>1. ~run /\ outcome = "none"
    BY <1>2
  <2>2. leader = "killed" => result' = "canceled"
    BY <1>2, <2>1
  <2>3. QED
    BY <2>1, <2>2
<1>3. QED
  BY <1>1, <1>2

\* One lemma for the runner's own steps.
LEMMA RunnerStep ==
  ASSUME RunInv, UNCHANGED <<at, result>>,
         \/ at \in Tools /\ Start
         \/ at \in Tools /\ StartFails
         \/ Kill \/ Wait \/ ReadersEnd \/ ChildEnds \/ Forks
         \/ \E t \in Streams : Hears(t) \/ GivesUp(t) \/ Prints(t)
         \/ Exits("exited") \/ Exits("failed")
  PROVE  RunInv'
<1> USE DEF RunInv, ReaderInv, OutcomeInv, Closed
<1>1. at \in Tools => at \notin Ended
  BY DEF Tools, Ended
<1>2. CASE at \in Tools /\ Start
  BY <1>1, <1>2 DEF Start, AllReaders, Readers
<1>3. CASE at \in Tools /\ StartFails
  BY <1>1, <1>3 DEF StartFails
<1>4. CASE Kill
  BY <1>4 DEF Kill, KilledGroup
<1>5. CASE Wait
  <2>1. run /\ leader # "running" /\ outcome = "none" /\ \A s \in Streams : reader[s] # "reading"
    BY <1>5 DEF Wait, MayWait
  <2>2. leader = "killed" => outcome' = "canceled"
    BY <1>5 DEF Wait, Returned
  <2>3. QED
    BY <1>5, <2>1, <2>2 DEF Wait
<1>6. CASE ReadersEnd
  <2>1. /\ reader' = [s \in Streams |-> IF reader[s] = "reading" THEN "ended" ELSE reader[s]]
        /\ \A s \in Streams : reader[s] = "reading" => Closed(s)
        /\ UNCHANGED <<ctx, run, leader, children, outcome>>
    BY <1>6 DEF ReadersEnd
  <2>2. QED
    BY <2>1 DEF Readers
<1>7. CASE ChildEnds \/ Forks
  BY <1>7 DEF ChildEnds, Forks
<1>8. ASSUME NEW t \in Streams, Hears(t) \/ Prints(t)  PROVE RunInv'
  BY <1>8 DEF Hears, Prints
<1>9. ASSUME NEW t \in Streams, GivesUp(t)  PROVE RunInv'
  BY <1>9 DEF GivesUp, Readers
<1>10. CASE Exits("exited") \/ Exits("failed")
  BY <1>10 DEF Exits
<1>11. QED
  BY <1>2, <1>3, <1>4, <1>5, <1>6, <1>7, <1>8, <1>9, <1>10

\* The caller looks: a command that was killed is never looked at as one that
\* failed or succeeded.
LEMMA LookStep == ASSUME RunInv, ToolFailed \/ ToolSucceeded  PROVE RunInv'
<1>1. /\ at \in Tools /\ outcome # "none" /\ outcome' = "none"
      /\ children' = {} /\ reader' = AllReaders("off")
      /\ UNCHANGED <<ctx, run, leader>>
  BY DEF ToolFailed, ToolSucceeded, Looks, Tools, Fetched, Downloaded, VideoProbed,
         AudioProbed, OutputProbed, Continues, Gives
<1>2. ~run /\ result = "none"
  BY <1>1 DEF RunInv, OutcomeInv, Tools, Ended
<1>3. leader = "killed" => outcome = "canceled"
  BY <1>2 DEF RunInv, OutcomeInv
<1>4. leader = "killed" => result' = "canceled"
  BY <1>3 DEF ToolFailed, ToolSucceeded, Leaves, Fetched, Downloaded, VideoProbed,
              AudioProbed, OutputProbed, Continues, Gives
<1>5. result' # "none" => at' \in Ended
  BY <1>2 DEF ToolFailed, ToolSucceeded, Leaves, Fetched, Downloaded, VideoProbed,
              AudioProbed, OutputProbed, Continues, Gives, Ended
<1>6. OutcomeInv'
  BY <1>1, <1>2, <1>4, <1>5 DEF RunInv, OutcomeInv
<1>7. ReaderInv'
  BY <1>1, <1>2 DEF RunInv, ReaderInv, AllReaders, Readers, Closed
<1>8. QED
  BY <1>6, <1>7 DEF RunInv

LEMMA RunInvStep == ASSUME RunInv, [Next]_vars  PROVE RunInv'
<1>1. CASE StoreStep \/ Boot \/ Cleanup
  <2>1. UNCHANGED <<runnerVars, result>> /\ (at' = at \/ (at \notin Tools /\ at' \in Ended))
    BY <1>1 DEF StoreStep, Boot, Cleanup, Moves, Tools, Ended
  <2>2. result' # "none" => at' \in Ended
    BY <2>1 DEF RunInv, OutcomeInv
  <2>3. QED
    BY <2>1, <2>2, QuietStep
<1>2. CASE BeginDownload \/ ClearWork \/ MakeWork \/ Report \/ SyncOutput \/ RenameOutput
  <2>1. UNCHANGED <<runnerVars, result>> /\ at \notin Tools /\ at \notin Ended
    BY <1>2 DEF BeginDownload, ClearWork, MakeWork, Report, Reported, SyncOutput, RenameOutput,
                Moves, Tools, Ended
  <2>2. result = "none"
    BY <2>1 DEF RunInv, OutcomeInv
  <2>3. QED
    BY <2>1, <2>2, QuietStep
<1>3. CASE CheckContext \/ WorkFails \/ CloseFails \/ PublishFails \/ SyncDir
  <2>1. /\ UNCHANGED runnerVars /\ at \notin Tools /\ at \notin Ended
        /\ (result' = result \/ at' \in Ended)
    BY <1>3 DEF CheckContext, Checked, WorkFails, CloseFails, PublishFails, SyncDir, Leaves, Tools, Ended
  <2>2. result = "none"
    BY <2>1 DEF RunInv, OutcomeInv
  <2>3. QED
    BY <2>1, <2>2, QuietStep
<1>4. CASE TakeResult \/ Crash \/ PowerLoss
  BY <1>4, IdleRunInv DEF TakeResult, Crash, PowerLoss, Stops
<1>5. CASE StartTool \/ ToolCannotStart
  BY <1>5, RunnerStep DEF StartTool, ToolCannotStart
<1>6. CASE Waits \/ Kills \/ Reads
  BY <1>6, RunnerStep DEF Waits, Kills, Reads, pipelineVars
<1>7. CASE ToolRuns \/ ToolExits
  <2>1. Listened \subseteq Streams
    BY DEF Listened, Streams
  <2>2. QED
    BY <1>7, <2>1, RunnerStep DEF ToolRuns, ToolExits, pipelineVars
<1>8. CASE ToolFailed \/ ToolSucceeded
  BY <1>8, LookStep
<1>9. CASE Cancel
  BY <1>9 DEF Cancel, pipelineVars, RunInv, ReaderInv, OutcomeInv, Closed
<1>10. CASE MakeDir \/ UNCHANGED vars
  BY <1>10, QuietStep DEF MakeDir, vars, pipelineVars, RunInv, OutcomeInv
<1>11. QED
  BY <1>1, <1>2, <1>3, <1>4, <1>5, <1>6, <1>7, <1>8, <1>9, <1>10 DEF Next, GoroutinesRun, Pipeline

LEMMA RunIsSafe == Spec => []RunInv
BY RunInvInit, RunInvStep, PTL DEF Spec

\* When Run has returned, the process it started is gone and no reader is at work;
\* a child is left only with no pipe, or with one whose reader gave up; and if Run
\* killed the command, no child is (ProcessRunner).
THEOREM RunLeavesNothing == Spec => []NothingOutlivesRun
<1>1. ASSUME RunInv, ~run
      PROVE  /\ leader # "running" /\ \A s \in Streams : reader[s] # "reading"
             /\ \A child \in children : \A s \in Streams : s \in child => reader[s] = "gaveUp"
  <2>1. ASSUME NEW s \in Streams  PROVE reader[s] \in {"off", "ended", "gaveUp"}
    BY <1>1 DEF RunInv, ReaderInv, Readers
  <2>2. QED
    BY <1>1, <2>1 DEF RunInv, ReaderInv, Closed
<1>2. RunInv => NothingOutlivesRun
  BY <1>1 DEF RunInv, ReaderInv, NothingOutlivesRun
<1>3. QED
  BY <1>2, RunIsSafe, PTL

\* A tool that we killed makes an interrupted download, never a failed one,
\* at whatever moment of whichever tool the cancellation came (publicError).
THEOREM KillsAreNotBlamed == Spec => []KillIsNotBlamed
<1>1. RunInv => KillIsNotBlamed
  BY DEF RunInv, OutcomeInv, KillIsNotBlamed, Tools, Ended
<1>2. QED
  BY <1>1, RunIsSafe, PTL
-----------------------------------------------------------------------------
(* The media file. *)

ToPublish == {"verified", "sync", "rename"}

VideoInv ==
  /\ PublishedIsVerified
  /\ at \in ToPublish => work.output.is = "good"

LEMMA VideoInvInit == Init => VideoInv
BY DEF Init, StoreInit, Surviving, Settled, VideoInv, PublishedIsVerified, ToPublish

\* What may be left of the video does not grow, and nothing comes to publish.
LEMMA VideoKept ==
  ASSUME VideoInv, after'.video \subseteq after.video \union {NoVideo},
         at' \in ToPublish => at \in ToPublish /\ work'.output = work.output
  PROVE  VideoInv'
BY DEF VideoInv, PublishedIsVerified

LEMMA VideoStoreStep == ASSUME StoreInv, StoreInv', VideoInv, StoreStep  PROVE VideoInv'
<1>1. after'.video \subseteq after.video \union {NoVideo}
  <2> USE DEF StoreInv, Shapes, Seen
  <2>1. CASE BeginSave \/ SaveMakesDir \/ WriteRecord \/ SaveFails
    BY <2>1 DEF BeginSave, SaveMakesDir, DirMade, WriteRecord, PutRecord, SaveFails
  <2>2. CASE EndSave
    BY <2>2 DEF EndSave, SaveSyncs, DirSynced
  <2>3. CASE BeginRemove \/ UnlinkRecord \/ RemoveDir \/ RemoveStops
    BY <2>3 DEF BeginRemove, UnlinkRecord, RemoveDir, RemoveStops
  <2>4. CASE UnlinkVideo
    BY <2>4 DEF UnlinkVideo
  <2>5. CASE EndRemove
    BY <2>5 DEF EndRemove, RootSynced, Settled
  <2>6. QED
    BY <2>1, <2>2, <2>3, <2>4, <2>5 DEF StoreStep, Save, Removes
<1>2. at' \in ToPublish => work' = work /\ at' = at
  BY DEF StoreStep, WorkLeft, StoreInv, CardInv, ToPublish
<1>3. QED
  BY <1>1, <1>2, VideoKept

LEMMA VideoStopStep == ASSUME StoreInv, VideoInv, Crash \/ PowerLoss  PROVE VideoInv'
<1>1. at' = "idle"
  BY DEF Crash, PowerLoss, Stops
<1>2. CASE UNCHANGED after
  BY <1>1, <1>2, VideoKept DEF ToPublish
<1>3. CASE LosePower
  <2>1. PICK d \in Survivors : now' = Surviving(d) /\ after' = Settled(now')
    BY <1>3 DEF LosePower
  <2>2. now'.video \in after.video \union {NoVideo}
    BY <2>1 DEF Survivors, Surviving
  <2>3. after'.video = {now'.video}
    BY <2>1 DEF Settled
  <2>4. QED
    BY <1>1, <2>2, <2>3, VideoKept DEF ToPublish
<1>4. QED
  BY <1>2, <1>3 DEF Crash, PowerLoss

LEMMA VideoInvStep == ASSUME StoreInv, StoreInv', RunInv, VideoInv, [Next]_vars  PROVE VideoInv'
<1>1. CASE StoreStep
  BY <1>1, VideoStoreStep
<1>2. CASE Crash \/ PowerLoss
  BY <1>2, VideoStopStep
<1>3. CASE BeginDownload \/ ClearWork \/ MakeDir \/ MakeWork \/ Report \/ WorkFails \/ Cleanup \/ TakeResult \/ Boot
  <2>1. after'.video = after.video
    BY <1>3 DEF BeginDownload, ClearWork, MakeDir, DirMade, MakeWork, Report, WorkFails, Cleanup,
                TakeResult, Boot, storeVars, StoreInv, Shapes
  <2>2. CASE BeginDownload \/ ClearWork \/ MakeDir \/ MakeWork \/ Report \/ Cleanup \/ TakeResult
    BY <2>1, <2>2, VideoKept DEF BeginDownload, ClearWork, MakeDir, MakeWork, Report, Reported,
                                 Cleanup, TakeResult, Moves, pipelineVars, ToPublish
  <2>3. CASE WorkFails
    BY <2>1, <2>3, VideoKept DEF WorkFails, Leaves, ToPublish
  <2>4. CASE Boot
    BY <2>1, <2>4, VideoKept DEF Boot, StoreInv, CardInv, ToPublish
  <2>5. QED
    BY <1>3, <2>2, <2>3, <2>4
<1>4. CASE CheckContext \/ SyncOutput \/ CloseFails \/ PublishFails
  <2>1. after' = after /\ work' = work /\ (at' \in ToPublish => at \in ToPublish)
    BY <1>4 DEF CheckContext, Checked, SyncOutput, CloseFails, PublishFails, Leaves, Moves, storeVars, ToPublish
  <2>2. QED
    BY <2>1, VideoKept
<1>5. CASE RenameOutput
  <2>1. after'.video = after.video \union {work.output} /\ at' = "syncDir" /\ work.output.is = "good"
    BY <1>5 DEF RenameOutput, VideoData, Moves, VideoInv, ToPublish, StoreInv, Shapes
  <2>2. QED
    BY <2>1 DEF VideoInv, PublishedIsVerified, ToPublish
<1>6. CASE SyncDir
  <2>1. at' \notin ToPublish
    BY <1>6 DEF SyncDir, Leaves, ToPublish
  <2>2. after' = [dir |-> {TRUE}, meta |-> {now.meta}, video |-> {now.video}] \/ after' = after
    BY <1>6 DEF SyncDir, DirSynced
  <2>3. after'.video \subseteq after.video
    <3>1. {now.video} \subseteq after.video
      BY DEF StoreInv, Seen
    <3>2. [dir |-> {TRUE}, meta |-> {now.meta}, video |-> {now.video}].video = {now.video}
      OBVIOUS
    <3>3. QED
      BY <2>2, <3>1, <3>2
  <2>4. QED
    BY <2>1, <2>3, VideoKept
<1>7. CASE StartTool \/ ToolCannotStart \/ ToolExits
  <2>1. after' = after /\ at' = at /\ at \in Tools
    BY <1>7 DEF StartTool, ToolCannotStart, ToolExits, Exits, RunInv, OutcomeInv, storeVars
  <2>2. QED
    BY <2>1, VideoKept DEF Tools, ToPublish
<1>8. CASE ToolRuns \/ Kills \/ Waits \/ Reads \/ Cancel \/ UNCHANGED vars
  <2>1. UNCHANGED <<after, at, work>>
    BY <1>8 DEF ToolRuns, Kills, Waits, Reads, Cancel, vars, storeVars, pipelineVars
  <2>2. QED
    BY <2>1, VideoKept
<1>9. CASE ToolFailed \/ ToolSucceeded
  <2>1. UNCHANGED <<after, work>>
    BY <1>9 DEF ToolFailed, ToolSucceeded, storeVars
  <2>2. at' \notin ToPublish \/ (Accepts /\ at' = "verified")
    BY <1>9 DEF ToolFailed, ToolSucceeded, Leaves, Fetched, Downloaded, VideoProbed, AudioProbed,
                OutputProbed, Continues, Gives, ToPublish
  <2>3. QED
    BY <2>1, <2>2 DEF VideoInv, PublishedIsVerified, Accepts
<1>10. QED
  BY <1>1, <1>2, <1>3, <1>4, <1>5, <1>6, <1>7, <1>8, <1>9 DEF Next, GoroutinesRun, Pipeline

\* Whatever may be served as the video, now or after a power loss at any moment,
\* is a whole file that passed every check (publish: "the verified MP4").
THEOREM OnlyVerifiedIsPublished == Spec => []PublishedIsVerified
<1>1. VideoInv => PublishedIsVerified
  BY DEF VideoInv
<1>2. StoreInv /\ RunInv /\ VideoInv /\ [Next]_vars => StoreInv' /\ RunInv' /\ VideoInv'
  BY StoreInvStep, RunInvStep, VideoInvStep
<1>3. QED
  BY <1>1, <1>2, StoreInvInit, RunInvInit, VideoInvInit, PTL DEF Spec
-----------------------------------------------------------------------------
(* Whose file it is. *)

ToConvert  == {"probeVideo", "audio", "probeAudio", "toConvert", "convert"}
Converted  == {"toVerify", "probeOutput", "verified", "sync", "rename"}

\* From the moment work is cleared, nothing in it is of an earlier download; the
\* streams, and then the output, are there when their tool has ended well.
OwnInv ==
  /\ work = [dir |-> work.dir, streams |-> work.streams, output |-> work.output]
  /\ work.output = [by |-> work.output.by, is |-> work.output.is]
  /\ at \in {"mkwork", "prepared", "video"} => work.streams \in {0, attempt}
  /\ at = "video" /\ (outcome = "ok" \/ (run /\ leader = "exited")) => work.streams = attempt
  /\ at \in ToConvert \union Converted => work.streams = attempt
  /\ at = "convert" /\ (outcome = "ok" \/ run) => work.output.by = attempt
  /\ at \in Converted => work.output.by = attempt

LEMMA OwnInvInit == Init => OwnInv
BY DEF Init, NoWork, RunnerIdle, OwnInv, ToConvert, Converted

\* The directory of work is made or goes, and no tool is at work.
LEMMA OwnOutside ==
  ASSUME OwnInv, work' \in {work, NoWork, [work EXCEPT !.dir = TRUE]},
         at' \in {"idle", "fetch", "clear", "cleanup", "returned"}
  PROVE  OwnInv'
BY DEF OwnInv, NoWork, ToConvert, Converted

\* Download moves on between the tools.
LEMMA OwnMoves ==
  ASSUME RunInv, OwnInv,
         ClearWork \/ MakeWork \/ Report \/ CheckContext \/ SyncOutput \/ RenameOutput
  PROVE  OwnInv'
<1> USE DEF OwnInv, ToConvert, Converted, Moves
<1>1. CASE ClearWork
  BY <1>1 DEF ClearWork, FreshWork, NoWork
<1>2. CASE MakeWork
  BY <1>2 DEF MakeWork
<1>3. CASE Report
  <2>1. ~run /\ outcome = "none"
    BY <1>3 DEF Report, Reported, RunInv, OutcomeInv, Tools
  <2>2. UNCHANGED <<work, attempt, run, outcome>>
    BY <1>3 DEF Report, runnerVars
  <2>3. QED
    BY <1>3, <2>1, <2>2 DEF Report, Reported
<1>4. CASE CheckContext
  BY <1>4 DEF CheckContext, Checked, Leaves
<1>5. CASE SyncOutput
  BY <1>5 DEF SyncOutput
<1>6. CASE RenameOutput
  BY <1>6 DEF RenameOutput
<1>7. QED
  BY <1>1, <1>2, <1>3, <1>4, <1>5, <1>6

LEMMA OwnStartStep == ASSUME OwnInv, StartTool  PROVE OwnInv'
<1>1. at' = at /\ attempt' = attempt /\ at \in Tools
  BY DEF StartTool
<1>2. outcome' # "ok" /\ (run' => leader' = "running")
  BY DEF StartTool, Start
<1>3. CASE at = "convert" /\ run'
  <2>1. work' = [work EXCEPT !.output = [by |-> work.streams, is |-> "partial"]]
    BY <1>3 DEF StartTool, WorkAtStart
  <2>2. QED
    BY <1>1, <1>2, <1>3, <2>1 DEF OwnInv, ToConvert, Converted
<1>4. CASE ~(at = "convert" /\ run')
  <2>1. work' = work
    BY <1>4 DEF StartTool, WorkAtStart
  <2>2. QED
    BY <1>1, <1>2, <1>4, <2>1 DEF OwnInv, ToConvert, Converted
<1>5. QED
  BY <1>3, <1>4

LEMMA OwnExitStep == ASSUME RunInv, OwnInv, ToolExits  PROVE OwnInv'
<1>1. at' = at /\ attempt' = attempt /\ run /\ run' = run /\ outcome' = outcome /\ outcome = "none"
  BY DEF ToolExits, Exits, RunInv, OutcomeInv
<1>2. CASE work' = work /\ leader' = "failed"
  BY <1>1, <1>2 DEF OwnInv
<1>3. CASE work' \in Products
  <2>1. CASE at \in {"video", "audio"} /\ work.streams = 0
    <3>1. work' = [work EXCEPT !.streams = attempt]
      BY <1>3, <2>1 DEF Products
    <3>2. QED
      BY <1>1, <2>1, <3>1 DEF OwnInv, ToConvert, Converted
  <2>2. CASE at = "convert"
    <3>1. PICK kind \in {"unfit", "short", "good"} : work' = [work EXCEPT !.output.is = kind]
      BY <1>3, <2>2 DEF Products
    <3>2. work'.output = [work.output EXCEPT !.is = kind] /\ work'.streams = work.streams
          /\ work'.dir = work.dir /\ work' = [dir |-> work.dir, streams |-> work.streams,
                                             output |-> [work.output EXCEPT !.is = kind]]
      BY <3>1 DEF OwnInv
    <3>3. work'.output.by = work.output.by /\ work'.output = [by |-> work.output.by, is |-> kind]
      BY <3>2 DEF OwnInv
    <3>4. QED
      BY <1>1, <2>2, <3>2, <3>3 DEF OwnInv, ToConvert, Converted
  <2>3. CASE at # "convert" /\ ~(at \in {"video", "audio"} /\ work.streams = 0)
    <3>1. work' = work
      BY <1>3, <2>3 DEF Products
    <3>2. QED
      BY <1>1, <2>3, <3>1 DEF OwnInv, ToConvert, Converted
  <2>4. QED
    BY <2>1, <2>2, <2>3
<1>4. QED
  BY <1>2, <1>3 DEF ToolExits, Exits

\* What a run does beside its tool's start and end.
LEMMA OwnRunStep ==
  ASSUME RunInv, OwnInv,
         \/ ToolCannotStart \/ ToolRuns \/ Kills \/ Waits \/ Reads \/ Cancel \/ MakeDir
         \/ UNCHANGED vars
  PROVE  OwnInv'
<1>1. UNCHANGED <<at, attempt, work>>
  BY DEF MakeDir, ToolCannotStart, ToolRuns, Kills, Waits, Reads, Cancel, vars, pipelineVars
<1>2. CASE Waits
  <2>1. run /\ ~run' /\ (outcome' = "ok" => leader = "exited")
    BY <1>2 DEF Waits, Wait, MayWait, Returned
  <2>2. QED
    BY <1>1, <2>1 DEF OwnInv
<1>3. CASE ToolCannotStart
  BY <1>1, <1>3 DEF ToolCannotStart, StartFails, OwnInv
<1>4. CASE ToolRuns
  <2>1. UNCHANGED <<run, leader, outcome>>
    BY <1>4 DEF ToolRuns, Forks, ChildEnds, Prints
  <2>2. QED
    BY <1>1, <2>1 DEF OwnInv
<1>5. CASE Kills
  <2>1. UNCHANGED <<run, outcome>> /\ (leader' = "exited" => leader = "exited")
    BY <1>5 DEF Kills, Kill
  <2>2. QED
    BY <1>1, <2>1 DEF OwnInv
<1>6. CASE Reads \/ Cancel \/ MakeDir \/ UNCHANGED vars
  <2>1. UNCHANGED <<run, leader, outcome>>
    BY <1>6 DEF Reads, ReadersEnd, Hears, GivesUp, Cancel, MakeDir, vars, runnerVars
  <2>2. QED
    BY <1>1, <2>1 DEF OwnInv
<1>7. QED
  BY <1>2, <1>3, <1>4, <1>5, <1>6

\* The caller looks, and goes on only with what a tool that ended well has left.
LEMMA OwnLookStep == ASSUME OwnInv, ToolFailed \/ ToolSucceeded  PROVE OwnInv'
<1>1. UNCHANGED <<work, attempt>> /\ outcome' = "none"
  BY DEF ToolFailed, ToolSucceeded, Looks, Fetched, Downloaded, VideoProbed,
         AudioProbed, OutputProbed, Continues, Gives
<1>2. \/ at' \in {"cleanup", "returned"}
      \/ at = "fetch" /\ at' = "clear"
      \/ at = "video" /\ outcome = "ok" /\ at' = "probeVideo"
      \/ at \in ToConvert /\ at' \in {"audio", "probeAudio", "toConvert"}
      \/ at = "convert" /\ outcome = "ok" /\ at' = "toVerify"
      \/ at \in Converted /\ at' = "verified"
  BY DEF ToolFailed, ToolSucceeded, Leaves, Looks, Fetched, Downloaded, VideoProbed,
         AudioProbed, OutputProbed, Continues, Gives, ToConvert, Converted
<1>3. QED
  BY <1>1, <1>2 DEF OwnInv, ToConvert, Converted

LEMMA OwnInvStep ==
  ASSUME StoreInv, StoreInv', RunInv, OwnInv, [Next]_vars  PROVE OwnInv'
<1>1. CASE StoreStep
  <2>1. UNCHANGED <<at, attempt, run, leader, outcome>> /\ work' = WorkLeft
    BY <1>1 DEF StoreStep, runnerVars
  <2>2. CASE at = "idle"
    BY <2>1, <2>2, OwnOutside DEF WorkLeft
  <2>3. CASE at \notin {"idle", "fetch", "clear", "mkwork", "returned"}
    BY <2>1, <2>3 DEF WorkLeft, StoreInv, CardInv, OwnInv
  <2>4. CASE at \in {"fetch", "clear", "returned"}
    BY <2>1, <2>4, OwnOutside DEF WorkLeft
  <2>5. CASE at = "mkwork"
    BY <2>1, <2>5 DEF WorkLeft, NoWork, OwnInv, ToConvert, Converted
  <2>6. QED
    BY <2>2, <2>3, <2>4, <2>5
<1>2. CASE BeginDownload \/ WorkFails \/ Cleanup \/ TakeResult
  <2>1. work' \in {work, NoWork}
    BY <1>2 DEF BeginDownload, WorkFails, Cleanup, TakeResult
  <2>2. at' \in {"idle", "fetch", "clear", "cleanup", "returned"}
    BY <1>2 DEF BeginDownload, WorkFails, Cleanup, TakeResult, Leaves, Moves
  <2>3. QED
    BY <2>1, <2>2, OwnOutside
<1>3. CASE Crash \/ PowerLoss \/ Boot
  <2>1. work' \in {work, NoWork} /\ at' = "idle"
    BY <1>3 DEF Crash, PowerLoss, Stops, Boot, WorkLeft, StoreInv, CardInv
  <2>2. QED
    BY <2>1, OwnOutside
<1>4. CASE ClearWork \/ MakeWork \/ Report \/ CheckContext \/ SyncOutput \/ RenameOutput
  BY <1>4, OwnMoves
<1>5. CASE CloseFails \/ PublishFails \/ SyncDir
  <2>1. work' = work /\ at' = "cleanup"
    BY <1>5 DEF CloseFails, PublishFails, SyncDir, Leaves
  <2>2. QED
    BY <2>1, OwnOutside
<1>6. CASE StartTool
  BY <1>6, OwnStartStep
<1>7. CASE ToolExits
  BY <1>7, OwnExitStep
<1>8. CASE ToolFailed \/ ToolSucceeded
  BY <1>8, OwnLookStep
<1>9. CASE \/ ToolCannotStart \/ ToolRuns \/ Kills \/ Waits \/ Reads \/ Cancel \/ MakeDir
           \/ UNCHANGED vars
  BY <1>9, OwnRunStep
<1>10. QED
  BY <1>1, <1>2, <1>3, <1>4, <1>5, <1>6, <1>7, <1>8, <1>9 DEF Next, GoroutinesRun, Pipeline

\* Only RenameOutput puts a video into place.
LEMMA OwnPublished ==
  ASSUME StoreInv, OwnInv, [Next]_vars, up', now'.video \notin {now.video, NoVideo}
  PROVE  now'.video.by = attempt
<1> USE DEF StoreInv, Shapes
<1>1. CASE StoreStep
  <2>1. CASE Save
    BY <2>1 DEF Save, BeginSave, SaveMakesDir, DirMade, WriteRecord, PutRecord, EndSave, SaveFails
  <2>2. CASE BeginRemove \/ Removes
    BY <2>2 DEF BeginRemove, Removes, UnlinkRecord, UnlinkVideo, RemoveDir, EndRemove, RemoveStops
  <2>3. QED
    BY <1>1, <2>1, <2>2 DEF StoreStep
<1>2. CASE RenameOutput
  BY <1>2 DEF RenameOutput, OwnInv, Converted, Moves
<1>3. CASE MakeDir
  BY <1>3 DEF MakeDir, DirMade
<1>4. CASE Crash \/ PowerLoss
  BY <1>4 DEF Crash, PowerLoss, Stops
<1>5. CASE \/ BeginDownload \/ ClearWork \/ MakeWork \/ Report \/ CheckContext \/ WorkFails \/ Cleanup
           \/ TakeResult \/ SyncOutput \/ CloseFails \/ PublishFails \/ SyncDir \/ Boot
  <2>1. now' = now
    BY <1>5 DEF BeginDownload, ClearWork, MakeWork, Report, CheckContext, WorkFails, Cleanup, TakeResult,
                SyncOutput, CloseFails, PublishFails, SyncDir, Boot, storeVars
  <2>2. QED
    BY <2>1
<1>6. CASE \/ StartTool \/ ToolCannotStart \/ ToolExits \/ ToolRuns \/ Kills \/ Waits \/ Reads
           \/ ToolFailed \/ ToolSucceeded \/ Cancel \/ UNCHANGED vars
  <2>1. now' = now
    BY <1>6 DEF StartTool, ToolCannotStart, ToolExits, ToolRuns, Kills, Waits, Reads, ToolFailed,
                ToolSucceeded, Cancel, vars, storeVars
  <2>2. QED
    BY <2>1
<1>7. QED
  BY <1>1, <1>2, <1>3, <1>4, <1>5, <1>6 DEF Next, GoroutinesRun, Pipeline

\* A video that is put into place is the work, from its streams on, of the Download
\* that puts it there, whatever earlier downloads and crashes have left (Download
\* removes work before it makes it).
THEOREM VideosAreOwn == Spec => PublishedIsOwn
<1>1. Init => StoreInv /\ RunInv /\ OwnInv
  BY StoreInvInit, RunInvInit, OwnInvInit
<1>2. StoreInv /\ RunInv /\ OwnInv /\ [Next]_vars => StoreInv' /\ RunInv' /\ OwnInv'
  BY StoreInvStep, RunInvStep, OwnInvStep
<1>3. StoreInv /\ OwnInv /\ [Next]_vars
        => [up' /\ now'.video \notin {now.video, NoVideo} => now'.video.by = attempt]_vars
  BY OwnPublished
<1>4. QED
  BY <1>1, <1>2, <1>3, PTL DEF Spec, PublishedIsOwn
-----------------------------------------------------------------------------
(* What the manager sees. *)

Returns == {"succeeded", "errored", "canceled"}

\* A directory that is gone has nothing in it; a run is called off only under a
\* context that is done; Download has a result when it is through.
SeenInv ==
  /\ ~now.dir => now.meta = NoRecord /\ now.video = NoVideo
  /\ outcome = "canceled" => ctx
  /\ at \in Ended => result \in Returns

LEMMA SeenInvInit == Init => SeenInv
BY DEF Init, StoreInit, Surviving, RunnerIdle, SeenInv, Ended

LEMMA SeenStoreStep == ASSUME StoreInv, SeenInv, StoreStep  PROVE SeenInv'
<1> USE DEF StoreInv, Shapes, SaveInv, RemoveInv
<1>1. UNCHANGED <<outcome, ctx, at, result>>
  BY DEF StoreStep, runnerVars
<1>2. ~now'.dir => now'.meta = NoRecord /\ now'.video = NoVideo
  <2> USE DEF SeenInv
  <2>1. CASE BeginSave \/ EndSave \/ SaveFails \/ BeginRemove \/ EndRemove \/ RemoveStops
    BY <2>1 DEF BeginSave, EndSave, SaveFails, BeginRemove, EndRemove, RemoveStops
  <2>2. CASE SaveMakesDir
    BY <2>2 DEF SaveMakesDir, DirMade
  <2>3. CASE WriteRecord
    BY <2>3 DEF WriteRecord, PutRecord
  <2>4. CASE UnlinkRecord \/ UnlinkVideo \/ RemoveDir
    BY <2>4 DEF UnlinkRecord, UnlinkVideo, RemoveDir
  <2>5. QED
    BY <2>1, <2>2, <2>3, <2>4 DEF StoreStep, Save, Removes
<1>3. QED
  BY <1>1, <1>2 DEF SeenInv

LEMMA SeenInvStep == ASSUME StoreInv, SeenInv, RunInv, [Next]_vars  PROVE SeenInv'
<1>1. CASE StoreStep
  BY <1>1, SeenStoreStep
<1>2. CASE BeginDownload \/ ClearWork \/ MakeWork \/ Report \/ SyncOutput \/ Cleanup \/ TakeResult \/ Boot
  <2>1. \/ UNCHANGED <<now, outcome, ctx, result>> /\ (at' \in Ended => at \in Ended)
        \/ now' = now /\ outcome' = "none" /\ at' = "idle"
    BY <1>2 DEF BeginDownload, ClearWork, MakeWork, Report, Reported, SyncOutput, Cleanup, TakeResult,
                Boot, Moves, NextRunnerIdle, storeVars, runnerVars, Ended
  <2>2. QED
    BY <2>1 DEF SeenInv, Ended
<1>3. CASE MakeDir
  BY <1>3 DEF MakeDir, DirMade, runnerVars, pipelineVars, SeenInv, Ended, StoreInv, Shapes
<1>4. CASE RenameOutput
  BY <1>4 DEF RenameOutput, Moves, runnerVars, SeenInv, Ended, StoreInv, Shapes, CardInv
<1>5. CASE CheckContext \/ WorkFails \/ CloseFails \/ PublishFails \/ SyncDir
  <2>1. UNCHANGED <<now, outcome, ctx>> /\ (at' \in Ended => result' \in Returns)
    BY <1>5 DEF CheckContext, Checked, WorkFails, CloseFails, PublishFails, SyncDir, Leaves,
                storeVars, runnerVars, Returns, Ended
  <2>2. QED
    BY <2>1 DEF SeenInv
<1>6. CASE StartTool \/ ToolCannotStart \/ Waits
  <2>1. UNCHANGED <<now, ctx, at, result>> /\ (outcome' = "canceled" => outcome = "canceled" \/ ctx)
    BY <1>6 DEF StartTool, Start, ToolCannotStart, StartFails, Waits, Wait, Returned, storeVars,
                pipelineVars
  <2>2. QED
    BY <2>1 DEF SeenInv
<1>7. CASE ToolExits \/ ToolRuns \/ Kills \/ Reads \/ Cancel \/ UNCHANGED vars
  <2>1. UNCHANGED <<now, outcome, at, result>> /\ (ctx => ctx')
    BY <1>7 DEF ToolExits, Exits, ToolRuns, Forks, ChildEnds, Prints, Kills, Kill, Reads, ReadersEnd,
                GivesUp, Hears, Cancel, vars, storeVars, runnerVars, pipelineVars
  <2>2. QED
    BY <2>1 DEF SeenInv
<1>8. CASE ToolFailed \/ ToolSucceeded
  <2>1. now' = now /\ outcome' = "none" /\ (at' \in Ended => result' \in Returns)
    BY <1>8 DEF ToolFailed, ToolSucceeded, Looks, Leaves, Fetched, Downloaded, VideoProbed, AudioProbed,
                OutputProbed, Continues, Gives, storeVars, Returns, Ended, Tools
  <2>2. QED
    BY <2>1 DEF SeenInv
<1>9. CASE Crash \/ PowerLoss
  <2>1. outcome' = "none" /\ at' = "idle"
    BY <1>9 DEF Crash, PowerLoss, Stops, NextRunnerIdle
  <2>2. now' = now \/ \E d \in Survivors : now' = Surviving(d)
    BY <1>9 DEF Crash, PowerLoss, LosePower
  <2>3. QED
    BY <2>1, <2>2 DEF SeenInv, Survivors, Surviving, Ended
<1>10. QED
  BY <1>1, <1>2, <1>3, <1>4, <1>5, <1>6, <1>7, <1>8, <1>9 DEF Next, GoroutinesRun, Pipeline
-----------------------------------------------------------------------------
(* When a power loss takes nothing back. *)

Untroubled == left = [faults |-> MaxFaults, stops |-> MaxStops]
Resting    == op = "idle" /\ at # "syncDir"

\* While nothing has failed and nothing was cut short, the directory of a card is
\* there but in a removal, and all of it lasts between the calls.
RestInv ==
  /\ left \in [faults : 0..MaxFaults, stops : 0..MaxStops]
  /\ Untroubled => /\ card /\ op \notin RemoveSteps => now.dir
                   /\ Resting => after = Settled(now)

LEMMA RestInvInit == Init => RestInv
BY BoundsAssumption DEF Init, StoreInit, Surviving, Settled, RestInv

\* A fault or a stop is counted.
LEMMA FaultCounts ==
  ASSUME RestInv,
         \/ Fault
         \/ left.stops > 0 /\ left' = [left EXCEPT !.stops = @ - 1]
  PROVE  RestInv'
<1>1. PICK f \in 0..MaxFaults, n \in 0..MaxStops : left = [faults |-> f, stops |-> n]
  BY DEF RestInv
<1>2. \/ f > 0 /\ left' = [faults |-> f - 1, stops |-> n]
      \/ n > 0 /\ left' = [faults |-> f, stops |-> n - 1]
  BY <1>1 DEF Fault
<1>3. left' \in [faults : 0..MaxFaults, stops : 0..MaxStops]
  BY <1>2, BoundsAssumption
<1>4. left'.faults # MaxFaults \/ left'.stops # MaxStops
  BY <1>2, BoundsAssumption
<1>5. QED
  BY <1>3, <1>4 DEF RestInv, Untroubled

LEMMA RestStays ==
  ASSUME RestInv, left' = left,
         Untroubled => /\ card' /\ op' \notin RemoveSteps => now'.dir
                       /\ Resting' => after' = Settled(now')
  PROVE  RestInv'
BY DEF RestInv, Untroubled

LEMMA RestStoreStep == ASSUME StoreInv, RestInv, StoreStep  PROVE RestInv'
<1> USE DEF StoreInv, Shapes, SaveInv, RemoveInv, history
<1>1. CASE SaveFails \/ RemoveStops
  BY <1>1, FaultCounts DEF SaveFails, RemoveStops
<1>2. CASE BeginSave \/ SaveMakesDir \/ WriteRecord
  <2>1. /\ left' = left /\ card' = card /\ op' \in SaveSteps /\ op \notin RemoveSteps
        /\ now.dir => now'.dir
    BY <1>2 DEF BeginSave, SaveMakesDir, DirMade, WriteRecord, PutRecord
  <2>2. QED
    BY <2>1, RestStays DEF RestInv, Resting
<1>3. CASE EndSave
  <2>1. after' = [dir |-> {TRUE}, meta |-> {now.meta}, video |-> {now.video}] /\ now.dir /\ now' = now
    BY <1>3 DEF EndSave, SaveSyncs, DirSynced
  <2>2. after' = Settled(now')
    BY <2>1 DEF Settled
  <2>3. QED
    BY <1>3, <2>1, <2>2, RestStays DEF EndSave
<1>4. CASE at = "idle" /\ BeginRemove
  BY <1>4, RestStays DEF BeginRemove, Resting
<1>5. CASE UnlinkRecord \/ UnlinkVideo \/ RemoveDir
  <2>1. left' = left /\ op' \in RemoveSteps
    BY <1>5 DEF UnlinkRecord, UnlinkVideo, RemoveDir
  <2>2. QED
    BY <2>1, RestStays DEF Resting
<1>6. CASE EndRemove
  BY <1>6, RestStays DEF EndRemove, RootSynced
<1>7. QED
  BY <1>1, <1>2, <1>3, <1>4, <1>5, <1>6 DEF StoreStep, Save, Removes

\* Download touches the directory only in MakeDir, which finds a card without one,
\* and in RenameOutput, which its sync follows.
LEMMA RestPipelineStep ==
  ASSUME StoreInv, RestInv, MakeDir \/ RenameOutput \/ SyncDir  PROVE RestInv'
<1> USE DEF StoreInv, Shapes, RemoveInv, CardInv, history
<1>1. at \in {"mkwork", "rename", "syncDir"} /\ UNCHANGED <<op, card>> /\ op \notin RemoveSteps /\ card
  BY DEF MakeDir, RenameOutput, SyncDir, Moves
<1>2. CASE MakeDir
  <2>1. left' = left /\ ~now.dir
    BY <1>2 DEF MakeDir
  <2>2. QED
    BY <1>1, <2>1, RestStays DEF RestInv
<1>3. CASE RenameOutput
  <2>1. left' = left /\ at' = "syncDir" /\ now'.dir = now.dir /\ now.dir
    BY <1>3 DEF RenameOutput, Moves
  <2>2. QED
    BY <2>1, RestStays DEF Resting
<1>4. CASE SyncDir
  <2>1. CASE Fault
    BY <2>1, FaultCounts
  <2>2. CASE DirSynced /\ UNCHANGED left
    <3>1. now.dir = TRUE /\ now' = now
      BY <1>4 DEF SyncDir
    <3>2. after' = Settled(now')
      BY <2>2, <3>1 DEF DirSynced, Settled
    <3>3. QED
      BY <2>2, <3>1, <3>2, RestStays
  <2>3. QED
    BY <1>4, <2>1, <2>2 DEF SyncDir
<1>5. QED
  BY <1>2, <1>3, <1>4

LEMMA RestInvStep == ASSUME StoreInv, RestInv, [Next]_vars  PROVE RestInv'
<1>1. CASE StoreStep
  BY <1>1, RestStoreStep
<1>2. CASE MakeDir \/ RenameOutput \/ SyncDir
  BY <1>2, RestPipelineStep
<1>3. CASE Crash \/ PowerLoss
  BY <1>3, FaultCounts DEF Crash, PowerLoss, Stops
<1>4. CASE WorkFails \/ CloseFails \/ PublishFails \/ ToolCannotStart
  BY <1>4, FaultCounts DEF WorkFails, CloseFails, PublishFails, ToolCannotStart
<1>5. CASE Cleanup \/ Boot \/ Reads
  <2>1. CASE Fault
    BY <2>1, FaultCounts
  <2>2. CASE left' = left
    <3>1. /\ UNCHANGED <<now, after, op>> /\ (card' = card \/ card' = now.dir)
          /\ at # "syncDir" \/ at' = at
      BY <1>5 DEF Cleanup, Boot, Reads, Moves, storeVars, history, pipelineVars
    <3>2. QED
      BY <2>2, <3>1, RestStays DEF RestInv, Resting
  <2>3. QED
    BY <1>5, <2>1, <2>2 DEF Cleanup, Boot, Reads
<1>6. CASE \/ BeginDownload \/ ClearWork \/ MakeWork \/ Report \/ CheckContext \/ TakeResult \/ SyncOutput
           \/ StartTool \/ Waits \/ ToolFailed \/ ToolSucceeded \/ Kills \/ ToolRuns \/ ToolExits
           \/ Cancel \/ UNCHANGED vars
  <2>1. UNCHANGED <<storeVars, left>> /\ (at = "syncDir" => at' = at)
    <3>1. CASE \/ BeginDownload \/ ClearWork \/ MakeWork \/ Report \/ CheckContext \/ TakeResult \/ SyncOutput
      BY <3>1 DEF BeginDownload, ClearWork, MakeWork, Report, Reported, CheckContext, TakeResult,
                  SyncOutput, Moves
    <3>2. CASE StartTool \/ Waits \/ Kills \/ ToolRuns \/ ToolExits \/ Cancel \/ UNCHANGED vars
      BY <3>2 DEF StartTool, Waits, Kills, ToolRuns, ToolExits, Cancel, pipelineVars, vars
    <3>3. CASE ToolFailed \/ ToolSucceeded
      BY <3>3 DEF ToolFailed, ToolSucceeded, Looks, Tools, Fetched, Downloaded, VideoProbed, AudioProbed,
                  OutputProbed, Continues, Gives
    <3>4. QED
      BY <1>6, <3>1, <3>2, <3>3
  <2>2. QED
    BY <2>1, RestStays DEF RestInv, Resting, storeVars, history
<1>7. QED
  BY <1>1, <1>2, <1>3, <1>4, <1>5, <1>6 DEF Next, GoroutinesRun, Pipeline

\* While nothing has failed and nothing was cut short, a power loss between the
\* calls that change the directory is a crash: it takes back nothing that Save,
\* Remove and publish have done.  It is why Manager.tla may take every end of
\* the process for a crash where no sync fails.
THEOREM PowerLossBetweenCalls ==
  Spec => [][PowerLoss /\ Untroubled /\ Resting => Crash]_vars
<1>1. StoreInv /\ SeenInv /\ RestInv => [PowerLoss /\ Untroubled /\ Resting => Crash]_vars
  <2> SUFFICES ASSUME StoreInv, SeenInv, RestInv, PowerLoss, Untroubled, Resting  PROVE Crash
    OBVIOUS
  <2>1. after = [dir |-> {now.dir}, meta |-> {now.meta}, video |-> {now.video}]
    BY DEF RestInv, Settled
  <2>2. PICK d \in Survivors : now' = Surviving(d) /\ after' = Settled(now')
    BY DEF PowerLoss, LosePower
  <2>3. d = now
    BY <2>1, <2>2 DEF Survivors, StoreInv, Shapes
  <2>4. now' = now
    BY <2>2, <2>3 DEF Surviving, StoreInv, Shapes, SeenInv
  <2>5. QED
    BY <2>1, <2>2, <2>4 DEF Crash, PowerLoss, Settled
<1>2. StoreInv /\ RunInv /\ SeenInv /\ RestInv /\ [Next]_vars
        => StoreInv' /\ RunInv' /\ SeenInv' /\ RestInv'
  BY StoreInvStep, RunInvStep, SeenInvStep, RestInvStep
<1>3. QED
  BY <1>1, <1>2, StoreInvInit, RunInvInit, SeenInvInit, RestInvInit, PTL DEF Spec
-----------------------------------------------------------------------------
(* The refinement. *)

\* What the mapping gives.
Mapping ==
  /\ op \in SaveSteps => Call = "save"
  /\ op \in RemoveSteps => Call = "remove"
  /\ op \notin SaveSteps \union RemoveSteps => Call = "idle"
  /\ at \in {"fetch", "clear", "mkwork"} => Label = "prepare"
  /\ at \in {"video", "probeVideo", "audio", "probeAudio", "toConvert"} => Label = "downloading"
  /\ at \in {"convert", "toVerify"} => Label = "processing"
  /\ at \in {"probeOutput", "verified"} => Label = "verifying"
  /\ at \in {"sync", "rename"} => Label = "publish"
  /\ at = "syncDir" => Label = "succeeded"
  /\ at \in Ended => Label = result
  /\ at \in {"idle", "prepared"} => Label = at
  /\ Disk = [dir |-> now.dir, meta |-> now.meta, video |-> Disk.video]
  /\ Disk.video \in BOOLEAN
  /\ Disk.video = TRUE <=> now.video # NoVideo
  /\ May = [dir |-> after.dir, meta |-> after.meta, video |-> {v # NoVideo : v \in after.video}]

LEMMA MappingHolds == Mapping
<1>1. op \in SaveSteps => Call = "save"
  BY DEF Call
<1>2. op \in RemoveSteps => Call = "remove"
  BY DEF Call
<1>3. op \notin SaveSteps \union RemoveSteps => Call = "idle"
  BY DEF Call
<1>4. at \in {"fetch", "clear", "mkwork"} => Label = "prepare"
  BY DEF Label
<1>5. at \in {"video", "probeVideo", "audio", "probeAudio", "toConvert"} => Label = "downloading"
  BY DEF Label
<1>6. at \in {"convert", "toVerify"} => Label = "processing"
  BY DEF Label
<1>7. at \in {"probeOutput", "verified"} => Label = "verifying"
  BY DEF Label
<1>8. at \in {"sync", "rename"} => Label = "publish"
  BY DEF Label
<1>9. at = "syncDir" => Label = "succeeded"
  BY DEF Label
<1>10. at \in Ended => Label = result
  BY DEF Label, Ended
<1>11. at \in {"idle", "prepared"} => Label = at
  BY DEF Label
<1>12. /\ Disk = [dir |-> now.dir, meta |-> now.meta, video |-> Disk.video]
       /\ Disk.video \in BOOLEAN
       /\ Disk.video = TRUE <=> now.video # NoVideo
  BY DEF Disk
<1>13. May = [dir |-> after.dir, meta |-> after.meta, video |-> {v # NoVideo : v \in after.video}]
  BY DEF May
<1>14. QED
  BY <1>1, <1>2, <1>3, <1>4, <1>5, <1>6, <1>7, <1>8, <1>9, <1>10, <1>11, <1>12, <1>13 DEF Mapping

LEMMA MappingStays == Mapping'
BY MappingHolds, PTL

LEMMA MapsInit == Init => Promised!Init
<1> SUFFICES ASSUME Init  PROVE Promised!Init
  OBVIOUS
<1>1. /\ now = [dir |-> FALSE, meta |-> 0, video |-> NoVideo] /\ op = "idle" /\ at = "idle"
      /\ after = Settled(now)
  BY DEF Init, StoreInit, Surviving
<1>2. Disk = Promised!NoDir
  BY <1>1, MappingHolds DEF Mapping, Promised!NoDir, Promised!NoRecord
<1>3. Call = "idle" /\ Label = "idle"
  BY <1>1, MappingHolds DEF Mapping
<1>4. May = Promised!Settled(Disk)
  BY <1>1 DEF May, Disk, Settled, Promised!Settled
<1>5. QED
  BY <1>2, <1>3, <1>4 DEF Init, StoreInit, RunnerIdle, Promised!Init

\* What a step that leaves the directory, or the pipeline, alone leaves of the mapping.
LEMMA MappingKeeps ==
  /\ now' = now => Disk' = Disk
  /\ after' = after => May' = May
  /\ op' = op => Call' = Call
  /\ at' = at /\ result' = result => Label' = Label
BY DEF Disk, May, Call, Label

\* A change joins what may be left, in each part, or was part of it.
LEMMA MapsBecomes ==
  ASSUME NEW d, Disk' = d,
         after'.dir = after.dir \union {now'.dir},
         after'.meta = after.meta \union {now'.meta},
         after'.video = after.video \union {now'.video}
  PROVE  Promised!Becomes(d)
<1>1. d.dir = now'.dir /\ d.meta = now'.meta /\ d.video = (now'.video # NoVideo)
  BY DEF Disk
<1>2. {v # NoVideo : v \in after'.video}
        = {v # NoVideo : v \in after.video} \union {now'.video # NoVideo}
  OBVIOUS
<1>3. /\ May.dir = after.dir /\ May.meta = after.meta
      /\ May.video = {v # NoVideo : v \in after.video}
  BY DEF May
<1>4. May' = [dir |-> May.dir \union {d.dir}, meta |-> May.meta \union {d.meta},
              video |-> May.video \union {d.video}]
  BY <1>1, <1>2, <1>3 DEF May
<1>5. QED
  BY <1>4 DEF Promised!Becomes

\* A sync makes it last.
LEMMA MapsLasts == ASSUME now' = now, after' = Settled(now)  PROVE Promised!Lasts
<1>1. {v # NoVideo : v \in {now.video}} = {now.video # NoVideo}
  OBVIOUS
<1>2. May' = Promised!Settled(Disk)
  BY <1>1 DEF May, Disk, Settled, Promised!Settled
<1>3. QED
  BY <1>2, MappingKeeps DEF Promised!Lasts

LEMMA MapsSave ==
  ASSUME StoreInv, Save, UNCHANGED <<at, result, ctx>>
  PROVE  Promised!BeginSave \/ Promised!SaveGoesOn \/ Promised!Saved \/ Promised!Fails
<1> USE MappingHolds, MappingStays, MappingKeeps DEF Mapping
<1>1. CASE BeginSave
  BY <1>1 DEF BeginSave, Promised!BeginSave
<1>2. CASE SaveFails
  BY <1>2 DEF SaveFails, history, Promised!Fails
<1>3. CASE EndSave
  <2>1. Disk = Promised!Written(Disk, saves)
    BY <1>3 DEF EndSave, StoreInv, SaveInv, Promised!Written
  <2>2. now' = now /\ after' = Settled(now)
    BY <1>3 DEF EndSave, SaveSyncs, DirSynced, Settled, StoreInv, Shapes, SaveInv
  <2>3. QED
    BY <1>3, <2>1, <2>2, MapsLasts DEF EndSave, Promised!Saved
<1>4. CASE SaveMakesDir
  <2>1. now' = [dir |-> TRUE, meta |-> now.meta, video |-> now.video]
    BY <1>4 DEF SaveMakesDir, DirMade, StoreInv, Shapes
  <2>2. Disk' = Promised!Made(Disk)
    BY <2>1 DEF Promised!Made, Promised!Written
  <2>3. after' = [dir |-> after.dir \union {TRUE}, meta |-> after.meta, video |-> after.video]
    BY <1>4 DEF SaveMakesDir, DirMade, StoreInv, Shapes
  <2>4. Promised!Becomes(Promised!Made(Disk))
    BY <2>1, <2>2, <2>3, MapsBecomes DEF StoreInv, Seen
  <2>5. QED
    BY <1>4, <2>4 DEF SaveMakesDir, history, Promised!SaveGoesOn, Promised!FailedSaves
<1>5. CASE WriteRecord
  <2>1. now' = [dir |-> TRUE, meta |-> saves, video |-> now.video] /\ now.dir = TRUE
    BY <1>5 DEF WriteRecord, PutRecord, StoreInv, Shapes, SaveInv
  <2>2. Disk' = Promised!Written(Disk, saves)
    BY <2>1 DEF Promised!Written
  <2>3. after' = [dir |-> after.dir, meta |-> after.meta \union {saves}, video |-> after.video]
    BY <1>5 DEF WriteRecord, PutRecord, RecordData, StoreInv, Shapes
  <2>4. Promised!Becomes(Promised!Written(Disk, saves))
    BY <2>1, <2>2, <2>3, MapsBecomes DEF StoreInv, Seen
  <2>5. QED
    BY <1>5, <2>4 DEF WriteRecord, history, Promised!SaveGoesOn, Promised!FailedSaves
<1>6. QED
  BY <1>1, <1>2, <1>3, <1>4, <1>5 DEF Save

LEMMA MapsRemove ==
  ASSUME StoreInv, Removes \/ (at = "idle" /\ BeginRemove), UNCHANGED <<at, result, ctx>>
  PROVE  Promised!BeginRemove \/ Promised!RemoveGoesOn \/ Promised!Removed \/ Promised!Fails
<1> USE MappingHolds, MappingStays, MappingKeeps DEF Mapping
<1>1. CASE at = "idle" /\ BeginRemove
  BY <1>1 DEF BeginRemove, Promised!BeginRemove
<1>2. CASE RemoveStops
  BY <1>2 DEF RemoveStops, history, Promised!Fails
<1>3. CASE EndRemove
  <2>1. Disk = Promised!NoDir
    BY <1>3 DEF EndRemove, StoreInv, RemoveInv, Promised!NoDir, Promised!NoRecord
  <2>2. now' = now /\ after' = Settled(now)
    BY <1>3 DEF EndRemove, RootSynced
  <2>3. QED
    BY <1>3, <2>1, <2>2, MapsLasts DEF EndRemove, Promised!Removed
<1>4. CASE UnlinkRecord
  <2>1. now' = [dir |-> now.dir, meta |-> 0, video |-> now.video]
    BY <1>4 DEF UnlinkRecord, StoreInv, Shapes
  <2>2. Disk'.video = Disk.video
    BY <2>1
  <2>3. Disk' = [dir |-> Disk.dir, meta |-> 0, video |-> Disk.video]
    BY <2>1, <2>2
  <2>4. Disk' \in Promised!PartialRemovals(Disk)
    BY <2>3 DEF Promised!PartialRemovals, Promised!NoRecord
  <2>5. after' = [dir |-> after.dir, meta |-> after.meta \union {0}, video |-> after.video]
    BY <1>4 DEF UnlinkRecord, StoreInv, Shapes
  <2>6. Promised!Becomes(Disk')
    BY <2>1, <2>5, MapsBecomes DEF StoreInv, Seen
  <2>7. QED
    BY <1>4, <2>4, <2>6 DEF UnlinkRecord, history, Promised!RemoveGoesOn
<1>5. CASE UnlinkVideo
  <2>1. now' = [dir |-> now.dir, meta |-> now.meta, video |-> NoVideo]
    BY <1>5 DEF UnlinkVideo, StoreInv, Shapes
  <2>2. Disk' = [dir |-> Disk.dir, meta |-> Disk.meta, video |-> FALSE]
    BY <2>1
  <2>3. Disk' \in Promised!PartialRemovals(Disk)
    BY <2>2 DEF Promised!PartialRemovals, Promised!NoRecord
  <2>4. after' = [dir |-> after.dir, meta |-> after.meta, video |-> after.video \union {NoVideo}]
    BY <1>5 DEF UnlinkVideo, StoreInv, Shapes
  <2>5. Promised!Becomes(Disk')
    BY <2>1, <2>4, MapsBecomes DEF StoreInv, Seen
  <2>6. QED
    BY <1>5, <2>3, <2>5 DEF UnlinkVideo, history, Promised!RemoveGoesOn
<1>6. CASE RemoveDir
  <2>1. now' = [dir |-> FALSE, meta |-> 0, video |-> NoVideo] /\ now.meta = 0 /\ now.video = NoVideo
    BY <1>6 DEF RemoveDir, StoreInv, Shapes
  <2>2. Disk' = Promised!NoDir
    BY <2>1 DEF Promised!NoDir, Promised!NoRecord
  <2>3. after' = [dir |-> after.dir \union {FALSE}, meta |-> after.meta, video |-> after.video]
    BY <1>6 DEF RemoveDir, StoreInv, Shapes
  <2>4. Promised!Becomes(Disk')
    BY <2>1, <2>3, MapsBecomes DEF StoreInv, Seen
  <2>5. QED
    <3>1. Promised!NoDir \in Promised!PartialRemovals(Disk)
      BY DEF Promised!PartialRemovals
    <3>2. Promised!Becomes(Promised!NoDir)
      BY <2>2, <2>4
    <3>3. Promised!RemoveGoesOn
      BY <1>6, <3>1, <3>2 DEF RemoveDir, history, Promised!RemoveGoesOn
    <3>4. QED
      BY <3>3
<1>7. QED
  BY <1>1, <1>2, <1>3, <1>4, <1>5, <1>6 DEF Removes

\* Steps of which the manager sees nothing.
LEMMA MapsNothing ==
  ASSUME UNCHANGED <<now, after, op, saves, ctx>>, Label' = Label
  PROVE  UNCHANGED Promised!vars
BY MappingKeeps DEF Promised!vars

LEMMA MapsQuiet ==
  ASSUME \/ ClearWork \/ SyncOutput \/ Cleanup \/ Boot \/ StartTool \/ ToolCannotStart
         \/ ToolExits \/ ToolRuns \/ Kills \/ Waits \/ Reads \/ UNCHANGED vars
  PROVE  UNCHANGED Promised!vars
<1>1. CASE ClearWork
  BY <1>1, MapsNothing, MappingHolds, MappingStays
     DEF Mapping, ClearWork, Moves, storeVars, runnerVars
<1>2. CASE SyncOutput
  BY <1>2, MapsNothing, MappingHolds, MappingStays
     DEF Mapping, SyncOutput, Moves, storeVars, runnerVars
<1>3. CASE Cleanup
  BY <1>3, MapsNothing, MappingHolds, MappingStays
     DEF Mapping, Cleanup, Moves, Ended, storeVars, runnerVars
<1>4. CASE Boot \/ StartTool \/ ToolCannotStart
  BY <1>4, MapsNothing, MappingKeeps
     DEF Boot, StartTool, Start, ToolCannotStart, StartFails, storeVars, runnerVars
<1>5. CASE ToolExits \/ ToolRuns \/ Waits
  BY <1>5, MapsNothing, MappingKeeps
     DEF ToolExits, Exits, ToolRuns, Forks, ChildEnds, Prints, Waits, Wait,
         storeVars, pipelineVars
<1>6. CASE Kills \/ Reads \/ UNCHANGED vars
  BY <1>6, MapsNothing, MappingKeeps
     DEF Kills, Kill, Reads, ReadersEnd, GivesUp, Hears, vars, storeVars, runnerVars, pipelineVars
<1>7. QED
  BY <1>1, <1>2, <1>3, <1>4, <1>5, <1>6

LEMMA MapsPipeline ==
  ASSUME StoreInv, BeginDownload \/ Report \/ CheckContext \/ WorkFails \/ CloseFails \/ PublishFails
  PROVE  Promised!Begin \/ Promised!PipelineMoves
<1> USE MappingHolds, MappingStays, MappingKeeps DEF Mapping, storeVars, history, runnerVars, Leaves, Ended
<1>1. CASE BeginDownload
  BY <1>1 DEF BeginDownload, Promised!Begin
<1>2. CASE Report
  <2>1. <<Label, Label'>> \in {<<"prepared", "downloading">>, <<"downloading", "processing">>,
                               <<"processing", "verifying">>}
    BY <1>2 DEF Report, Reported, Moves
  <2>2. Promised!Report
    BY <2>1 DEF Promised!Report, Promised!NextStages
  <2>3. QED
    BY <1>2, <2>2 DEF Report, Promised!PipelineMoves
<1>3. CASE CheckContext
  <2>1. Promised!CheckContext \/ Promised!PipelineCanceled
    BY <1>3 DEF CheckContext, Checked, Promised!CheckContext, Promised!PipelineCanceled,
                Promised!Moves, Promised!Working
  <2>2. QED
    BY <1>3, <2>1 DEF CheckContext, Promised!PipelineMoves
<1>4. CASE WorkFails \/ PublishFails
  <2>1. Promised!PipelineFails
    BY <1>4 DEF WorkFails, PublishFails, Promised!PipelineFails, Promised!Moves, Promised!Working
  <2>2. QED
    BY <1>4, <2>1 DEF WorkFails, PublishFails, Promised!PipelineMoves
<1>5. CASE CloseFails
  <2>1. Promised!PublishNothing
    BY <1>5 DEF CloseFails, Promised!PublishNothing, Promised!Moves
  <2>2. QED
    BY <1>5, <2>1 DEF CloseFails, Promised!PipelineMoves
<1>6. QED
  BY <1>1, <1>2, <1>3, <1>4, <1>5

\* The steps of Download that change the directory, or make it last.
LEMMA MapsPublish ==
  ASSUME StoreInv, VideoInv, MakeDir \/ MakeWork \/ RenameOutput \/ SyncDir
  PROVE  \/ Promised!MakeDir \/ Promised!MakeWork \/ Promised!Publish \/ Promised!PublishLasts
         \/ UNCHANGED Promised!vars
<1> USE MappingHolds, MappingStays, MappingKeeps
    DEF Mapping, storeVars, history, runnerVars, Moves, Ended
<1>1. CASE MakeDir
  <2>1. now' = [dir |-> TRUE, meta |-> now.meta, video |-> now.video]
    BY <1>1 DEF MakeDir, DirMade, StoreInv, Shapes
  <2>2. Disk' = Promised!Made(Disk)
    BY <2>1 DEF Promised!Made, Promised!Written
  <2>3. after' = [dir |-> after.dir \union {TRUE}, meta |-> after.meta, video |-> after.video]
    BY <1>1 DEF MakeDir, DirMade, StoreInv, Shapes
  <2>4. Promised!Becomes(Promised!Made(Disk))
    BY <2>1, <2>2, <2>3, MapsBecomes DEF StoreInv, Seen
  <2>5. QED
    BY <1>1, <2>4 DEF MakeDir, pipelineVars, Promised!MakeDir
<1>2. CASE MakeWork
  BY <1>2 DEF MakeWork, StoreInv, Shapes, Promised!MakeWork, Promised!Moves
<1>3. CASE RenameOutput
  <2>1. now' = [dir |-> TRUE, meta |-> now.meta, video |-> work.output] /\ now.dir = TRUE
    BY <1>3 DEF RenameOutput, StoreInv, Shapes, CardInv
  <2>2. work.output # NoVideo
    BY <1>3 DEF RenameOutput, VideoInv, ToPublish
  <2>3. Disk' = [dir |-> TRUE, meta |-> Disk.meta, video |-> TRUE]
    BY <2>1, <2>2
  <2>4. after' = [dir |-> after.dir, meta |-> after.meta, video |-> after.video \union {work.output}]
    BY <1>3 DEF RenameOutput, VideoData, StoreInv, Shapes
  <2>5. Promised!Becomes([dir |-> TRUE, meta |-> Disk.meta, video |-> TRUE])
    BY <2>1, <2>3, <2>4, MapsBecomes DEF StoreInv, Seen
  <2>6. QED
    BY <1>3, <2>1, <2>5 DEF RenameOutput, Promised!Publish, Promised!Moves
<1>4. CASE SyncDir
  <2>1. Label = "succeeded" /\ Label' = "succeeded" /\ UNCHANGED <<now, op, saves, ctx>>
    BY <1>4 DEF SyncDir, Leaves
  <2>2. CASE DirSynced
    <3>1. after' = Settled(now)
      BY <1>4, <2>2 DEF SyncDir, DirSynced, Settled, StoreInv, Shapes, CardInv
    <3>2. QED
      BY <2>1, <3>1, MapsLasts DEF Promised!PublishLasts
  <2>3. CASE UNCHANGED after
    BY <2>1, <2>3 DEF Promised!vars
  <2>4. QED
    BY <1>4, <2>2, <2>3 DEF SyncDir
<1>5. QED
  BY <1>1, <1>2, <1>3, <1>4

\* The stages of the tools.
LEMMA MapsTool ==
  ASSUME SeenInv, ToolFailed \/ ToolSucceeded
  PROVE  Promised!PipelineMoves \/ UNCHANGED Promised!vars
<1> USE MappingHolds, MappingStays, MappingKeeps DEF Mapping, storeVars, Leaves, Ended
<1>1. UNCHANGED <<now, after, op, saves, ctx>>
  BY DEF ToolFailed, ToolSucceeded
<1>2. CASE ToolFailed
  <2>1. at \in Tools /\ Label \in Promised!Working
    BY <1>2 DEF ToolFailed, Looks, Tools, Promised!Working
  <2>2. Label' = "errored" \/ (Label' = "canceled" /\ ctx)
    BY <1>2 DEF ToolFailed, SeenInv
  <2>3. Promised!PipelineFails \/ Promised!PipelineCanceled
    BY <2>1, <2>2 DEF Promised!PipelineFails, Promised!PipelineCanceled, Promised!Moves
  <2>4. QED
    BY <1>1, <2>3 DEF Promised!PipelineMoves
<1>3. CASE ToolSucceeded
  <2>1. \/ Label' = Label
        \/ Label \in Promised!Working /\ Label' = "errored"
    BY <1>3 DEF ToolSucceeded, Looks, Fetched, Downloaded, VideoProbed, AudioProbed, OutputProbed,
                Continues, Gives, Promised!Working
  <2>2. CASE Label' = Label
    BY <1>1, <2>2, MapsNothing
  <2>3. CASE Label \in Promised!Working /\ Label' = "errored"
    BY <1>1, <2>3 DEF Promised!PipelineFails, Promised!Moves, Promised!PipelineMoves
  <2>4. QED
    BY <2>1, <2>2, <2>3
<1>4. QED
  BY <1>2, <1>3

LEMMA MapsTaken == ASSUME SeenInv, TakeResult  PROVE Promised!TakeResult
<1> USE MappingHolds, MappingStays, MappingKeeps DEF Mapping
<1>1. at = "returned" /\ at' = "idle"
  BY DEF TakeResult, Moves
<1>2. Label \in Promised!Ended /\ Label' = "idle"
  BY <1>1 DEF SeenInv, Returns, Ended, Promised!Ended
<1>3. QED
  BY <1>2 DEF TakeResult, storeVars, Promised!TakeResult, Promised!Moves

LEMMA MapsCancel == ASSUME SeenInv, RunInv, Cancel  PROVE Promised!Cancel
<1> USE MappingHolds, MappingKeeps DEF Mapping
<1> DEFINE Staged == {"fetch", "clear", "mkwork", "video", "probeVideo", "audio", "probeAudio",
                      "toConvert", "convert", "toVerify", "probeOutput", "verified", "sync",
                      "rename", "syncDir"}
<1>1. at # "idle"
  BY DEF Cancel
<1>2. at \in Ended => Label # "idle"
  BY DEF SeenInv, Returns
<1>3. at \in Staged => Label # "idle"
  OBVIOUS
<1>4. at \notin Ended \union Staged => Label = at
  BY Zenon DEF Label, Ended
<1>5. Label # "idle"
  BY <1>1, <1>2, <1>3, <1>4
<1>6. QED
  BY <1>5 DEF Cancel, storeVars, pipelineVars, Promised!Cancel

\* After a crash the directory is as it was; after a power loss it is made of parts
\* that may be left.
LEMMA MapsStop ==
  ASSUME StoreInv, Crash \/ PowerLoss  PROVE Promised!Crash \/ Promised!PowerLoss
<1> USE MappingHolds, MappingStays, MappingKeeps DEF Mapping
<1>1. op' = "idle" /\ at' = "idle" /\ ctx' = FALSE /\ saves' = saves
  BY DEF Crash, PowerLoss, Stops
<1>2. Promised!Ends
  BY <1>1 DEF Promised!Ends
<1>3. CASE Crash
  BY <1>2, <1>3 DEF Crash, Promised!Crash
<1>4. CASE PowerLoss
  <2>1. PICK d \in Survivors : now' = Surviving(d) /\ after' = Settled(now')
    BY <1>4 DEF PowerLoss, LosePower
  <2> DEFINE e == [dir |-> d.dir, meta |-> d.meta, video |-> d.video # NoVideo]
  <2>2. /\ d = [dir |-> d.dir, meta |-> d.meta, video |-> d.video] /\ d.dir \in BOOLEAN
        /\ d.dir \in after.dir /\ d.meta \in after.meta /\ d.video \in after.video
    BY DEF Survivors, StoreInv, Shapes
  <2>3. e \in [dir : May.dir, meta : May.meta, video : May.video]
    BY <2>2 DEF May
  <2>4. Disk' = IF e.dir THEN e ELSE Promised!NoDir
    <3>1. CASE d.dir = TRUE
      <4>1. now' = d
        BY <2>1, <3>1 DEF Surviving
      <4>2. Disk' = e
        BY <4>1 DEF Disk
      <4>3. QED
        BY <3>1, <4>2
    <3>2. CASE d.dir = FALSE
      <4>1. now' = [dir |-> FALSE, meta |-> 0, video |-> NoVideo]
        BY <2>1, <3>2 DEF Surviving
      <4>2. Disk' = Promised!NoDir
        BY <4>1 DEF Promised!NoDir, Promised!NoRecord
      <4>3. QED
        BY <3>2, <4>2
    <3>3. QED
      BY <2>2, <3>1, <3>2
  <2>5. May' = Promised!Settled(Disk')
    <3>1. {v # NoVideo : v \in {now'.video}} = {now'.video # NoVideo}
      OBVIOUS
    <3>2. after' = [dir |-> {now'.dir}, meta |-> {now'.meta}, video |-> {now'.video}]
      BY <2>1 DEF Settled
    <3>3. QED
      BY <3>1, <3>2 DEF May, Disk, Promised!Settled
  <2>6. QED
    BY <1>2, <2>3, <2>4, <2>5 DEF Promised!PowerLoss
<1>5. QED
  BY <1>3, <1>4

LEMMA MapsStep ==
  ASSUME StoreInv, VideoInv, RunInv, SeenInv, [Next]_vars
  PROVE  [Promised!Next]_(Promised!vars)
<1>1. CASE StoreStep
  BY <1>1, MapsSave, MapsRemove DEF StoreStep, runnerVars, Promised!Next
<1>2. CASE BeginDownload \/ Report \/ CheckContext \/ WorkFails \/ CloseFails \/ PublishFails
  BY <1>2, MapsPipeline DEF Promised!Next
<1>3. CASE MakeDir \/ MakeWork \/ RenameOutput \/ SyncDir
  BY <1>3, MapsPublish DEF Promised!Next
<1>4. CASE ToolFailed \/ ToolSucceeded
  BY <1>4, MapsTool DEF Promised!Next
<1>5. CASE TakeResult
  BY <1>5, MapsTaken DEF Promised!Next
<1>6. CASE Cancel
  BY <1>6, MapsCancel DEF Promised!Next
<1>7. CASE Crash \/ PowerLoss
  BY <1>7, MapsStop DEF Promised!Next
<1>8. CASE \/ ClearWork \/ SyncOutput \/ Cleanup \/ Boot \/ StartTool \/ ToolCannotStart
           \/ ToolExits \/ ToolRuns \/ Kills \/ Waits \/ Reads \/ UNCHANGED vars
  BY <1>8, MapsQuiet
<1>9. QED
  BY <1>1, <1>2, <1>3, <1>4, <1>5, <1>6, <1>7, <1>8 DEF Next, GoroutinesRun, Pipeline

\* Whatever order the system calls of a Download, a Save and a Remove take, whichever
\* fail and wherever the process ends, the directory is left as one of the outcomes
\* Files gives to the call or to the end; and a power loss takes back only changes
\* that no sync has followed.
THEOREM DownloaderImplementsFiles == Spec => ImplementsFiles
<1>1. Init => StoreInv /\ VideoInv /\ RunInv /\ SeenInv /\ Promised!Init
  BY StoreInvInit, VideoInvInit, RunInvInit, SeenInvInit, MapsInit
<1>2. StoreInv /\ VideoInv /\ RunInv /\ SeenInv /\ [Next]_vars
        => StoreInv' /\ VideoInv' /\ RunInv' /\ SeenInv'
  BY StoreInvStep, VideoInvStep, RunInvStep, SeenInvStep
<1>3. StoreInv /\ VideoInv /\ RunInv /\ SeenInv /\ [Next]_vars => [Promised!Next]_(Promised!vars)
  BY MapsStep
<1>4. QED
  BY <1>1, <1>2, <1>3, PTL DEF Spec, ImplementsFiles, Promised!Spec

-----------------------------------------------------------------------------
(* The type invariant. *)

DiskTyped ==
  /\ now \in [dir : BOOLEAN, meta : Records, video : Video]
  /\ after \in [dir : SUBSET BOOLEAN, meta : SUBSET Records, video : SUBSET Video]

CountsTyped ==
  /\ op \in {"idle"} \union SaveSteps \union RemoveSteps
  /\ saves \in 0..MaxSaves /\ safe \subseteq 0..saves
  /\ left \in [faults : 0..MaxFaults, stops : 0..MaxStops]

\* A stream has one line, which is in the pipe or heard.
RunTyped ==
  /\ leader \in {"none", "running", "exited", "failed", "killed"}
  /\ outcome \in Outcomes \union {"none"}
  /\ pipe \subseteq Streams
  /\ heard \in Seq(Streams)
  /\ \A n \in 1..Len(heard) : heard[n] \notin pipe
  /\ \A n, m \in 1..Len(heard) : heard[n] = heard[m] => n = m

WorkTyped ==
  /\ up \in BOOLEAN /\ at \in Labels /\ attempt \in 0..MaxDownloads
  /\ work \in [dir : BOOLEAN, streams : 0..MaxDownloads, output : Video]
  /\ result \in Results
  /\ result = "none" <=> at \notin {"cleanup", "returned"}

Typed == DiskTyped /\ CountsTyped /\ RunTyped /\ WorkTyped

LEMMA NoVideoTyped == [by |-> 0, is |-> "none"] \in Video /\ 0 \in Records
BY BoundsAssumption DEF BoundsAssumption, Video, Records, Torn

LEMMA InitTyped == Init => Typed
<1> SUFFICES ASSUME Init  PROVE Typed
  OBVIOUS
<1>1. DiskTyped
  BY NoVideoTyped DEF Init, StoreInit, Surviving, Settled, DiskTyped
<1>2. CountsTyped
  BY BoundsAssumption DEF Init, StoreInit, CountsTyped, BoundsAssumption
<1>3. RunTyped
  BY DEF Init, RunnerIdle, RunTyped
<1>4. WorkTyped
  <2>1. attempt \in 0..MaxDownloads
    BY BoundsAssumption DEF Init, BoundsAssumption
  <2>2. up \in BOOLEAN /\ at \in Labels /\ result \in Results
    BY DEF Init, Labels, Results
  <2>3. work \in [dir : BOOLEAN, streams : 0..MaxDownloads, output : Video]
    BY NoVideoTyped, BoundsAssumption DEF Init, NoWork, BoundsAssumption
  <2>4. result = "none" <=> at \notin {"cleanup", "returned"}
    BY DEF Init
  <2>5. QED
    BY <2>1, <2>2, <2>3, <2>4 DEF WorkTyped
<1>5. QED
  BY <1>1, <1>2, <1>3, <1>4 DEF Typed

\* The system calls put records and videos into place, and a power loss chooses among
\* what is there.
LEMMA DiskStep == ASSUME StoreInv, Typed, [Next]_vars  PROVE DiskTyped'
<1>1. /\ now.dir \in BOOLEAN /\ now.meta \in Records /\ now.video \in Video
      /\ after.dir \subseteq BOOLEAN /\ after.meta \subseteq Records /\ after.video \subseteq Video
      /\ now = [dir |-> now.dir, meta |-> now.meta, video |-> now.video]
      /\ after = [dir |-> after.dir, meta |-> after.meta, video |-> after.video]
      /\ work.output \in Video
  BY DEF StoreInv, Shapes, Typed, DiskTyped, WorkTyped
<1>2. saves \in Records
  BY BoundsAssumption DEF BoundsAssumption, Records, Torn, Typed, CountsTyped
<1>3. ASSUME NEW d \in BOOLEAN, NEW m \in Records, NEW v \in Video,
             now' = [dir |-> d, meta |-> m, video |-> v],
             NEW D \in SUBSET BOOLEAN, NEW M \in SUBSET Records, NEW V \in SUBSET Video,
             after' = [dir |-> D, meta |-> M, video |-> V]
      PROVE  DiskTyped'
  BY <1>3 DEF DiskTyped
<1>4. UNCHANGED <<now, after>> => DiskTyped'
  BY DEF Typed, DiskTyped
<1> USE NoVideoTyped
<1>5. CASE SaveMakesDir \/ MakeDir
  <2>1. now' = [dir |-> TRUE, meta |-> now.meta, video |-> now.video]
    BY <1>1, <1>5 DEF SaveMakesDir, MakeDir, DirMade
  <2>2. after' = [dir |-> after.dir \union {TRUE}, meta |-> after.meta, video |-> after.video]
    BY <1>1, <1>5 DEF SaveMakesDir, MakeDir, DirMade
  <2>3. QED
    BY <1>1, <1>3, <2>1, <2>2
<1>6. CASE WriteRecord
  <2>1. now' = [dir |-> now.dir, meta |-> saves, video |-> now.video]
    BY <1>1, <1>6 DEF WriteRecord, PutRecord
  <2>2. after' = [dir |-> after.dir, meta |-> after.meta \union {saves}, video |-> after.video]
    BY <1>1, <1>6 DEF WriteRecord, PutRecord, RecordData
  <2>3. QED
    BY <1>1, <1>2, <1>3, <2>1, <2>2
<1>7. CASE UnlinkRecord
  <2>1. now' = [dir |-> now.dir, meta |-> 0, video |-> now.video]
    BY <1>1, <1>7 DEF UnlinkRecord
  <2>2. after' = [dir |-> after.dir, meta |-> after.meta \union {0}, video |-> after.video]
    BY <1>1, <1>7 DEF UnlinkRecord
  <2>3. QED
    BY <1>1, <1>3, <2>1, <2>2
<1>8. CASE UnlinkVideo
  <2>1. PICK none \in Video : none = [by |-> 0, is |-> "none"]
    OBVIOUS
  <2>2. now' = [dir |-> now.dir, meta |-> now.meta, video |-> none]
    BY <1>1, <1>8, <2>1 DEF UnlinkVideo
  <2>3. after' = [dir |-> after.dir, meta |-> after.meta, video |-> after.video \union {none}]
    BY <1>1, <1>8, <2>1 DEF UnlinkVideo
  <2>4. after.video \union {none} \in SUBSET Video /\ after.dir \in SUBSET BOOLEAN
        /\ after.meta \in SUBSET Records
    BY <1>1
  <2> HIDE DEF NoVideo
  <2>5. QED
    BY <1>1, <1>3, <2>2, <2>3, <2>4
<1>9. CASE RemoveDir
  <2>1. now' = [dir |-> FALSE, meta |-> now.meta, video |-> now.video]
    BY <1>1, <1>9 DEF RemoveDir
  <2>2. after' = [dir |-> after.dir \union {FALSE}, meta |-> after.meta, video |-> after.video]
    BY <1>1, <1>9 DEF RemoveDir
  <2>3. QED
    BY <1>1, <1>3, <2>1, <2>2
<1>10. CASE EndSave \/ SyncDir \/ EndRemove
  <2>1. now' = now
    BY <1>10 DEF EndSave, SyncDir, EndRemove
  <2>2. \/ after' = after
        \/ \E d \in BOOLEAN : after' = [dir |-> {d}, meta |-> {now.meta}, video |-> {now.video}]
    BY <1>1, <1>10 DEF EndSave, SaveSyncs, SyncDir, DirSynced, EndRemove, RootSynced, Settled
  <2>3. QED
    BY <1>1, <1>3, <1>4, <2>1, <2>2
<1>11. CASE RenameOutput
  <2>1. now' = [dir |-> now.dir, meta |-> now.meta, video |-> work.output]
    BY <1>1, <1>11 DEF RenameOutput
  <2>2. after' = [dir |-> after.dir, meta |-> after.meta, video |-> after.video \union {work.output}]
    BY <1>1, <1>11 DEF RenameOutput, VideoData
  <2>3. after.video \union {work.output} \subseteq Video
    BY <1>1
  <2>4. QED
    BY <1>1, <1>3, <2>1, <2>2, <2>3
<1>12. CASE Crash \/ PowerLoss
  <2>1. CASE UNCHANGED <<now, after>>
    BY <1>4, <2>1
  <2>2. CASE LosePower
    <3>1. PICK d \in Survivors : now' = Surviving(d)
      BY <2>2 DEF LosePower
    <3>2. /\ d = [dir |-> d.dir, meta |-> d.meta, video |-> d.video]
          /\ d.dir \in BOOLEAN /\ d.meta \in Records /\ d.video \in Video
      BY <1>1, <3>1 DEF Survivors
    <3>3. now' = d \/ now' = [dir |-> FALSE, meta |-> 0, video |-> [by |-> 0, is |-> "none"]]
      BY <3>1 DEF Surviving
    <3>4. after' = [dir |-> {now'.dir}, meta |-> {now'.meta}, video |-> {now'.video}]
      BY <2>2 DEF LosePower, Settled
    <3>5. CASE now' = d
      BY <1>3, <3>2, <3>4, <3>5
    <3>6. CASE now' = [dir |-> FALSE, meta |-> 0, video |-> [by |-> 0, is |-> "none"]]
      <4>1. PICK none \in Video : none = [by |-> 0, is |-> "none"]
        OBVIOUS
      <4>2. now' = [dir |-> FALSE, meta |-> 0, video |-> none]
        BY <3>6, <4>1
      <4>3. after' = [dir |-> {FALSE}, meta |-> {0}, video |-> {none}]
        BY <3>4, <4>2
      <4>4. QED
        BY <1>3, <4>2, <4>3
    <3>7. QED
      BY <3>3, <3>5, <3>6
  <2>3. QED
    BY <1>12, <2>1, <2>2 DEF Crash, PowerLoss
<1>13. CASE BeginSave \/ SaveFails \/ BeginRemove \/ RemoveStops
  BY <1>4, <1>13 DEF BeginSave, SaveFails, BeginRemove, RemoveStops
<1>14. CASE Aside \/ UNCHANGED vars
  BY <1>4, <1>14, AsideSteps DEF vars, storeVars
<1>15. QED
  BY <1>5, <1>6, <1>7, <1>8, <1>9, <1>10, <1>11, <1>12, <1>13, <1>14
     DEF Next, GoroutinesRun, Pipeline, Aside, StoreStep, Save, Removes

LEMMA CountsStep == ASSUME Typed, [Next]_vars  PROVE CountsTyped'
<1> USE DEF Typed, CountsTyped, history
<1>1. /\ MaxSaves \in Nat /\ MaxFaults \in Nat /\ MaxStops \in Nat
  BY BoundsAssumption DEF BoundsAssumption
<1>2. saves \in 0..saves /\ 0 \in 0..saves /\ safe \subseteq 0..saves
  BY <1>1
<1>3. Fault => left' \in [faults : 0..MaxFaults, stops : 0..MaxStops]
  BY <1>1 DEF Fault
<1>4. ASSUME UNCHANGED <<op, saves, safe>>, UNCHANGED left \/ Fault  PROVE CountsTyped'
  BY <1>3, <1>4
<1>5. CASE Save
  <2>1. CASE BeginSave
    <3>1. saves' \in 0..MaxSaves /\ saves' = saves + 1 /\ safe' \subseteq 0..saves'
      BY <1>1, <2>1 DEF BeginSave
    <3>2. QED
      BY <2>1, <3>1 DEF BeginSave
  <2>2. CASE SaveMakesDir \/ WriteRecord \/ EndSave
    <3>1. /\ UNCHANGED <<saves, left>> /\ op' \in {"idle", "write", "sync"}
          /\ safe' = safe \/ safe' = {saves}
      BY <2>2 DEF SaveMakesDir, WriteRecord, EndSave
    <3>2. safe' \subseteq 0..saves
      BY <1>2, <3>1, Zenon
    <3>3. QED
      BY <3>1, <3>2
  <2>3. CASE SaveFails
    BY <1>3, <2>3 DEF SaveFails
  <2>4. QED
    BY <1>5, <2>1, <2>2, <2>3 DEF Save
<1>6. CASE BeginRemove \/ Removes
  <2>1. CASE BeginRemove \/ UnlinkRecord \/ UnlinkVideo \/ RemoveDir \/ EndRemove
    <3>1. /\ UNCHANGED <<saves, left>> /\ op' \in {op, "idle", "unlink", "syncRoot"}
          /\ safe' = safe \/ safe' = safe \union {0} \/ safe' = {0}
      BY <2>1 DEF BeginRemove, UnlinkRecord, UnlinkVideo, RemoveDir, EndRemove
    <3>2. safe' \subseteq 0..saves
      BY <1>2, <3>1, Zenon
    <3>3. QED
      BY <3>1, <3>2
  <2>2. CASE RemoveStops
    BY <1>3, <2>2 DEF RemoveStops
  <2>3. QED
    BY <1>6, <2>1, <2>2 DEF Removes
<1>7. CASE Crash \/ PowerLoss
  <2>1. left' \in [faults : 0..MaxFaults, stops : 0..MaxStops]
    BY <1>1, <1>7 DEF Crash, PowerLoss, Stops
  <2>2. QED
    BY <1>7, <2>1 DEF Crash, PowerLoss, Stops
<1>8. CASE MakeDir \/ RenameOutput \/ SyncDir
  BY <1>4, <1>8 DEF MakeDir, RenameOutput, SyncDir
<1>9. CASE Aside
  <2>1. UNCHANGED <<op, saves, safe>>
    BY <1>9, AsideSteps DEF storeVars
  <2>2. UNCHANGED left \/ Fault
    <3>1. ASSUME BeginDownload \/ ClearWork \/ MakeWork \/ Report \/ CheckContext \/ WorkFails \/ Cleanup
                 \/ TakeResult \/ SyncOutput \/ CloseFails \/ PublishFails \/ Boot
          PROVE  UNCHANGED left \/ Fault
      BY <3>1 DEF BeginDownload, ClearWork, MakeWork, Report, CheckContext, WorkFails, Cleanup, TakeResult,
                  SyncOutput, CloseFails, PublishFails, Boot
    <3>2. ASSUME \/ StartTool \/ ToolCannotStart \/ Waits \/ ToolFailed \/ ToolSucceeded
                 \/ Kills \/ Reads \/ ToolRuns \/ ToolExits \/ Cancel
          PROVE  UNCHANGED left \/ Fault
      BY <3>2 DEF StartTool, ToolCannotStart, Waits, ToolFailed, ToolSucceeded, Kills, Reads,
                  ToolRuns, ToolExits, Cancel
    <3>3. QED
      BY <1>9, <3>1, <3>2 DEF Aside
  <2>3. QED
    BY <1>4, <2>1, <2>2
<1>10. CASE UNCHANGED vars
  BY <1>4, <1>10 DEF vars, storeVars
<1>11. QED
  BY <1>5, <1>6, <1>7, <1>8, <1>9, <1>10 DEF Next, GoroutinesRun, Pipeline, Aside, StoreStep

\* A line goes from the pipe to the caller, and comes once.
LEMMA RunStep == ASSUME Typed, [Next]_vars  PROVE RunTyped'
<1> USE DEF Typed, RunTyped
<1>1. heard' = <<>> => /\ heard' \in Seq(Streams)
                       /\ \A n \in 1..Len(heard') : FALSE
  OBVIOUS
<1>2. ASSUME UNCHANGED runnerVars  PROVE RunTyped'
  BY <1>2 DEF runnerVars
<1>3. CASE StartTool
  BY <1>1, <1>3 DEF StartTool, Start, Outcomes
<1>4. CASE ToolCannotStart
  BY <1>4 DEF ToolCannotStart, StartFails, Outcomes
<1>5. CASE ToolExits
  BY <1>5 DEF ToolExits, Exits
<1>6. CASE Kills \/ Cancel
  BY <1>6 DEF Kills, Kill, Cancel
<1>7. CASE Waits
  BY <1>7 DEF Waits, Wait, Returned, Outcomes
<1>8. ASSUME NEW s \in Streams, Hears(s)  PROVE RunTyped'
  <2>1. /\ heard' = Append(heard, s) /\ pipe' = pipe \ {s} /\ s \in pipe
        /\ UNCHANGED <<leader, outcome>>
    BY <1>8 DEF Hears
  <2>2. /\ heard' \in Seq(Streams) /\ Len(heard') = Len(heard) + 1 /\ Len(heard) \in Nat
        /\ heard'[Len(heard) + 1] = s
        /\ \A n \in 1..Len(heard) : heard'[n] = heard[n]
    BY <2>1
  <2>3. \A n \in 1..Len(heard') : heard'[n] \notin pipe'
    BY <2>1, <2>2
  <2>4. \A n, m \in 1..Len(heard') : heard'[n] = heard'[m] => n = m
    BY <2>1, <2>2
  <2>5. QED
    BY <2>1, <2>2, <2>3, <2>4
<1>9. CASE \E s \in Streams : Prints(s)
  BY <1>9 DEF Prints
<1>10. CASE ReadersEnd \/ (\E s \in Streams : GivesUp(s)) \/ Forks \/ ChildEnds
  BY <1>10 DEF ReadersEnd, GivesUp, Forks, ChildEnds
<1>11. CASE ToolFailed \/ ToolSucceeded
  <2>1. heard' = <<>> /\ outcome' = "none" /\ UNCHANGED <<leader, pipe>>
    BY <1>11 DEF ToolFailed, ToolSucceeded, Looks, Fetched, Downloaded, VideoProbed,
                 AudioProbed, OutputProbed, Continues, Gives
  <2>2. QED
    BY <1>1, <2>1
<1>12. CASE TakeResult \/ Crash \/ PowerLoss
  BY <1>1, <1>12 DEF TakeResult, Crash, PowerLoss, Stops, NextRunnerIdle
<1>13. CASE StoreStep \/ BeginDownload \/ ClearWork \/ MakeDir \/ MakeWork \/ Report \/ CheckContext
            \/ WorkFails \/ Cleanup \/ UNCHANGED vars
  <2>1. UNCHANGED runnerVars
    BY <1>13 DEF StoreStep, BeginDownload, ClearWork, MakeDir, MakeWork, Report, CheckContext,
                 WorkFails, Cleanup, vars
  <2>2. QED
    BY <1>2, <2>1
<1>14. CASE SyncOutput \/ CloseFails \/ RenameOutput \/ PublishFails \/ SyncDir \/ Boot
  <2>1. UNCHANGED runnerVars
    BY <1>14 DEF SyncOutput, CloseFails, RenameOutput, PublishFails, SyncDir, Boot
  <2>2. QED
    BY <1>2, <2>1
<1>15. CASE Reads \/ ToolRuns
  <2>1. Listened \subseteq Streams
    BY DEF Listened, Streams
  <2>2. QED
    BY <1>8, <1>9, <1>10, <1>15, <2>1 DEF Reads, ToolRuns
<1>16. QED
  BY <1>3, <1>4, <1>5, <1>6, <1>7, <1>11, <1>12, <1>13, <1>14, <1>15
     DEF Next, GoroutinesRun, Pipeline

\* Download moves from label to label, with a result only where it is through.
LEMMA LabelStep ==
  ASSUME Typed, [Next]_vars
  PROVE  /\ up' \in BOOLEAN /\ at' \in Labels /\ attempt' \in 0..MaxDownloads
         /\ result' \in Results
         /\ result' = "none" <=> at' \notin {"cleanup", "returned"}
<1> USE DEF Typed, WorkTyped, Labels, Results
<1>1. MaxDownloads \in Nat
  BY BoundsAssumption DEF BoundsAssumption
<1>2. CASE BeginDownload
  <2>1. attempt' \in 0..MaxDownloads
    BY <1>1, <1>2 DEF BeginDownload
  <2>2. at' \in {"fetch", "clear"} /\ at = "idle" /\ up' = up /\ result' = result
    BY <1>2 DEF BeginDownload
  <2>3. QED
    BY <2>1, <2>2 DEF Tools
<1>3. CASE StoreStep \/ StartTool \/ ToolCannotStart \/ ToolExits
  BY <1>3 DEF StoreStep, StartTool, ToolCannotStart, ToolExits
<1>4. CASE MakeDir \/ Waits \/ Kills \/ Reads \/ ToolRuns \/ Cancel \/ UNCHANGED vars
  <2>1. up' = up /\ at' = at /\ attempt' = attempt /\ result' = result
    BY <1>4 DEF MakeDir, Waits, Kills, Reads, ToolRuns, Cancel, vars, pipelineVars
  <2>2. QED
    BY <2>1
<1>5. CASE ClearWork \/ MakeWork \/ SyncOutput \/ RenameOutput \/ Report
  BY <1>5 DEF ClearWork, MakeWork, SyncOutput, RenameOutput, Report, Reported, Moves, Tools
<1>6. CASE CheckContext
  BY <1>6 DEF CheckContext, Checked, Leaves
<1>7. CASE WorkFails \/ CloseFails \/ PublishFails \/ SyncDir
  BY <1>7 DEF WorkFails, CloseFails, PublishFails, SyncDir, Leaves
<1>8. CASE Cleanup \/ TakeResult
  BY <1>8 DEF Cleanup, TakeResult, Moves
<1>9. CASE ToolFailed
  BY <1>9 DEF ToolFailed, Looks, Leaves
<1>10. CASE ToolSucceeded
  <2>1. up' = up /\ attempt' = attempt /\ at \in Tools
    BY <1>10 DEF ToolSucceeded, Looks, Fetched, Downloaded, VideoProbed, AudioProbed, OutputProbed,
                 Continues, Gives, Tools
  <2>2. \/ result' = result /\ at' \in {"clear", "probeVideo", "probeAudio", "toConvert", "audio",
                                        "toVerify", "verified"}
        \/ result' = "errored" /\ at' \in {"cleanup", "returned"}
    BY <1>10 DEF ToolSucceeded, Fetched, Downloaded, VideoProbed, AudioProbed, OutputProbed,
                 Continues, Gives, Leaves
  <2>3. QED
    BY <2>1, <2>2 DEF Tools
<1>11. CASE Crash \/ PowerLoss \/ Boot
  BY <1>11 DEF Crash, PowerLoss, Stops, Boot
<1>12. QED
  BY <1>2, <1>3, <1>4, <1>5, <1>6, <1>7, <1>8, <1>9, <1>10, <1>11
     DEF Next, GoroutinesRun, Pipeline

\* What a tool leaves in the work directory, and what Download makes of it.
LEMMA WorkStep ==
  ASSUME Typed, [Next]_vars
  PROVE  work' \in [dir : BOOLEAN, streams : 0..MaxDownloads, output : Video]
<1> DEFINE Works == [dir : BOOLEAN, streams : 0..MaxDownloads, output : Video]
<1>1. /\ work \in Works /\ attempt \in 0..MaxDownloads /\ 0 \in 0..MaxDownloads
      /\ work = [dir |-> work.dir, streams |-> work.streams, output |-> work.output]
      /\ work.dir \in BOOLEAN /\ work.streams \in 0..MaxDownloads /\ work.output \in Video
  BY BoundsAssumption DEF BoundsAssumption, Typed, WorkTyped
<1>2. NoWork \in Works
  BY <1>1, NoVideoTyped DEF NoWork
<1>3. CASE work' \in {work, NoWork}
  BY <1>1, <1>2, <1>3
<1>4. CASE MakeWork
  BY <1>1, <1>4 DEF MakeWork
<1>5. CASE RenameOutput
  <2>1. PICK none \in Video : none = NoVideo
    BY NoVideoTyped
  <2>2. work' = [dir |-> work.dir, streams |-> work.streams, output |-> none]
    BY <1>1, <1>5, <2>1 DEF RenameOutput
  <2>3. QED
    BY <1>1, <2>2
<1>6. CASE StartTool
  <2>1. PICK partial : partial = [by |-> work.streams, is |-> "partial"]
    OBVIOUS
  <2>2. partial \in Video
    BY <1>1, <2>1 DEF Video
  <2>3. work' = work \/ work' = [dir |-> work.dir, streams |-> work.streams, output |-> partial]
    BY <1>1, <1>6, <2>1 DEF StartTool, WorkAtStart
  <2>4. QED
    BY <1>1, <2>2, <2>3
<1>7. CASE ToolExits
  <2>1. CASE UNCHANGED work
    BY <1>3, <2>1
  <2>2. CASE work' \in Products
    <3>1. CASE at \in {"video", "audio"} /\ work.streams = 0
      <4>1. work' = [dir |-> work.dir, streams |-> attempt, output |-> work.output]
        BY <1>1, <2>2, <3>1 DEF Products
      <4>2. QED
        BY <1>1, <4>1
    <3>2. CASE at = "convert"
      <4>1. PICK kind \in {"unfit", "short", "good"} : work' = [work EXCEPT !.output.is = kind]
        BY <2>2, <3>2 DEF Products
      <4>2. PICK made : made = [work.output EXCEPT !.is = kind]
        OBVIOUS
      <4>3. made \in Video
        BY <1>1, <4>2 DEF Video
      <4>4. work' = [dir |-> work.dir, streams |-> work.streams, output |-> made]
        BY <1>1, <4>1, <4>2
      <4>5. QED
        BY <1>1, <4>3, <4>4
    <3>3. CASE at # "convert" /\ ~(at \in {"video", "audio"} /\ work.streams = 0)
      BY <1>3, <2>2, <3>3 DEF Products
    <3>4. QED
      BY <3>1, <3>2, <3>3
  <2>3. QED
    BY <1>7, <2>1, <2>2 DEF ToolExits
<1>8. CASE StoreStep \/ Crash \/ PowerLoss \/ Boot \/ ClearWork \/ MakeDir \/ Cleanup
  BY <1>3, <1>8 DEF StoreStep, Crash, PowerLoss, Stops, Boot, ClearWork, MakeDir, Cleanup, WorkLeft,
                    FreshWork, pipelineVars
<1>9. CASE BeginDownload \/ Report \/ CheckContext \/ WorkFails \/ TakeResult \/ SyncOutput
           \/ CloseFails \/ PublishFails \/ SyncDir
  BY <1>3, <1>9 DEF BeginDownload, Report, CheckContext, WorkFails, TakeResult, SyncOutput,
                    CloseFails, PublishFails, SyncDir
<1>10. CASE ToolCannotStart \/ Waits \/ ToolFailed \/ ToolSucceeded \/ Kills \/ Reads \/ ToolRuns
            \/ Cancel \/ UNCHANGED vars
  BY <1>3, <1>10 DEF ToolCannotStart, Waits, ToolFailed, ToolSucceeded, Kills, Reads, ToolRuns,
                     Cancel, vars, pipelineVars
<1>11. QED
  BY <1>4, <1>5, <1>6, <1>7, <1>8, <1>9, <1>10 DEF Next, GoroutinesRun, Pipeline

\* Two streams, so two lines at most.
LEMMA LinesAreTwo == ASSUME RunTyped  PROVE Len(heard) <= 2
<1>1. Len(heard) \in Nat /\ \A n \in 1..Len(heard) : heard[n] \in Streams
  BY DEF RunTyped
<1>2. SUFFICES ASSUME Len(heard) > 2  PROVE FALSE
  BY <1>1
<1>3. 1 \in 1..Len(heard) /\ 2 \in 1..Len(heard) /\ 3 \in 1..Len(heard)
  BY <1>1, <1>2
<1>4. heard[1] # heard[2] /\ heard[2] # heard[3] /\ heard[1] # heard[3]
  BY <1>3 DEF RunTyped
<1>5. QED
  BY <1>1, <1>3, <1>4 DEF Streams

\* Every variable holds a value of its kind: a video is named by a Download that
\* was called, no file is of a Save that was not, and Download has a result exactly
\* when it is through.
THEOREM PipelineTypeCorrect == Spec => []TypeOK
<1>1. StoreInv /\ RunInv /\ Typed /\ [Next]_vars => StoreInv' /\ RunInv' /\ Typed'
  <2> SUFFICES ASSUME StoreInv, RunInv, Typed, [Next]_vars  PROVE StoreInv' /\ RunInv' /\ Typed'
    OBVIOUS
  <2>1. StoreInv' /\ RunInv'
    BY StoreInvStep, RunInvStep
  <2>2. WorkTyped'
    BY LabelStep, WorkStep DEF WorkTyped
  <2>3. QED
    BY <2>1, <2>2, DiskStep, CountsStep, RunStep DEF Typed
<1>2. StoreInv /\ RunInv /\ Typed => TypeOK
  <2> SUFFICES ASSUME StoreInv, RunInv, Typed  PROVE TypeOK
    OBVIOUS
  <2>1. StoreTypes
    BY DEF StoreInv, Seen, CardInv, Typed, DiskTyped, CountsTyped, StoreTypes
  <2>2. RunnerTypes
    BY LinesAreTwo DEF RunInv, ReaderInv, OutcomeInv, Typed, RunTyped, RunnerTypes
  <2>3. QED
    BY <2>1, <2>2 DEF Typed, WorkTyped, TypeOK
<1>3. QED
  BY <1>1, <1>2, StoreInvInit, RunInvInit, InitTyped, PTL DEF Spec
=============================================================================
