----------------------------- MODULE Downloader -----------------------------
(***************************************************************************)
(* VideoDownloader.Download of internal/app/downloader.go over the runner  *)
(* and one video's directory, with Save and Remove of the store beside it  *)
(* and the ends a process can come to.                                     *)
(*                                                                         *)
(* Manager keeps the order that is assumed here: one Download at a time,   *)
(* one call of Save or Remove at a time, no Remove while a Download runs   *)
(* (StoreIsUsedInOrder of PersistenceProofs).  What a tool leaves behind   *)
(* is one of the things the pipeline has to tell apart; the arguments the  *)
(* tools are given are left out.  The tools die with the process.          *)
(***************************************************************************)
EXTENDS DiskStore, Runner

VARIABLES
  up,       \* the process runs
  at,       \* where Download is
  attempt,  \* calls of Download so far
  work,     \* the work directory: whether it exists, by which Download the
            \* streams in it were downloaded, and the output
  result    \* what Download returns

pipelineVars == <<up, at, attempt, work, result>>
vars == <<storeVars, left, runnerVars, pipelineVars>>

Tools   == {"fetch", "video", "probeVideo", "audio", "probeAudio", "convert", "probeOutput"}
Labels  == Tools \union {"idle", "clear", "mkwork", "prepared", "toConvert", "toVerify",
                         "verified", "sync", "rename", "syncDir", "cleanup", "returned"}
Results == {"none", "succeeded", "errored", "canceled"}

NoWork == [dir |-> FALSE, streams |-> 0, output |-> NoVideo]

TypeOK ==
  /\ StoreTypes /\ RunnerTypes
  /\ up \in BOOLEAN /\ at \in Labels /\ attempt \in 0..MaxDownloads
  /\ work \in [dir : BOOLEAN, streams : 0..MaxDownloads, output : Video]
  /\ result \in Results
  /\ result = "none" <=> at \notin {"cleanup", "returned"}

-----------------------------------------------------------------------------
(* Download, between the tools. *)

Moves(from, to) == up /\ at = from /\ at' = to

\* The error, or the success, that Download returns; the deferred removal of
\* the work directory is still to come once there is one.
Leaves(r) == /\ result' = r
             /\ at' = IF at \in {"fetch", "clear", "mkwork"} THEN "returned" ELSE "cleanup"

\* Manager downloads a video it has a card of (StoreCallsOrdered of
\* PersistenceProofs).  A title that is known already saves the fetch.
BeginDownload ==
  /\ up /\ at = "idle" /\ op \notin RemoveSteps
  /\ card /\ attempt < MaxDownloads
  /\ attempt' = attempt + 1
  /\ at' \in {"fetch", "clear"}
  /\ UNCHANGED <<storeVars, left, runnerVars, up, work, result>>

\* Seeded fault: what an earlier run left in the work directory stays.
KeptWork == [work EXCEPT !.dir = TRUE]
FreshWork == NoWork

ClearWork ==
  /\ Moves("clear", "mkwork")
  /\ work' = FreshWork
  /\ UNCHANGED <<storeVars, left, runnerVars, up, attempt, result>>

\* os.MkdirAll(work) makes the directory of the video first, which a removal or
\* a save that failed may have left missing.
MakeDir ==
  /\ up /\ at = "mkwork" /\ ~now.dir
  /\ DirMade
  /\ UNCHANGED <<op, saves, history, left, runnerVars, pipelineVars>>

MakeWork ==
  /\ Moves("mkwork", "prepared")
  /\ now.dir
  /\ work' = [work EXCEPT !.dir = TRUE]
  /\ UNCHANGED <<storeVars, left, runnerVars, up, attempt, result>>

\* report(StageDownloadVideo), report(StageProcessing), report(StageVerifying).
\* Left out: the second report(StageDownloadVideo), before the audio, and those
\* of the progress within a stage, which change nothing here.
Reported == {<<"prepared", "video">>, <<"toConvert", "convert">>, <<"toVerify", "probeOutput">>}

Report ==
  /\ \E step \in Reported : Moves(step[1], step[2])
  /\ UNCHANGED <<storeVars, left, runnerVars, up, attempt, work, result>>

\* The last look at the context before publish.  Seeded fault: the error is
\* kept, and publish goes on.
CheckedLate == at' = "sync" /\ result' = IF ctx THEN "canceled" ELSE result
Checked     == IF ctx THEN Leaves("canceled") ELSE at' = "sync" /\ UNCHANGED result

CheckContext ==
  /\ up /\ at = "verified"
  /\ Checked
  /\ UNCHANGED <<storeVars, left, runnerVars, up, attempt, work>>

\* os.RemoveAll(work) and os.MkdirAll(work) fail with ErrStorage.
WorkFails ==
  /\ up /\ at \in {"clear", "mkwork"}
  /\ Fault
  /\ Leaves("errored")
  /\ UNCHANGED <<storeVars, runnerVars, up, attempt, work>>

\* The deferred os.RemoveAll(work), whose error nobody sees.
Cleanup ==
  /\ Moves("cleanup", "returned")
  /\ \/ work' = NoWork /\ UNCHANGED left
     \/ Fault /\ UNCHANGED work
  /\ UNCHANGED <<storeVars, runnerVars, up, attempt, result>>

\* The manager takes the result, and the context is done with.
TakeResult ==
  /\ Moves("returned", "idle")
  /\ result' = "none"
  /\ ctx' = FALSE /\ NextRunnerIdle
  /\ UNCHANGED <<storeVars, left, up, attempt, work>>

-----------------------------------------------------------------------------
(* publish. *)

\* Seeded fault: the output is renamed without being synced.
UnsyncedVideo(v) == {v, TornVideo(v)}
VideoData(v)     == {v}

\* Open, Sync, Stat and Close.
SyncOutput ==
  /\ Moves("sync", "rename")
  /\ UNCHANGED <<storeVars, left, runnerVars, up, attempt, work, result>>

\* When only Close fails, publish returns statErr, which is nil: a success.
CloseFails ==
  /\ up /\ at = "sync"
  /\ Fault
  /\ Leaves("succeeded")
  /\ UNCHANGED <<storeVars, runnerVars, up, attempt, work>>

RenameOutput ==
  /\ Moves("rename", "syncDir")
  /\ now' = [now EXCEPT !.video = work.output]
  /\ after' = [after EXCEPT !.video = @ \union VideoData(work.output)]
  /\ work' = [work EXCEPT !.output = NoVideo]
  /\ UNCHANGED <<op, saves, history, left, runnerVars, up, attempt, result>>

PublishFails ==
  /\ up /\ at \in {"sync", "rename"}
  /\ Fault
  /\ Leaves("errored")
  /\ UNCHANGED <<storeVars, runnerVars, up, attempt, work>>

\* An error of the directory's sync is ignored.
SyncDir ==
  /\ up /\ at = "syncDir"
  /\ \/ DirSynced /\ UNCHANGED left
     \/ Fault /\ UNCHANGED after
  /\ Leaves("succeeded")
  /\ UNCHANGED <<now, op, saves, history, runnerVars, up, attempt, work>>

-----------------------------------------------------------------------------
(* The tools. *)

\* ffmpeg -y writes over an output that is there.
WorkAtStart == IF at = "convert" /\ run' THEN [work EXCEPT !.output = [by |-> work.streams, is |-> "partial"]]
               ELSE work

StartTool ==
  /\ up /\ at \in Tools
  /\ Start
  /\ work' = WorkAtStart
  /\ UNCHANGED <<storeVars, left, up, at, attempt, result>>

ToolCannotStart ==
  /\ up /\ at \in Tools
  /\ Fault /\ StartFails
  /\ UNCHANGED <<storeVars, up, at, attempt, work, result>>

\* What a command that ends well leaves in the work directory.  yt-dlp keeps
\* a file it finds; ffmpeg may have produced anything.
Products ==
  CASE at \in {"video", "audio"} /\ work.streams = 0 -> {[work EXCEPT !.streams = attempt]}
    [] at = "convert" -> {[work EXCEPT !.output.is = kind] : kind \in {"unfit", "short", "good"}}
    [] OTHER -> {work}

ToolExits ==
  /\ \/ Exits("exited") /\ work' \in Products
     \/ Exits("failed") /\ UNCHANGED work
  /\ UNCHANGED <<storeVars, left, up, at, attempt, result>>

\* The lines that matter: those of ffmpeg only move the progress, and Fetch skips
\* what is no JSON.
Listened == CASE at = "convert" -> {} [] at = "fetch" -> {"stdout"} [] OTHER -> Streams

\* yt-dlp starts other programs.
ToolRuns ==
  /\ \/ at \in {"fetch", "video", "audio"} /\ Forks
     \/ ChildEnds
     \/ \E s \in Listened : Prints(s)
  /\ UNCHANGED <<storeVars, left, pipelineVars>>

\* The goroutines of a run: os/exec's, the readers, and the caller's in Wait.  A
\* reader that gives up counts as a fault.
Kills == Kill /\ UNCHANGED <<storeVars, left, pipelineVars>>
Waits == Wait /\ UNCHANGED <<storeVars, left, pipelineVars>>
Reads == /\ \/ (ReadersEnd \/ \E s \in Streams : Hears(s)) /\ UNCHANGED left
            \/ Fault /\ \E s \in Streams : GivesUp(s)
         /\ UNCHANGED <<storeVars, pipelineVars>>

\* The caller looks at what Run returned, and at the lines it was given.  A child
\* that is left is not followed further.
Looks(tool) == /\ up /\ at = tool
               /\ outcome # "none" /\ outcome' = "none" /\ heard' = <<>>
               /\ children' = {} /\ reader' = AllReaders("off")

\* Fetch and probe return the context's error when it is done, runYtDLP and
\* runFFmpeg what Run returned.
AsksContext == at \in {"fetch", "probeVideo", "probeAudio", "probeOutput"}

ToolFailed ==
  /\ \E tool \in Tools : Looks(tool)
  /\ outcome # "ok"
  /\ Leaves(IF outcome = "canceled" \/ (ctx /\ AsksContext) THEN "canceled" ELSE "errored")
  /\ UNCHANGED <<storeVars, left, ctx, run, leader, pipe, up, attempt, work>>

Continues(tool, to) == Looks(tool) /\ outcome = "ok" /\ at' = to /\ UNCHANGED result
Gives(tool, r)      == Looks(tool) /\ outcome = "ok" /\ Leaves(r)

LastIs(s)  == heard # <<>> /\ heard[Len(heard)] = s
Heard(s)   == \E n \in 1..Len(heard) : heard[n] = s

\* Fetch looks for a line of JSON among all lines.  It rejects a video that is
\* live or not the one that was asked for.
Fetched == \/ Heard("stdout") /\ Continues("fetch", "clear")
           \/ Gives("fetch", "errored")

\* runYtDLP takes the last line, of either stream, for the path.
Downloaded(tool, probe) ==
  IF LastIs("stdout") THEN Continues(tool, probe) ELSE Gives(tool, "errored")

\* probe parses all lines of both streams together as JSON.
Parsed == Heard("stdout") /\ ~Heard("stderr")

\* The video stream is missing, or there is sound, or sound is to be fetched.
VideoProbed == \/ Parsed /\ \E to \in {"toConvert", "audio"} : Continues("probeVideo", to)
               \/ Gives("probeVideo", "errored")
AudioProbed == IF Parsed THEN Continues("probeAudio", "toConvert")
               ELSE Gives("probeAudio", "errored")

\* analyzeVideo and the duration.  Seeded fault: the duration is not compared.
AcceptsShort == work.output.is \in {"good", "short"}
Accepts      == work.output.is = "good"
OutputProbed == IF Parsed /\ Accepts THEN Continues("probeOutput", "verified")
                ELSE Gives("probeOutput", "errored")

ToolSucceeded ==
  /\ \/ Fetched \/ VideoProbed \/ AudioProbed \/ OutputProbed
     \/ Downloaded("video", "probeVideo") \/ Downloaded("audio", "probeAudio")
     \/ Continues("convert", "toVerify")
  /\ UNCHANGED <<storeVars, left, ctx, run, leader, pipe, up, attempt, work>>

-----------------------------------------------------------------------------
(* The process. *)

\* Manager cancels a job that is deleted, and every job when it closes.
Cancel ==
  /\ up /\ at # "idle" /\ ~ctx
  /\ ctx' = TRUE
  /\ UNCHANGED <<storeVars, left, run, leader, children, pipe, reader, heard, outcome, pipelineVars>>

\* The work directory goes with the directory it is in.
WorkLeft == IF now'.dir THEN work ELSE NoWork

Stops ==
  /\ up /\ up' = FALSE
  /\ left.stops > 0 /\ left' = [left EXCEPT !.stops = @ - 1]
  /\ op' = "idle" /\ at' = "idle" /\ result' = "none" /\ card' = FALSE
  /\ ctx' = FALSE /\ NextRunnerIdle
  /\ work' = WorkLeft
  /\ UNCHANGED <<saves, safe, attempt>>

\* The process ends, and the directory stays as it is; or the power goes.
Crash     == UNCHANGED <<now, after>> /\ Stops
PowerLoss == LosePower /\ Stops

\* CleanWorkFiles ignores errors; Recover makes a card of what it finds.
Boot ==
  /\ ~up /\ up' = TRUE
  /\ \/ work' = NoWork /\ UNCHANGED left
     \/ Fault /\ UNCHANGED work
  /\ card' = now.dir
  /\ UNCHANGED <<now, after, op, saves, safe, runnerVars, at, attempt, result>>

StoreStep ==
  /\ up
  /\ Save \/ (at = "idle" /\ BeginRemove) \/ Removes
  /\ work' = WorkLeft
  /\ UNCHANGED <<runnerVars, up, at, attempt, result>>

Pipeline == \/ ClearWork \/ MakeDir \/ MakeWork \/ Report \/ CheckContext \/ WorkFails
            \/ Cleanup \/ TakeResult
            \/ SyncOutput \/ CloseFails \/ RenameOutput \/ PublishFails \/ SyncDir
            \/ StartTool \/ ToolCannotStart \/ Waits \/ ToolFailed \/ ToolSucceeded

\* While a goroutine of Download or of its runs can go on, one of them does.
\* Nothing is assumed of a tool, nor of its child: they may hang until they
\* are killed.
GoroutinesRun == Pipeline \/ Kills \/ Reads

Init ==
  /\ StoreInit /\ RunnerIdle
  /\ up = FALSE /\ at = "idle" /\ attempt = 0 /\ work = NoWork /\ result = "none"

Next == \/ StoreStep \/ BeginDownload \/ GoroutinesRun
        \/ ToolRuns \/ ToolExits \/ Cancel \/ Crash \/ PowerLoss \/ Boot

Spec == Init /\ [][Next]_vars

FairSpec == Spec /\ WF_vars(GoroutinesRun)

-----------------------------------------------------------------------------
(* Properties. *)

\* When Run has returned, the process it started is gone and neither reader will
\* call onLine again; of its group only a child can be left that holds no pipe, but
\* for one whose reader gave up, and none if Run killed the command
\* (ProcessRunner: "kills the entire subprocess group on cancellation").
NothingOutlivesRun ==
  /\ ~run => /\ leader # "running" /\ \A s \in Streams : reader[s] # "reading"
             /\ \A child \in children : \A s \in child : reader[s] = "gaveUp"
  /\ leader = "killed" => children = {}

\* A command we killed is never reported as one that failed: the download is
\* said to be interrupted, not the video to be unavailable (publicError), at
\* whatever moment of whichever tool the cancellation came.
KillIsNotBlamed ==
  at \in {"cleanup", "returned"} /\ leader = "killed" => result = "canceled"

RecordsSurvive ==
  /\ after.meta \subseteq safe
  /\ NoRecord \notin safe => after.dir = {TRUE}

RemovalsSurvive == safe = {NoRecord} => after.dir = {FALSE}

\* At any moment a power loss leaves, whole, the record of the last Save that
\* returned nil or of one attempted since, in a directory that is there; once a
\* Remove has begun it may leave none, whether or not the Remove is carried
\* through.  And a directory whose removal Remove confirmed does not come back
\* (Remove: "so the removal survives an abrupt power loss").
CrashSafe == RecordsSurvive /\ RemovalsSurvive

\* Whatever is served as the video now, or after a power loss at this moment,
\* is a whole file that was probed, found compatible and, where durations are known,
\* as long as its source (publish: "moves the verified MP4 into place atomically").
PublishedIsVerified == \A v \in after.video : v # NoVideo => v.is = "good"

\* A video that is put into place was made, from its streams on, by the
\* Download that puts it there, whatever earlier ones left in work.
PublishedIsOwn ==
  [][up' /\ now'.video \notin {now.video, NoVideo} => now'.video.by = attempt]_vars

\* A cancelled Download returns, though the tool and its child hang.
CancelledEnds == up /\ ctx /\ at # "idle" ~> at = "idle"
=============================================================================
