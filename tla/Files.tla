------------------------------- MODULE Files -------------------------------
(***************************************************************************)
(* What the job manager takes for granted of a video's files, and of the   *)
(* pipeline that makes them: the outcomes Manager.tla gives to Store.Save, *)
(* Store.Remove and Downloader.Download, and to a crash, for one video.  A *)
(* record is a number.  Beyond Manager.tla there is may, what a power loss *)
(* would leave: a change joins it, and is alone there once a sync of the   *)
(* directory has made it last.                                             *)
(***************************************************************************)
EXTENDS Integers

VARIABLES
  disk,   \* the directory: whether it exists, its record and its video do
  may,    \* what a power loss may leave of each part of disk
  op,     \* the call into the store
  last,   \* the record of the last Save
  label,  \* where the pipeline is, as Manager has it
  done    \* the context of the download is done

vars == <<disk, may, op, last, label, done>>

NoRecord == 0
NoDir    == [dir |-> FALSE, meta |-> NoRecord, video |-> FALSE]

Written(d, m)     == [dir |-> TRUE, meta |-> m, video |-> d.video]
Made(d)           == Written(d, d.meta)
FailedSaves(d, m) == {d, Made(d), Written(d, m)}
PartialRemovals(d) ==
  {NoDir} \union [dir : {d.dir}, meta : {d.meta, NoRecord}, video : {d.video, FALSE}]

Settled(d) == [dir |-> {d.dir}, meta |-> {d.meta}, video |-> {d.video}]

\* What is seen of the directory changes, and may last.
Becomes(d) ==
  /\ disk' = d
  /\ may' = [dir |-> may.dir \union {d.dir}, meta |-> may.meta \union {d.meta},
             video |-> may.video \union {d.video}]

\* It lasts.
Lasts == may' = Settled(disk) /\ UNCHANGED disk

-----------------------------------------------------------------------------

BeginSave ==
  /\ op = "idle" /\ op' = "save"
  /\ last' = last + 1
  /\ UNCHANGED <<disk, may, label, done>>

SaveGoesOn ==
  /\ op = "save"
  /\ \E d \in FailedSaves(disk, last) : Becomes(d)
  /\ UNCHANGED <<op, last, label, done>>

Saved ==
  /\ op = "save" /\ op' = "idle"
  /\ disk = Written(disk, last)
  /\ Lasts
  /\ UNCHANGED <<last, label, done>>

BeginRemove ==
  /\ op = "idle" /\ label = "idle" /\ op' = "remove"
  /\ UNCHANGED <<disk, may, last, label, done>>

RemoveGoesOn ==
  /\ op = "remove"
  /\ \E d \in PartialRemovals(disk) : Becomes(d)
  /\ UNCHANGED <<op, last, label, done>>

Removed ==
  /\ op = "remove" /\ op' = "idle"
  /\ disk = NoDir
  /\ Lasts
  /\ UNCHANGED <<last, label, done>>

\* Either call returns an error.
Fails ==
  /\ op # "idle" /\ op' = "idle"
  /\ UNCHANGED <<disk, may, last, label, done>>

-----------------------------------------------------------------------------
(* The pipeline, as in Manager. *)

Working == {"prepare", "prepared", "downloading", "processing", "verifying"}
Ended   == {"succeeded", "errored", "canceled"}

NextStages == [prepared |-> {"downloading"}, downloading |-> {"downloading", "processing"},
               processing |-> {"processing", "verifying"}]

Begin ==
  /\ label = "idle" /\ op # "remove"
  /\ label' = "prepare"
  /\ UNCHANGED <<disk, may, op, last, done>>

Moves(from, to) == label \in from /\ label' = to

\* The two are Manager!MakeWork; when the second fails, it is as if Manager's
\* pipeline had failed right after it.
MakeDir ==
  /\ label = "prepare"
  /\ Becomes(Made(disk))
  /\ UNCHANGED <<op, last, label, done>>

MakeWork ==
  /\ Moves({"prepare"}, "prepared")
  /\ disk.dir
  /\ UNCHANGED <<disk, may, op, last, done>>

Publish ==
  /\ Moves({"publish"}, "succeeded")
  /\ disk.dir
  /\ Becomes([dir |-> TRUE, meta |-> disk.meta, video |-> TRUE])
  /\ UNCHANGED <<op, last, done>>

\* The sync of the directory may fail, and nobody is told.
PublishLasts ==
  /\ label = "succeeded"
  /\ Lasts
  /\ UNCHANGED <<op, last, label, done>>

Report           == label \in DOMAIN NextStages /\ label' \in NextStages[label]
CheckContext     == Moves({"verifying"}, "publish") /\ ~done
PublishNothing   == Moves({"publish"}, "succeeded")
PipelineFails    == Moves(Working \union {"publish"}, "errored")
PipelineCanceled == Moves(Working, "canceled") /\ done

\* Steps that touch no file.
PipelineMoves ==
  /\ Report \/ CheckContext \/ PublishNothing \/ PipelineFails \/ PipelineCanceled
  /\ UNCHANGED <<disk, may, op, last, done>>

TakeResult ==
  /\ Moves(Ended, "idle")
  /\ done' = FALSE
  /\ UNCHANGED <<disk, may, op, last>>

Cancel ==
  /\ label # "idle" /\ done' = TRUE
  /\ UNCHANGED <<disk, may, op, last, label>>

Ends == /\ op' = "idle" /\ label' = "idle" /\ done' = FALSE
        /\ UNCHANGED last

\* The process ends; a call that was under way stays where it is.  This is
\* Manager!Crash.
Crash == Ends /\ UNCHANGED <<disk, may>>

\* The power goes.  Manager.tla knows this only where it is a crash: where may
\* is Settled(disk), a sync having followed every change.
PowerLoss ==
  /\ \E d \in [dir : may.dir, meta : may.meta, video : may.video] :
       disk' = IF d.dir THEN d ELSE NoDir
  /\ may' = Settled(disk')
  /\ Ends

Init == /\ disk = NoDir /\ may = Settled(NoDir) /\ op = "idle" /\ last = 0
        /\ label = "idle" /\ done = FALSE

Next == \/ BeginSave \/ SaveGoesOn \/ Saved
        \/ BeginRemove \/ RemoveGoesOn \/ Removed \/ Fails
        \/ Begin \/ MakeDir \/ MakeWork \/ Publish \/ PublishLasts \/ PipelineMoves
        \/ TakeResult \/ Cancel \/ Crash \/ PowerLoss

Spec == Init /\ [][Next]_vars
=============================================================================
