----------------------------- MODULE DiskStore -----------------------------
(***************************************************************************)
(* One videos/<id> directory, and the two operations of internal/app/      *)
(* store.go that change it, Save and Remove, system call by system call.   *)
(* Manager.saveMu lets one of them run at a time.                          *)
(*                                                                         *)
(* The file system (external) keeps two things of each name: what the      *)
(* process sees, and what may be there after a power loss.  A change joins *)
(* the second when it is made and is alone there once the directory is     *)
(* synced; a rename of a file that was not synced may leave torn data      *)
(* under the name.  Syncing the directory is taken to make its own entry   *)
(* last as well, as journaling file systems do; no order is assumed        *)
(* between different names.                                                *)
(***************************************************************************)
EXTENDS Integers, FiniteSets

CONSTANTS
  MaxSaves,      \* bound: calls of Save
  MaxDownloads,  \* bound: calls of Download
  MaxFaults,     \* bound: failures of system calls and readers
  MaxStops       \* bound: crashes and power losses

ASSUME BoundsAssumption ==
  /\ MaxSaves \in Nat /\ MaxDownloads \in Nat /\ MaxFaults \in Nat /\ MaxStops \in Nat

VARIABLES
  now,     \* the directory as the process sees it
  after,   \* per name, what a power loss may leave
  op,      \* the next system call of Save or Remove
  saves,   \* Save calls so far; the last is the record it writes
  safe,    \* the records Save and Remove allow a power loss to leave (history)
  card,    \* the manager has a card of the video: Scan found the directory, or
           \* a Save returned nil, and no Remove did since (history)
  left     \* what remains of the bounds on faults and stops

history   == <<safe, card>>
storeVars == <<now, after, op, saves, history>>

\* A record is the number of the Save that wrote it.
NoRecord == 0
Torn     == -1
Records  == Torn..MaxSaves

\* A media file is named by the Download that made it.
Video   == [by : 0..MaxDownloads, is : {"none", "partial", "unfit", "short", "good", "torn"}]
NoVideo == [by |-> 0, is |-> "none"]
TornVideo(v) == [v EXCEPT !.is = "torn"]

SaveSteps   == {"mkdir", "write", "sync"}
RemoveSteps == {"unlink", "syncRoot"}

StoreTypes ==
  /\ now \in [dir : BOOLEAN, meta : Records, video : Video]
  /\ after.dir \subseteq BOOLEAN /\ after.meta \subseteq Records /\ after.video \subseteq Video
  /\ now.dir \in after.dir /\ now.meta \in after.meta /\ now.video \in after.video
  /\ op \in {"idle"} \union SaveSteps \union RemoveSteps
  /\ saves \in 0..MaxSaves /\ safe \subseteq 0..saves /\ card \in BOOLEAN
  /\ left \in [faults : 0..MaxFaults, stops : 0..MaxStops]

Fault == left.faults > 0 /\ left' = [left EXCEPT !.faults = @ - 1]

-----------------------------------------------------------------------------
(* The file system. *)

\* Seeded fault, for the record and for the video: the file is not synced
\* before it is renamed.
UnsyncedRecord(m) == {m, Torn}
RecordData(m)     == {m}

PutRecord(m) == /\ now' = [now EXCEPT !.meta = m]
                /\ after' = [after EXCEPT !.meta = @ \union RecordData(m)]

DirMade   == /\ now' = [now EXCEPT !.dir = TRUE]
             /\ after' = [after EXCEPT !.dir = @ \union {TRUE}]
DirSynced == after' = [dir |-> {TRUE}, meta |-> {now.meta}, video |-> {now.video}]

\* Every change of the directory that a power loss may or may not undo.
Survivors == [dir : after.dir, meta : after.meta, video : after.video]
Surviving(d) == IF d.dir THEN d ELSE [dir |-> FALSE, meta |-> NoRecord, video |-> NoVideo]
Settled(d)   == [dir |-> {d.dir}, meta |-> {d.meta}, video |-> {d.video}]

-----------------------------------------------------------------------------
(* Save. *)

BeginSave ==
  /\ op = "idle" /\ saves < MaxSaves
  /\ op' = "mkdir" /\ saves' = saves + 1
  /\ safe' = safe \union {saves'}
  /\ UNCHANGED <<now, after, card, left>>

SaveMakesDir ==
  /\ op = "mkdir" /\ op' = "write"
  /\ DirMade
  /\ UNCHANGED <<saves, history, left>>

\* writeFileSync; up to its rename it works on a temporary name nobody reads.
WriteRecord ==
  /\ op = "write" /\ op' = "sync"
  /\ PutRecord(saves)
  /\ UNCHANGED <<saves, history, left>>

\* Seeded fault: the directory is not synced.
NotSynced == UNCHANGED after
SaveSyncs == DirSynced

EndSave ==
  /\ op = "sync" /\ op' = "idle"
  /\ SaveSyncs
  /\ safe' = {saves} /\ card' = TRUE
  /\ UNCHANGED <<now, saves, left>>

\* Whichever call fails, Save returns its error; the temporary file is removed.
SaveFails ==
  /\ op \in SaveSteps /\ op' = "idle"
  /\ Fault
  /\ UNCHANGED <<now, after, saves, history>>

-----------------------------------------------------------------------------
(* Remove. *)

\* A directory that does not exist is ErrNotFound, and nothing is done.
BeginRemove ==
  /\ op = "idle" /\ now.dir
  /\ op' = "unlink"
  /\ safe' = safe \union {NoRecord}
  /\ UNCHANGED <<now, after, saves, card, left>>

\* os.RemoveAll unlinks the names in no particular order, then the directory.
UnlinkRecord ==
  /\ op = "unlink" /\ now.meta # NoRecord
  /\ now' = [now EXCEPT !.meta = NoRecord]
  /\ after' = [after EXCEPT !.meta = @ \union {NoRecord}]
  /\ UNCHANGED <<op, saves, history, left>>

UnlinkVideo ==
  /\ op = "unlink" /\ now.video # NoVideo
  /\ now' = [now EXCEPT !.video = NoVideo]
  /\ after' = [after EXCEPT !.video = @ \union {NoVideo}]
  /\ UNCHANGED <<op, saves, history, left>>

RemoveDir ==
  /\ op = "unlink" /\ op' = "syncRoot"
  /\ now.meta = NoRecord /\ now.video = NoVideo
  /\ now' = [now EXCEPT !.dir = FALSE]
  /\ after' = [after EXCEPT !.dir = @ \union {FALSE}]
  /\ UNCHANGED <<saves, history, left>>

\* The parent directory.  NotSynced is its seeded fault too.
RootSynced == after' = Settled(now)

EndRemove ==
  /\ op = "syncRoot" /\ op' = "idle"
  /\ RootSynced
  /\ safe' = {NoRecord} /\ card' = FALSE
  /\ UNCHANGED <<now, saves, left>>

RemoveStops ==
  /\ op \in RemoveSteps /\ op' = "idle"
  /\ Fault
  /\ UNCHANGED <<now, after, saves, history>>

-----------------------------------------------------------------------------

StoreInit ==
  /\ now = Surviving([dir |-> FALSE, meta |-> NoRecord, video |-> NoVideo])
  /\ after = Settled(now)
  /\ op = "idle" /\ saves = 0 /\ safe = {NoRecord} /\ card = FALSE
  /\ left = [faults |-> MaxFaults, stops |-> MaxStops]

Save == BeginSave \/ SaveMakesDir \/ WriteRecord \/ EndSave \/ SaveFails

Removes == UnlinkRecord \/ UnlinkVideo \/ RemoveDir \/ EndRemove \/ RemoveStops

\* A power loss.  A crash of the process alone leaves the directory as it is.
LosePower ==
  /\ \E d \in Survivors : now' = Surviving(d)
  /\ after' = Settled(now')
=============================================================================
