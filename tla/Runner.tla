------------------------------- MODULE Runner -------------------------------
(***************************************************************************)
(* ProcessRunner.Run of internal/app/runner.go: one media command, its     *)
(* process group, the two goroutines that read its output, and the one of  *)
(* os/exec that calls cmd.Cancel when the context is done.                 *)
(*                                                                         *)
(* A tool may start a child in its group (yt-dlp starts ffmpeg), which     *)
(* holds the pipes it was not redirected from.  The tool itself holds both *)
(* until it ends, and it may hang.  The group is killed only when the      *)
(* context is done: a child with no pipe may be alive when Run returns     *)
(* after a normal end.  Such a child is not followed once the caller goes  *)
(* on, a child that leaves the group not at all, nor the tail of the       *)
(* output, which is only logged.                                           *)
(***************************************************************************)
EXTENDS Naturals, Sequences

VARIABLES
  ctx,      \* the parent context is done
  run,      \* the command is between Start and the end of Wait
  leader,   \* the process that was started
  children, \* the other processes of its group, by the streams they hold
  pipe,     \* the streams with a line nobody has read
  reader,   \* the goroutine that reads each stream
  heard,    \* the lines given to onLine, by the stream they came from
  outcome   \* what Run returned, until its caller looks

runnerVars == <<ctx, run, leader, children, pipe, reader, heard, outcome>>

Streams  == {"stdout", "stderr"}
Readers  == {"off", "reading", "ended", "gaveUp"}
Outcomes == {"ok", "failed", "canceled"}

RunnerTypes ==
  /\ ctx \in BOOLEAN /\ run \in BOOLEAN
  /\ leader \in {"none", "running", "exited", "failed", "killed"}
  /\ children \subseteq SUBSET Streams
  /\ pipe \subseteq Streams /\ reader \in [Streams -> Readers]
  /\ Len(heard) <= 2 /\ \A n \in 1..Len(heard) : heard[n] \in Streams
  /\ outcome \in Outcomes \union {"none"}

AllReaders(state) == [s \in Streams |-> state]

RunnerIdle ==
  /\ ctx = FALSE /\ run = FALSE /\ leader = "none" /\ children = {}
  /\ pipe = {} /\ reader = AllReaders("off") /\ heard = <<>> /\ outcome = "none"

NextRunnerIdle ==
  /\ run' = FALSE /\ leader' = "none" /\ children' = {}
  /\ pipe' = {} /\ reader' = AllReaders("off") /\ heard' = <<>> /\ outcome' = "none"

-----------------------------------------------------------------------------
(* Run. *)

\* exec.CommandContext refuses to start under a context that is done.
Start ==
  /\ ~run /\ outcome = "none"
  /\ IF ctx
     THEN outcome' = "canceled" /\ UNCHANGED <<run, leader, reader>>
     ELSE /\ run' = TRUE /\ leader' = "running" /\ reader' = AllReaders("reading")
          /\ UNCHANGED outcome
  /\ heard' = <<>>
  /\ UNCHANGED <<ctx, children, pipe>>

\* The program is missing, or no process can be made.
StartFails ==
  /\ ~run /\ outcome = "none"
  /\ outcome' = "failed"
  /\ UNCHANGED <<ctx, run, leader, children, pipe, reader, heard>>

\* pump, emit
Hears(s) ==
  /\ reader[s] = "reading" /\ s \in pipe
  /\ pipe' = pipe \ {s}
  /\ heard' = Append(heard, s)
  /\ UNCHANGED <<ctx, run, leader, children, reader, outcome>>

\* Nobody holds the writing end.
Closed(s) == leader # "running" /\ \A child \in children : s \notin child

\* Scan returns false at the end of the pipe, at once for the readers that are
\* left: the order in which they end tells nothing apart.
ReadersEnd ==
  /\ \E s \in Streams : reader[s] = "reading"
  /\ \A s \in Streams : reader[s] = "reading" => s \notin pipe /\ Closed(s)
  /\ reader' = [s \in Streams |-> IF reader[s] = "reading" THEN "ended" ELSE reader[s]]
  /\ UNCHANGED <<ctx, run, leader, children, pipe, heard, outcome>>

\* Scan also returns false on a line longer than it takes, or when it cannot
\* read; the line stays where it is.
GivesUp(s) ==
  /\ reader[s] = "reading" /\ s \in pipe
  /\ reader' = [reader EXCEPT ![s] = "gaveUp"]
  /\ UNCHANGED <<ctx, run, leader, children, pipe, heard, outcome>>

\* readers.Wait, then cmd.Wait.
\* Seeded fault: the command is waited for before its output has ended.
MayWaitAtOnce == run /\ leader # "running"
MayWait == run /\ leader # "running" /\ \A s \in Streams : reader[s] # "reading"

\* What Run returns.  Seeded fault: the error of the process comes first.
ProcessErrorFirst == IF leader # "exited" THEN "failed" ELSE IF ctx THEN "canceled" ELSE "ok"
Returned == IF ctx THEN "canceled" ELSE IF leader # "exited" THEN "failed" ELSE "ok"

\* cmd.Wait reaps the process and closes the pipes.
Wait ==
  /\ MayWait
  /\ outcome' = Returned
  /\ run' = FALSE /\ pipe' = {}
  /\ UNCHANGED <<ctx, leader, children, reader, heard>>

-----------------------------------------------------------------------------
(* os/exec and the operating system (external). *)

\* Seeded fault: only the process itself is killed.
KilledLeader == children' = children
KilledGroup  == children' = {}

\* cmd.Cancel: SIGKILL to the group.
Kill ==
  /\ run /\ ctx
  /\ leader = "running" \/ children # {}
  /\ leader' = IF leader = "running" THEN "killed" ELSE leader
  /\ KilledGroup
  /\ UNCHANGED <<ctx, run, pipe, reader, heard, outcome>>

\* One line on each stream.
Prints(s) ==
  /\ run /\ ~Closed(s)
  /\ s \notin pipe /\ \A n \in 1..Len(heard) : heard[n] # s
  /\ pipe' = pipe \union {s}
  /\ UNCHANGED <<ctx, run, leader, children, reader, heard, outcome>>

\* One child at a time, redirected from both pipes or from neither.
Forks ==
  /\ run /\ leader = "running" /\ children = {}
  /\ \E child \in {{}, Streams} : children' = {child}
  /\ UNCHANGED <<ctx, run, leader, pipe, reader, heard, outcome>>

ChildEnds ==
  /\ \E child \in children : children' = children \ {child}
  /\ UNCHANGED <<ctx, run, leader, pipe, reader, heard, outcome>>

Exits(how) ==
  /\ run /\ leader = "running"
  /\ leader' = how
  /\ UNCHANGED <<ctx, run, children, pipe, reader, heard, outcome>>
=============================================================================
