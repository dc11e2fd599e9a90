-------------------------- MODULE LibraryOfManager --------------------------
(***************************************************************************)
(* Manager implements Library.  A card is what Get answers (viewLocked of  *)
(* the registered job, deletion marks not considered); once the process no *)
(* longer serves, it is what Recover would make of the directory on disk,  *)
(* so that a save or a removal that a crash interrupts is seen as it will  *)
(* be found.  A run counts as removed when its removal is answered.        *)
(***************************************************************************)
EXTENDS Manager

CardStatus(status) == IF status \in Unfinished THEN "unfinished" ELSE status

CardOf(r, status) == [run |-> r, status |-> CardStatus(status)]
NoCard == [run |-> NoRun, status |-> "none"]

Stored(d) == IF d.meta = NoMeta THEN NoCard ELSE CardOf(d.meta.run, RecoveredStatus(d))

card == [i \in Ids |-> IF phase # "serving" THEN Stored(disk[i])
                       ELSE IF jobs[i] = NoRun THEN NoCard
                       ELSE CardOf(jobs[i], job[jobs[i]].status)]

Library == INSTANCE Library WITH up <- phase = "serving", stamped <- 1..created

\* Every step of the manager is a step of the library or changes nothing the
\* library shows: no card appears, changes its run or status, or comes back
\* from a removal in a way Library does not allow, through failures, Close,
\* crashes and Recover included.  It is Library!Spec, with the steps that change
\* nothing recognised first.
ImplementsLibrary ==
  Library!Init /\ [][UNCHANGED Library!vars \/ Library!Next]_(Library!vars)
=============================================================================
