------------------------------ MODULE Library ------------------------------
(***************************************************************************)
(* What the job manager promises the rest of the server, without saying    *)
(* how: each video has at most one card; a card belongs to one run (one    *)
(* CreatedAt stamp) until it is removed; its status moves as a user would  *)
(* expect; and a run whose removal was confirmed is never seen again,      *)
(* whatever fails or restarts.  Manager implements this module (the runs   *)
(* of LibraryOfManager), and Links is built on it.                         *)
(***************************************************************************)
CONSTANTS
  Ids,       \* video IDs
  Runs,      \* CreatedAt stamps
  NoRun      \* what a missing card has for a run

VARIABLES
  up,        \* the process serves requests
  card,      \* what Get answers; while down, what a restart would find
  stamped,   \* the runs created so far
  removed    \* the runs whose removal was confirmed

vars == <<up, card, stamped, removed>>

CardStatuses == {"unfinished", "ready", "failed"}
NoCard == [run |-> NoRun, status |-> "none"]
Cards  == [run : Runs, status : CardStatuses] \union {NoCard}

Has(i) == card[i] # NoCard

\* Every variable holds a value of its kind.
TypeOK == /\ up \in BOOLEAN
          /\ card \in [Ids -> Cards]
          /\ stamped \in SUBSET Runs /\ removed \in SUBSET Runs

\* A run belongs to one card, was created, and is not back from a removal:
\* what share links rely on when they compare CreatedAt (Manager.Submit,
\* finalizeDeletion, Recover).
RunsAreFresh ==
  /\ removed \subseteq stamped
  /\ \A i \in Ids : Has(i) =>
       /\ card[i].run \in stamped \ removed
       /\ \A j \in Ids : Has(j) /\ card[j].run = card[i].run => j = i

Init == /\ up = FALSE
        /\ card = [i \in Ids |-> NoCard]
        /\ stamped = {} /\ removed = {}

Becomes(i, status) == card' = [card EXCEPT ![i].status = status]

\* Submit of a new video; and a submission refused because its first save
\* failed, which leaves a stamp behind.
Add(i) ==
  /\ up /\ ~Has(i)
  /\ \E r \in Runs \ stamped :
       /\ card' = [card EXCEPT ![i] = [run |-> r, status |-> "unfinished"]]
       /\ stamped' = stamped \union {r}
  /\ UNCHANGED <<up, removed>>

Refuse ==
  /\ up
  /\ \E r \in Runs \ stamped : stamped' = stamped \union {r}
  /\ UNCHANGED <<up, card, removed>>

\* Retry, or Submit of a failed video: the same run is downloaded again.
Requeue(i) ==
  /\ up /\ Has(i) /\ card[i].status = "failed"
  /\ Becomes(i, "unfinished")
  /\ UNCHANGED <<up, stamped, removed>>

\* A job ends, well or badly, or a failed one turns out to be running still.
Progress(i) ==
  /\ up /\ Has(i)
  /\ \/ card[i].status = "unfinished" /\ Becomes(i, "failed")
     \/ card[i].status # "ready" /\ \E s \in {"unfinished", "ready"} : Becomes(i, s)
  /\ UNCHANGED <<up, stamped, removed>>

\* Close gives up the jobs that were running.
Interrupt(S) ==
  /\ up /\ \A i \in S : Has(i) /\ card[i].status = "unfinished"
  /\ card' = [i \in Ids |-> IF i \in S THEN [card[i] EXCEPT !.status = "failed"]
                            ELSE card[i]]
  /\ UNCHANGED <<up, stamped, removed>>

\* The file of a ready video is missing: List finds out, or the restart does.
Downgrade(i) ==
  /\ Has(i) /\ card[i].status = "ready"
  /\ Becomes(i, "failed")
  /\ UNCHANGED <<up, stamped, removed>>

Remove(i) ==
  /\ up /\ Has(i)
  /\ removed' = removed \union {card[i].run}
  /\ card' = [card EXCEPT ![i] = NoCard]
  /\ UNCHANGED <<up, stamped>>

\* The process ends.  The disk may know an older status of a run, have lost
\* the card to a removal half done, or hold a submission that was refused.
\* Seeded fault: a removed run may still be there.
LeftAny(i, c) ==
  \/ c = NoCard
  \/ Has(i) /\ c.run = card[i].run
  \/ ~Has(i) /\ c.run \in stamped
Left(i, c) ==
  \/ c = NoCard
  \/ Has(i) /\ c.run = card[i].run
  \/ ~Has(i) /\ c.run \in stamped \ removed

Stop ==
  /\ up /\ up' = FALSE
  /\ \E after \in [Ids -> Cards] :
       /\ \A i \in Ids : Left(i, after[i])
       /\ \A i, j \in Ids : after[i].run = after[j].run => i = j \/ NoCard \in {after[i], after[j]}
       /\ card' = after
  /\ UNCHANGED <<stamped, removed>>

\* Recover.  A directory without metadata becomes a failed card of a new run,
\* and a ready card whose file cannot be looked at a failed one.
Start ==
  /\ ~up /\ up' = TRUE
  /\ \E bare \in SUBSET {i \in Ids : ~Has(i)}, unread \in SUBSET {i \in Ids : card[i].status = "ready"} :
     \E stamp \in [bare -> Runs] :
       /\ \A i \in bare : stamp[i] \notin stamped
       /\ \A i, j \in bare : stamp[i] = stamp[j] => i = j
       /\ card' = [i \in Ids |->
                     IF i \in bare THEN [run |-> stamp[i], status |-> "failed"]
                     ELSE IF i \in unread THEN [card[i] EXCEPT !.status = "failed"]
                     ELSE card[i]]
       /\ stamped' = stamped \union {stamp[i] : i \in bare}
  /\ UNCHANGED removed

Next ==
  \/ \E i \in Ids : Add(i) \/ Requeue(i) \/ Progress(i) \/ Downgrade(i) \/ Remove(i)
  \/ \E S \in SUBSET Ids : Interrupt(S)
  \/ Refuse \/ Stop \/ Start

Spec == Init /\ [][Next]_vars
=============================================================================
