------------------------------- MODULE Links -------------------------------
(***************************************************************************)
(* Share links: the LinkStore of internal/app/links.go, its file           *)
(* links.json, and the handlers of internal/app/http.go that use it        *)
(* together with the job manager, which appears here as the abstract       *)
(* Library it implements.  A handler calls the two one after the other     *)
(* without a common lock (Get then Issue, Retry or Delete then Revoke,     *)
(* Lookup then Get then OpenVideo), so anything may happen in between.     *)
(*                                                                         *)
(* Every LinkStore method holds its mutex throughout and is one action,    *)
(* the write of links.json included: a crash inside it leaves the file as  *)
(* it was before or as it is after.  Tokens are numbered in the order they *)
(* were issued.                                                            *)
(***************************************************************************)
EXTENDS Naturals, FiniteSets

CONSTANTS
  Ids,          \* video IDs
  NoId,         \* the ID of a token not issued yet
  Requests,     \* concurrent HTTP requests
  LinksPerVideo,\* maxLinksPerVideo
  LinkTTL,      \* linkTTL, in ticks
  MaxRuns,      \* bound: runs of videos
  MaxTokens,    \* bound: tokens issued
  MaxTime,      \* bound: ticks of the clock
  MaxStops,     \* bound: exits, crashes and power losses
  MaxLosses,    \* bound: power losses that undo renames
  MaxFaults     \* bound: failing writes and reads of links.json

ASSUME BoundsAssumption ==
  /\ LinksPerVideo \in Nat \ {0} /\ LinkTTL \in Nat /\ MaxRuns \in Nat
  /\ MaxTokens \in Nat /\ MaxTime \in Nat
  /\ MaxStops \in Nat /\ MaxLosses \in Nat /\ MaxFaults \in Nat

ASSUME IdsAssumption == IsFiniteSet(Ids)

VARIABLES
  up, card, stamped, removed,   \* the library
  clock,        \* time.Now
  issued,       \* the last token issued
  link,         \* the entry of every token issued so far
  links,        \* LinkStore.links: the tokens in memory
  file,         \* the tokens in links.json
  older,        \* what links.json was before its renames, none of them synced
  pc,           \* where each request is
  arg,          \* the video, run and token a request has in its hands
  opened,       \* the run whose file a request is sending
  left          \* what remains of the bounds on stops and faults

Runs  == 1..MaxRuns
NoRun == 0

Lib == INSTANCE Library

library == <<up, card, stamped, removed>>
store   == <<issued, link, links, file, older>>
process == <<pc, arg, opened>>
vars    == <<library, clock, store, process, left>>

Tokens == 1..MaxTokens
Entry  == [id : Ids \union {NoId}, run : 0..MaxRuns, at : 0..MaxTime]
Arg    == [id : Ids \union {NoId}, run : 0..MaxRuns, token : 0..MaxTokens]
NoArg  == [id |-> NoId, run |-> 0, token |-> 0]
Labels == {"idle", "issue", "revoke", "get", "open", "sending"}

-----------------------------------------------------------------------------
(* Requests. *)

\* Seeded fault: the handler does not keep what it read.
GotoOnly(q, label, i, r, k) ==
  /\ pc' = [pc EXCEPT ![q] = label]
  /\ UNCHANGED arg
Goto(q, label, i, r, k) ==
  /\ pc' = [pc EXCEPT ![q] = label]
  /\ arg' = [arg EXCEPT ![q] = [id |-> i, run |-> r, token |-> k]]

Answered(q) ==
  /\ pc' = [pc EXCEPT ![q] = "idle"]
  /\ arg' = [arg EXCEPT ![q] = NoArg]
  /\ opened' = [opened EXCEPT ![q] = 0]

-----------------------------------------------------------------------------
(* The store. *)

Live(k)   == clock < link[k].at + LinkTTL
Of(i, S)  == {k \in S : link[k].id = i}
Ready(i)  == card[i] # Lib!NoCard /\ card[i].status = "ready"

Fault == /\ left.faults > 0
         /\ left' = [left EXCEPT !.faults = @ - 1]

\* persistLocked: the file becomes S, or the write fails and it stays.
Persisted(S) == /\ file' = S /\ older' = older \union {file}
                /\ UNCHANGED left
NotPersisted == Fault /\ UNCHANGED <<file, older>>
Persist(S)   == Persisted(S) \/ NotPersisted

\* pruneLocked writes the file only when something expired.
\* Seeded fault: links go a tick early.
PrunedEarly == {k \in links : clock + 1 < link[k].at + LinkTTL}
Pruned == {k \in links : Live(k)}

\* Issue makes room for one more link of the video.
Oldest(S)   == {k \in S : \A j \in S : link[k].at <= link[j].at}
\* Seeded fault: the limit is off by one.
RoomLate(i) == LET mine == Of(i, Pruned) IN
               IF Cardinality(mine) <= LinksPerVideo THEN {Pruned}
               ELSE {Pruned \ {k} : k \in Oldest(mine)}
Room(i) == LET mine == Of(i, Pruned) IN
           IF Cardinality(mine) < LinksPerVideo THEN {Pruned}
           ELSE {Pruned \ {k} : k \in Oldest(mine)}

New == issued + 1

\* Seeded fault: the file is written before the link is added.
IssuedUnsaved(kept) ==
  /\ links' = kept \union {New}
  /\ Persisted(kept)
Issued(kept) ==
  /\ links' = kept \union {New}
  /\ file' = links'
  /\ older' = older \union {file} \union (IF links = Pruned THEN {} ELSE {Pruned})
  /\ UNCHANGED left

\* The write fails, but the prune before it may have succeeded.
NotIssued(kept) ==
  /\ links' = kept
  /\ Fault
  /\ \/ UNCHANGED <<file, older>>
     \/ links # Pruned /\ file' = Pruned /\ older' = older \union {file}

Issue(q) ==
  /\ up /\ pc[q] = "issue"
  /\ issued < MaxTokens
  /\ issued' = New
  /\ link' = [link EXCEPT ![New] = [id |-> arg[q].id, run |-> arg[q].run, at |-> clock]]
  /\ \E kept \in Room(arg[q].id) : Issued(kept) \/ NotIssued(kept)
  /\ Answered(q)
  /\ UNCHANGED <<library, clock>>

\* Revoke, the last step of handleRetryJob and handleDeleteJob.
Revoke(q) ==
  LET gone == Of(arg[q].id, links) IN
  /\ up /\ pc[q] = "revoke"
  /\ links' = links \ gone
  /\ IF gone = {} THEN UNCHANGED <<file, older, left>> ELSE Persist(links')
  /\ Answered(q)
  /\ UNCHANGED <<library, clock, issued, link>>

Prune ==
  /\ up /\ links # Pruned
  /\ links' = Pruned
  /\ Persist(Pruned)
  /\ UNCHANGED <<library, clock, issued, link, process>>

-----------------------------------------------------------------------------
(* The handlers. *)

\* handleShareLink: Get finds the video ready.
Share(q, i) ==
  /\ up /\ pc[q] = "idle"
  /\ Ready(i)
  /\ Goto(q, "issue", i, card[i].run, 0)
  /\ UNCHANGED <<library, clock, store, opened, left>>

\* handleRetryJob: Retry requeues the failed video; Revoke follows.
Retry(q, i) ==
  /\ pc[q] = "idle"
  /\ Lib!Requeue(i)
  /\ Goto(q, "revoke", i, card[i].run, 0)
  /\ UNCHANGED <<clock, store, opened, left>>

\* handleCreateJob requeues a failed video as well, and revokes nothing.
Resubmit(i) ==
  /\ Lib!Requeue(i)
  /\ UNCHANGED <<clock, store, process, left>>

\* handleDeleteJob: the removal is confirmed to the requests that waited for
\* it; those whose wait timed out answer an error and revoke nothing.
Delete(D, i) ==
  /\ \A q \in D : pc[q] = "idle"
  /\ Lib!Remove(i)
  /\ pc' = [q \in Requests |-> IF q \in D THEN "revoke" ELSE pc[q]]
  /\ arg' = [q \in Requests |-> IF q \in D THEN [id |-> i, run |-> card[i].run, token |-> 0]
                                ELSE arg[q]]
  /\ UNCHANGED <<clock, store, opened, left>>

\* handlePublicMedia: Lookup, then Get, then OpenVideo.  Every refusal is the
\* same 404.
Lookup(q, k) ==
  /\ up /\ pc[q] = "idle"
  /\ k \in links /\ Live(k)
  /\ Goto(q, "get", link[k].id, link[k].run, k)
  /\ UNCHANGED <<library, clock, store, opened, left>>

\* Seeded fault: the run is not compared.
ValidAnyRun(q) == Ready(arg[q].id)
Valid(q) == Ready(arg[q].id) /\ card[arg[q].id].run = arg[q].run

Get(q) ==
  /\ up /\ pc[q] = "get"
  /\ IF Valid(q) THEN pc' = [pc EXCEPT ![q] = "open"] /\ UNCHANGED <<arg, opened>>
                  ELSE Answered(q)
  /\ UNCHANGED <<library, clock, store, left>>

\* The file at the video's path may be missing; or it is that of the run the
\* card is of by now, which may have published it before its status says so.
OpenVideo(q) ==
  LET i == arg[q].id IN
  /\ up /\ pc[q] = "open"
  /\ \/ Answered(q)
     \/ /\ card[i] # Lib!NoCard
        /\ pc' = [pc EXCEPT ![q] = "sending"]
        /\ opened' = [opened EXCEPT ![q] = card[i].run]
        /\ UNCHANGED arg
  /\ UNCHANGED <<library, clock, store, left>>

Sent(q) ==
  /\ up /\ pc[q] = "sending"
  /\ Answered(q)
  /\ UNCHANGED <<library, clock, store, left>>

-----------------------------------------------------------------------------
(* The process. *)

\* The manager's other steps.
Manage ==
  /\ \/ \E i \in Ids : Lib!Add(i) \/ Lib!Progress(i) \/ Lib!Downgrade(i)
     \/ Lib!Refuse
     \/ \E S \in SUBSET Ids : Lib!Interrupt(S)
  /\ UNCHANGED <<clock, store, process, left>>

\* links.json is renamed into place but its directory is never synced: a power
\* loss may bring back any file that a rename has replaced.
Stop ==
  /\ left.stops > 0
  /\ Lib!Stop
  /\ \/ /\ left' = [left EXCEPT !.stops = @ - 1]
        /\ UNCHANGED <<file, older>>
     \/ /\ left.losses > 0
        /\ left' = [left EXCEPT !.stops = @ - 1, !.losses = @ - 1]
        /\ file' \in older /\ older' = {}
  /\ links' = {}
  /\ pc' = [q \in Requests |-> "idle"]
  /\ arg' = [q \in Requests |-> NoArg]
  /\ opened' = [q \in Requests |-> 0]
  /\ UNCHANGED <<clock, issued, link>>

\* Recover, then Load; a file that cannot be read is no links.
Start ==
  /\ Lib!Start
  /\ \/ links' = {k \in file : Live(k)} /\ UNCHANGED left
     \/ links' = {} /\ Fault
  /\ UNCHANGED <<clock, issued, link, file, older, process>>

Tick ==
  /\ clock < MaxTime
  /\ clock' = clock + 1
  /\ UNCHANGED <<library, store, process, left>>

Init ==
  /\ Lib!Init
  /\ clock = 0
  /\ issued = 0 /\ links = {} /\ file = {} /\ older = {}
  /\ link = [k \in Tokens |-> [id |-> NoId, run |-> 0, at |-> 0]]
  /\ pc = [q \in Requests |-> "idle"]
  /\ arg = [q \in Requests |-> NoArg]
  /\ opened = [q \in Requests |-> 0]
  /\ left = [stops |-> MaxStops, losses |-> MaxLosses, faults |-> MaxFaults]

Handler(q) ==
  \/ \E i \in Ids : Share(q, i) \/ Retry(q, i)
  \/ Issue(q) \/ Revoke(q)
  \/ \E k \in Tokens : Lookup(q, k)
  \/ Get(q) \/ OpenVideo(q) \/ Sent(q)

Next ==
  \/ \E q \in Requests : Handler(q)
  \/ \E i \in Ids : Resubmit(i) \/ (\E D \in SUBSET Requests : Delete(D, i))
  \/ Manage \/ Prune \/ Stop \/ Start \/ Tick

Spec == Init /\ [][Next]_vars
=============================================================================
