-------------------------- MODULE LinksProperties --------------------------
(***************************************************************************)
(* What the share links promise, whatever the storage and the process do.  *)
(***************************************************************************)
EXTENDS Links

\* Every variable holds a value of its kind; a request at work has a video and
\* a run in its hands, and every token in the store has been issued for both.
TypeOK ==
  /\ Lib!TypeOK
  /\ clock \in 0..MaxTime /\ issued \in 0..MaxTokens
  /\ link \in [Tokens -> Entry]
  /\ \A k \in 1..issued : link[k].id \in Ids /\ link[k].run # 0
  /\ \A S \in {links, file} \union older : S \subseteq 1..issued
  /\ pc \in [Requests -> Labels] /\ arg \in [Requests -> Arg]
  /\ \A q \in Requests : pc[q] # "idle" => arg[q].id \in Ids /\ arg[q].run # 0
  /\ opened \in [Requests -> 0..MaxRuns]
  /\ left \in [stops : 0..MaxStops, losses : 0..MaxLosses, faults : 0..MaxFaults]

\* A link the store honours is in links.json, whichever writes have failed
\* before (Issue takes a link back whose write fails; a failed write after a
\* drop only leaves too much in the file).  The end of the process loses none;
\* a power loss that brings an older file back, or a Load that fails, may.
LinksAreOnDisk == up => links \subseteq file

\* No video ever has more than maxLinksPerVideo links, in memory or in any
\* file a restart may read, failed writes included.
WithinLimit ==
  \A i \in Ids : \A S \in {links, file} \union older : Cardinality(Of(i, S)) <= LinksPerVideo

Revoked(k) == \E q \in Requests : pc[q] = "revoke" /\ pc'[q] = "idle"
                                   /\ arg[q].id = link[k].id
Evicted(k) == /\ Cardinality(Of(link[k].id, Pruned)) >= LinksPerVideo
              /\ \A j \in Of(link[k].id, links \intersect links') : link[k].at <= link[j].at

\* A live link leaves the store of a running process only because its video
\* is retried or deleted, or to make room in a full set of live links of its
\* own video, of which it is the oldest (Issue, pruneLocked, Revoke).
LinksLast == [][up /\ up' => \A k \in links \ links' :
                                Live(k) => Revoked(k) \/ Evicted(k)]_vars

\* A run belongs to one card and never comes back from a removal: what a link
\* relies on when it compares CreatedAt with the card's.
RunsAreFresh == Lib!RunsAreFresh

\* handlePublicMedia accepts the link.
Accepted(q) == pc[q] = "get" /\ pc'[q] = "open"

\* A link of a run whose removal was confirmed never opens anything again: not
\* the next download of the video, nor after a revocation that came too early
\* for a link issued meanwhile, was not saved, or was undone by a restart
\* ("links from the old run never validate again").
RemovedRunsStayClosed == [][\A q \in Requests : Accepted(q) => arg[q].run \notin removed]_vars

\* What links.go says of Lookup: "a link only opens the exact run it was
\* issued for" - also between the check and the opening of the file.
OpensOwnRun == \A q \in Requests : pc[q] = "sending" => opened[q] = arg[q].run
=============================================================================
