---------------------------- MODULE LinksProofs ----------------------------
(***************************************************************************)
(* The promises of the share links, for any number of videos, requests,    *)
(* tokens and ticks, and for any limit and lifetime.                       *)
(*                                                                         *)
(* LinksAreOnDisk is inductive by itself.  The others rest on TypeOK and   *)
(* on RunsAreFresh, which Links inherits from the library: every step of   *)
(* Links is a step of the library or leaves it alone.                      *)
(***************************************************************************)
EXTENDS LinksProperties, FiniteSetTheorems, TLAPS

-----------------------------------------------------------------------------
(* What the library promises, whoever uses it. *)

LibraryInv == Lib!TypeOK /\ Lib!RunsAreFresh

LEMMA InitLibraryInv == Lib!Init => LibraryInv
  BY DEF Lib!Cards, Lib!Init, LibraryInv, Lib!TypeOK, Lib!RunsAreFresh, Lib!Has

\* A change of status alone keeps cards apart.
LEMMA StatusKeepsRuns ==
  ASSUME LibraryInv, NEW i \in Ids, Lib!Has(i), NEW s \in Lib!CardStatuses, Lib!Becomes(i, s),
         up' \in BOOLEAN, UNCHANGED <<stamped, removed>>
  PROVE  LibraryInv'
<1>1. card' \in [Ids -> Lib!Cards]
  BY DEF LibraryInv, Lib!TypeOK, Lib!Becomes, Lib!Cards, Lib!Has
<1>2. \A j \in Ids : card'[j].run = card[j].run
  BY DEF LibraryInv, Lib!TypeOK, Lib!Becomes, Lib!Cards
<1>3. \A j \in Ids : Lib!Has(j)' => Lib!Has(j)
  BY DEF LibraryInv, Lib!TypeOK, Lib!Becomes, Lib!Has
<1> QED
  BY <1>1, <1>2, <1>3 DEF LibraryInv, Lib!TypeOK, Lib!RunsAreFresh

LEMMA StepLibraryInv == LibraryInv /\ [Lib!Next]_(Lib!vars) => LibraryInv'
<1> SUFFICES ASSUME LibraryInv, [Lib!Next]_(Lib!vars) PROVE LibraryInv'
  OBVIOUS
<1> USE DEF Lib!CardStatuses
<1>1. ASSUME NEW i \in Ids, Lib!Add(i) PROVE LibraryInv'
  <2>1. PICK r \in Runs \ stamped :
          /\ card' = [card EXCEPT ![i] = [run |-> r, status |-> "unfinished"]]
          /\ stamped' = stamped \union {r}
    BY <1>1 DEF Lib!Add
  <2>2. [run |-> r, status |-> "unfinished"] \in Lib!Cards
    BY DEF Lib!Cards
  <2>3. Lib!TypeOK'
    BY <1>1, <2>1, <2>2 DEF LibraryInv, Lib!TypeOK, Lib!Add
  <2>4. r \notin removed /\ \A j \in Ids : Lib!Has(j) => card[j].run # r
    BY <2>1 DEF LibraryInv, Lib!RunsAreFresh
  <2>5. r \notin stamped
    BY <2>1
  <2>6. \A j \in Ids \ {i} : card'[j] = card[j]
    BY <2>1 DEF LibraryInv, Lib!TypeOK
  <2>7. card'[i].run = r
    BY <2>1 DEF LibraryInv, Lib!TypeOK
  <2>8. \A j \in Ids \ {i} : Lib!Has(j)' => Lib!Has(j) /\ card'[j].run = card[j].run
    BY <2>6 DEF Lib!Has
  <2>9. removed' = removed /\ removed \subseteq stamped
    BY <1>1 DEF Lib!Add, LibraryInv, Lib!RunsAreFresh
  <2>10. \A j \in Ids \ {i} : Lib!Has(j)' => card'[j].run # r /\ card'[j].run \in stamped \ removed
    BY <2>4, <2>8 DEF LibraryInv, Lib!RunsAreFresh
  <2>11. ASSUME NEW j \in Ids, Lib!Has(j)' PROVE card'[j].run \in stamped' \ removed'
    BY <2>1, <2>4, <2>7, <2>9, <2>10, <2>11
  <2>12. ASSUME NEW j \in Ids, Lib!Has(j)', NEW k \in Ids, Lib!Has(k)', card'[k].run = card'[j].run
         PROVE  k = j
    <3>1. CASE j = i \/ k = i
      BY <2>7, <2>10, <2>12, <3>1
    <3>2. CASE j # i /\ k # i
      BY <2>8, <2>12, <3>2 DEF LibraryInv, Lib!RunsAreFresh
    <3> QED
      BY <3>1, <3>2
  <2>13. removed' \subseteq stamped'
    BY <2>1, <2>9
  <2> QED
    BY <2>3, <2>11, <2>12, <2>13 DEF LibraryInv, Lib!RunsAreFresh
<1>2. ASSUME NEW i \in Ids, Lib!Requeue(i) PROVE LibraryInv'
  BY <1>2, StatusKeepsRuns DEF Lib!Requeue, LibraryInv, Lib!TypeOK
<1>3. ASSUME NEW i \in Ids, Lib!Progress(i) PROVE LibraryInv'
  <2>1. \E s \in Lib!CardStatuses : Lib!Becomes(i, s)
    BY <1>3 DEF Lib!Progress
  <2> QED
    BY <1>3, <2>1, StatusKeepsRuns DEF Lib!Progress, LibraryInv, Lib!TypeOK
<1>4. ASSUME NEW i \in Ids, Lib!Downgrade(i) PROVE LibraryInv'
  BY <1>4, StatusKeepsRuns DEF Lib!Downgrade, LibraryInv, Lib!TypeOK
<1>5. ASSUME NEW i \in Ids, Lib!Remove(i) PROVE LibraryInv'
  <2>1. Lib!TypeOK'
    BY <1>5 DEF Lib!Cards, Lib!Remove, LibraryInv, Lib!TypeOK, Lib!RunsAreFresh
  <2>2. \A j \in Ids \ {i} : card'[j] = card[j]
    BY <1>5 DEF Lib!Remove, LibraryInv, Lib!TypeOK
  <2>3. card'[i] = Lib!NoCard
    BY <1>5 DEF Lib!Remove, LibraryInv, Lib!TypeOK
  <2>5. \A j \in Ids : Lib!Has(j)' => j # i
    BY <2>3 DEF Lib!Has
  <2>6. \A j \in Ids : Lib!Has(j)' => Lib!Has(j)
    BY <2>2, <2>5 DEF Lib!Has
  <2>7. \A j \in Ids : Lib!Has(j)' => j # i /\ Lib!Has(j) /\ card[j].run # card[i].run
    BY <1>5, <2>5, <2>6 DEF Lib!Remove, LibraryInv, Lib!RunsAreFresh
  <2>8. Lib!RunsAreFresh'
    BY <1>5, <2>2, <2>3, <2>7 DEF Lib!Remove, LibraryInv, Lib!RunsAreFresh
  <2> QED
    BY <2>1, <2>8 DEF LibraryInv
<1>6. ASSUME NEW S \in SUBSET Ids, Lib!Interrupt(S) PROVE LibraryInv'
  <2>1. card' \in [Ids -> Lib!Cards]
    BY <1>6 DEF Lib!Interrupt, LibraryInv, Lib!TypeOK, Lib!Cards, Lib!Has
  <2>2. \A j \in Ids : card'[j].run = card[j].run
    BY <1>6 DEF Lib!Interrupt, LibraryInv, Lib!TypeOK, Lib!Cards
  <2>3. \A j \in Ids : Lib!Has(j)' => Lib!Has(j)
    BY <1>6 DEF Lib!Interrupt, Lib!Has
  <2> QED
    BY <1>6, <2>1, <2>2, <2>3 DEF Lib!Interrupt, LibraryInv, Lib!TypeOK, Lib!RunsAreFresh
<1>7. ASSUME Lib!Refuse PROVE LibraryInv'
  BY <1>7 DEF Lib!Refuse, LibraryInv, Lib!TypeOK, Lib!RunsAreFresh, Lib!Has
<1>8. ASSUME Lib!Stop PROVE LibraryInv'
  <2>1. /\ card' \in [Ids -> Lib!Cards]
        /\ \A i \in Ids : Lib!Left(i, card'[i])
        /\ \A i, j \in Ids : card'[i].run = card'[j].run =>
             i = j \/ Lib!NoCard \in {card'[i], card'[j]}
    BY <1>8 DEF Lib!Stop
  <2>2. \A i \in Ids : Lib!Has(i)' => card'[i].run \in stamped \ removed
    BY <2>1 DEF Lib!Left, Lib!Has, LibraryInv, Lib!RunsAreFresh
  <2>3. Lib!RunsAreFresh'
    BY <1>8, <2>1, <2>2 DEF Lib!Stop, Lib!Has, LibraryInv, Lib!RunsAreFresh
  <2> QED
    BY <1>8, <2>1, <2>3 DEF Lib!Stop, LibraryInv, Lib!TypeOK
<1>9. ASSUME Lib!Start PROVE LibraryInv'
  <2> PICK bare \in SUBSET {i \in Ids : ~Lib!Has(i)},
          unread \in SUBSET {i \in Ids : card[i].status = "ready"} :
         \E stamp \in [bare -> Runs] :
           /\ \A i \in bare : stamp[i] \notin stamped
           /\ \A i, j \in bare : stamp[i] = stamp[j] => i = j
           /\ card' = [i \in Ids |->
                         IF i \in bare THEN [run |-> stamp[i], status |-> "failed"]
                         ELSE IF i \in unread THEN [card[i] EXCEPT !.status = "failed"]
                         ELSE card[i]]
           /\ stamped' = stamped \union {stamp[i] : i \in bare}
    BY <1>9 DEF Lib!Start
  <2>1. PICK stamp \in [bare -> Runs] :
           /\ \A i \in bare : stamp[i] \notin stamped
           /\ \A i, j \in bare : stamp[i] = stamp[j] => i = j
           /\ card' = [i \in Ids |->
                         IF i \in bare THEN [run |-> stamp[i], status |-> "failed"]
                         ELSE IF i \in unread THEN [card[i] EXCEPT !.status = "failed"]
                         ELSE card[i]]
           /\ stamped' = stamped \union {stamp[i] : i \in bare}
    OBVIOUS
  <2>2. \A i \in bare : [run |-> stamp[i], status |-> "failed"] \in Lib!Cards
    BY DEF Lib!Cards
  <2>3. ASSUME NEW i \in unread
         PROVE  /\ [card[i] EXCEPT !.status = "failed"] \in Lib!Cards /\ Lib!Has(i)
                /\ [card[i] EXCEPT !.status = "failed"].run = card[i].run
    <3>1. i \in Ids /\ card[i] \in Lib!Cards /\ card[i].status = "ready"
      BY DEF LibraryInv, Lib!TypeOK
    <3>2. card[i] # Lib!NoCard
      BY <3>1 DEF Lib!NoCard
    <3>3. card[i] \in [run : Runs, status : Lib!CardStatuses]
      BY <3>1, <3>2 DEF Lib!Cards
    <3> QED
      BY <3>2, <3>3 DEF Lib!Cards, Lib!CardStatuses, Lib!Has
  <2>4. \A i \in Ids : card'[i] \in Lib!Cards
    BY <2>1, <2>2, <2>3 DEF LibraryInv, Lib!TypeOK
  <2>5. card' \in [Ids -> Lib!Cards] /\ stamped' \in SUBSET Runs
    BY <2>1, <2>4 DEF LibraryInv, Lib!TypeOK
  <2>6. Lib!TypeOK'
    BY <1>9, <2>5 DEF Lib!Start, LibraryInv, Lib!TypeOK
  <2>7. \A i \in bare : card'[i].run = stamp[i] /\ stamp[i] \in stamped'
    BY <2>1
  <2>8. \A i \in Ids \ bare : card'[i].run = card[i].run
    BY <2>1, <2>3
  <2>9. \A i \in Ids \ bare : Lib!Has(i) => card[i].run \in stamped
    BY DEF LibraryInv, Lib!RunsAreFresh
  <2>10. \A i \in Ids \ bare : Lib!Has(i)' => Lib!Has(i)
    BY <2>1, <2>3 DEF Lib!Has
  <2>11. ASSUME NEW i \in Ids, Lib!Has(i)', NEW j \in Ids, Lib!Has(j)', card'[j].run = card'[i].run
        PROVE  j = i
    <3>1. CASE i \in bare /\ j \in bare
      BY <2>1, <2>7, <2>11, <3>1
    <3>2. CASE i \in bare /\ j \notin bare
      BY <2>1, <2>7, <2>8, <2>9, <2>10, <2>11, <3>2
    <3>3. CASE i \notin bare /\ j \in bare
      BY <2>1, <2>7, <2>8, <2>9, <2>10, <2>11, <3>3
    <3>4. CASE i \notin bare /\ j \notin bare
      BY <2>8, <2>10, <2>11, <3>4 DEF LibraryInv, Lib!RunsAreFresh
    <3> QED
      BY <3>1, <3>2, <3>3, <3>4
  <2>12. ASSUME NEW i \in Ids, Lib!Has(i)' PROVE card'[i].run \in stamped' \ removed'
    <3>1. CASE i \in bare
      BY <1>9, <2>1, <2>7, <3>1 DEF Lib!Start, LibraryInv, Lib!RunsAreFresh
    <3>2. CASE i \notin bare
      BY <1>9, <2>1, <2>8, <2>10, <2>12, <3>2 DEF Lib!Start, LibraryInv, Lib!RunsAreFresh
    <3> QED
      BY <3>1, <3>2
  <2>13. removed' \subseteq stamped'
    BY <1>9, <2>1 DEF Lib!Start, LibraryInv, Lib!RunsAreFresh
  <2> QED
    BY <2>6, <2>11, <2>12, <2>13 DEF LibraryInv, Lib!RunsAreFresh
<1>10. ASSUME UNCHANGED Lib!vars PROVE LibraryInv'
  BY <1>10 DEF Lib!vars, LibraryInv, Lib!TypeOK, Lib!RunsAreFresh, Lib!Has
<1> QED
  BY <1>1, <1>2, <1>3, <1>4, <1>5, <1>6, <1>7, <1>8, <1>9, <1>10 DEF Lib!Next

\* A run belongs to one card, was created, and is not back from a removal,
\* through every step, failure and restart the library allows.
THEOREM RunsStayFresh == Lib!Spec => [](Lib!TypeOK /\ Lib!RunsAreFresh)
<1>1. Lib!Spec => []LibraryInv
  BY InitLibraryInv, StepLibraryInv, PTL DEF Lib!Spec
<1> QED
  BY <1>1, PTL DEF LibraryInv

-----------------------------------------------------------------------------
(* The library inside. *)

LEMMA LibraryInit == Init => Lib!Init
  BY DEF Init

LEMMA LibraryStep == [Next]_vars => [Lib!Next]_(Lib!vars)
<1> SUFFICES ASSUME [Next]_vars PROVE Lib!Next \/ UNCHANGED Lib!vars
  OBVIOUS
<1> USE DEF library, Lib!vars
<1>1. ASSUME NEW q \in Requests, Handler(q) PROVE Lib!Next \/ UNCHANGED Lib!vars
  <2>1. ASSUME NEW i \in Ids, Share(q, i) \/ Retry(q, i) PROVE Lib!Next \/ UNCHANGED Lib!vars
    BY <2>1 DEF Share, Retry, Lib!Next
  <2>2. CASE Issue(q) \/ Revoke(q)
    BY <2>2 DEF Issue, Revoke
  <2>3. ASSUME NEW k \in Tokens, Lookup(q, k) PROVE UNCHANGED Lib!vars
    BY <2>3 DEF Lookup
  <2>4. CASE Get(q) \/ OpenVideo(q) \/ Sent(q)
    BY <2>4 DEF Get, OpenVideo, Sent
  <2> QED
    BY <1>1, <2>1, <2>2, <2>3, <2>4 DEF Handler
<1>2. ASSUME NEW i \in Ids, Resubmit(i) \/ (\E D \in SUBSET Requests : Delete(D, i))
      PROVE  Lib!Next
  BY <1>2 DEF Resubmit, Delete, Lib!Next
<1>3. ASSUME Manage PROVE Lib!Next
  BY <1>3 DEF Manage, Lib!Next
<1>4. CASE Prune \/ Tick
  BY <1>4 DEF Prune, Tick
<1>5. ASSUME Stop \/ Start PROVE Lib!Next
  BY <1>5 DEF Stop, Start, Lib!Next
<1>6. CASE UNCHANGED vars
  BY <1>6 DEF vars
<1> QED
  BY <1>1, <1>2, <1>3, <1>4, <1>5, <1>6 DEF Next

\* The links and their handlers use the library as it allows: whatever holds
\* of every library holds of the one in Links.
THEOREM LinksUseTheLibrary == Spec => Lib!Spec
  BY LibraryInit, LibraryStep, PTL DEF Spec, Lib!Spec

LEMMA LibraryFacts ==
  /\ Init => Lib!TypeOK /\ Lib!RunsAreFresh
  /\ Lib!TypeOK /\ Lib!RunsAreFresh /\ [Next]_vars => (Lib!TypeOK /\ Lib!RunsAreFresh)'
<1>1. LibraryInv <=> Lib!TypeOK /\ Lib!RunsAreFresh
  BY DEF LibraryInv
<1>2. LibraryInv' <=> (Lib!TypeOK /\ Lib!RunsAreFresh)'
  BY DEF LibraryInv
<1> QED
  BY <1>1, <1>2, InitLibraryInv, StepLibraryInv, LibraryInit, LibraryStep
-----------------------------------------------------------------------------
(* The operations, flat. *)

LEMMA StepCases ==
  ASSUME [Next]_vars
  PROVE  \/ \E q \in Requests, i \in Ids : Share(q, i) \/ Retry(q, i)
         \/ \E q \in Requests : Issue(q) \/ Revoke(q) \/ Get(q) \/ OpenVideo(q) \/ Sent(q)
         \/ \E q \in Requests, k \in Tokens : Lookup(q, k)
         \/ \E i \in Ids : Resubmit(i)
         \/ \E i \in Ids, D \in SUBSET Requests : Delete(D, i)
         \/ Manage \/ Prune \/ Stop \/ Start \/ Tick \/ UNCHANGED vars
  BY DEF Next, Handler

LEMMA RoomKeeps ==
  ASSUME NEW i, NEW kept \in Room(i) PROVE kept \subseteq Pruned
  BY DEF Room

LEMMA PrunedKeeps == Pruned \subseteq links
  BY DEF Pruned

-----------------------------------------------------------------------------
(* LinksAreOnDisk. *)

LEMMA OnDiskStep == ASSUME LinksAreOnDisk, [Next]_vars PROVE LinksAreOnDisk'
<1> USE DEF LinksAreOnDisk
<1>1. ASSUME NEW q \in Requests, Issue(q) PROVE LinksAreOnDisk'
  <2>1. PICK kept \in Room(arg[q].id) : Issued(kept) \/ NotIssued(kept)
    BY <1>1 DEF Issue
  <2>2. up /\ links \subseteq file
    BY <1>1 DEF Issue
  <2>3. CASE Issued(kept)
    BY <2>3 DEF Issued
  <2>4. CASE NotIssued(kept)
    BY <2>1, <2>2, <2>4, RoomKeeps, PrunedKeeps DEF NotIssued
  <2> QED
    BY <2>1, <2>3, <2>4
<1>2. ASSUME NEW q \in Requests, Revoke(q) PROVE LinksAreOnDisk'
  BY <1>2 DEF Revoke, Persist, Persisted, NotPersisted
<1>3. CASE Prune
  BY <1>3, PrunedKeeps DEF Prune, Persist, Persisted, NotPersisted
<1>4. CASE Stop
  BY <1>4 DEF Stop, Lib!Stop
<1>5. CASE Start
  BY <1>5 DEF Start
<1>6. ASSUME NEW q \in Requests, NEW i \in Ids, Share(q, i) \/ Retry(q, i)
      PROVE  LinksAreOnDisk'
  BY <1>6 DEF Share, Retry, Lib!Requeue, store, library
<1>7. ASSUME NEW q \in Requests, Get(q) \/ OpenVideo(q) \/ Sent(q)
      PROVE  LinksAreOnDisk'
  BY <1>7 DEF Get, OpenVideo, Sent, store, library
<1>8. ASSUME NEW q \in Requests, NEW k \in Tokens, Lookup(q, k) PROVE LinksAreOnDisk'
  BY <1>8 DEF Lookup, store, library
<1>9. ASSUME NEW i \in Ids, Resubmit(i) PROVE LinksAreOnDisk'
  BY <1>9 DEF Resubmit, Lib!Requeue, store
<1>10. ASSUME NEW i \in Ids, NEW D \in SUBSET Requests, Delete(D, i) PROVE LinksAreOnDisk'
  BY <1>10 DEF Delete, Lib!Remove, store
<1>11. CASE Manage
  BY <1>11 DEF Manage, Lib!Add, Lib!Progress, Lib!Downgrade, Lib!Refuse, Lib!Interrupt, store
<1>12. CASE Tick \/ UNCHANGED vars
  BY <1>12 DEF Tick, vars, store, library
<1> QED
  BY <1>1, <1>2, <1>3, <1>4, <1>5, <1>6, <1>7, <1>8, <1>9, <1>10, <1>11, <1>12, StepCases

\* No link handed out is lost when the process ends, whichever writes of
\* links.json have failed before; a power loss is another matter.
THEOREM LinksSurvive == Spec => []LinksAreOnDisk
<1>1. Init => LinksAreOnDisk
  BY DEF Init, LinksAreOnDisk
<1> QED
  BY <1>1, OnDiskStep, PTL DEF Spec

-----------------------------------------------------------------------------
(* TypeOK. *)

IInv == TypeOK /\ Lib!RunsAreFresh

StoreOK == /\ issued \in 0..MaxTokens
           /\ link \in [Tokens -> Entry]
           /\ \A k \in 1..issued : link[k].id \in Ids /\ link[k].run # 0
           /\ \A S \in {links, file} \union older : S \subseteq 1..issued
ProcessOK == /\ pc \in [Requests -> Labels] /\ arg \in [Requests -> Arg]
             /\ \A q \in Requests : pc[q] # "idle" => arg[q].id \in Ids /\ arg[q].run # 0
             /\ opened \in [Requests -> 0..MaxRuns]
LeftOK == left \in [stops : 0..MaxStops, losses : 0..MaxLosses, faults : 0..MaxFaults]

OthersOK == clock \in 0..MaxTime /\ StoreOK /\ ProcessOK /\ LeftOK

LEMMA TypeParts ==
  TypeOK <=> Lib!TypeOK /\ clock \in 0..MaxTime /\ StoreOK /\ ProcessOK /\ LeftOK
  BY DEF TypeOK, StoreOK, ProcessOK, LeftOK

LEMMA NoArgTyped == NoArg \in Arg
  BY BoundsAssumption DEF BoundsAssumption, NoArg, Arg

LEMMA GotoTyped ==
  ASSUME ProcessOK, NEW q \in Requests, NEW label \in Labels, NEW i \in Ids,
         NEW r \in 1..MaxRuns, NEW k \in 0..MaxTokens, Goto(q, label, i, r, k),
         UNCHANGED opened
  PROVE  ProcessOK'
<1>1. [id |-> i, run |-> r, token |-> k] \in Arg
  BY BoundsAssumption DEF BoundsAssumption, Arg
<1> QED
  BY <1>1 DEF ProcessOK, Goto

LEMMA AnsweredTyped ==
  ASSUME ProcessOK, NEW q \in Requests, Answered(q) PROVE ProcessOK'
  BY NoArgTyped, BoundsAssumption DEF BoundsAssumption, ProcessOK, Answered, Labels

LEMMA FaultTyped == ASSUME LeftOK, Fault PROVE LeftOK'
  BY BoundsAssumption DEF BoundsAssumption, LeftOK, Fault

LEMMA PersistTyped ==
  ASSUME StoreOK, LeftOK, Persist(links'), links' \subseteq links, UNCHANGED <<issued, link>>
  PROVE  StoreOK' /\ LeftOK'
  BY FaultTyped DEF Persist, Persisted, NotPersisted, StoreOK, LeftOK

LEMMA CardTyped ==
  ASSUME IInv, NEW i \in Ids, card[i] # Lib!NoCard
  PROVE  card[i].run \in 1..MaxRuns
  BY DEF IInv, TypeOK, Lib!TypeOK, Lib!RunsAreFresh, Lib!Has, Runs

LEMMA IssueTyped ==
  ASSUME IInv, NEW q \in Requests, Issue(q)
  PROVE  StoreOK' /\ LeftOK' /\ ProcessOK'
<1>1. StoreOK /\ LeftOK /\ ProcessOK /\ clock \in 0..MaxTime
  BY TypeParts DEF IInv
<1>2. ProcessOK'
  BY <1>1, AnsweredTyped DEF Issue
<1>3. PICK kept \in Room(arg[q].id) : Issued(kept) \/ NotIssued(kept)
  BY DEF Issue
<1>4. kept \subseteq links
  BY RoomKeeps, PrunedKeeps
<1>5. arg[q].id \in Ids /\ arg[q].run \in 1..MaxRuns
  BY <1>1, BoundsAssumption DEF BoundsAssumption, Issue, ProcessOK, Arg
<1>6. New \in Tokens /\ issued' = New /\ issued \in Nat
  BY <1>1, BoundsAssumption DEF BoundsAssumption, Issue, StoreOK, New, Tokens
<1>7. [id |-> arg[q].id, run |-> arg[q].run, at |-> clock] \in Entry
  BY <1>1, <1>5, BoundsAssumption DEF BoundsAssumption, Entry
<1>8. link' \in [Tokens -> Entry]
  BY <1>1, <1>7 DEF Issue, StoreOK
<1>9. \A k \in 1..issued' : link'[k].id \in Ids /\ link'[k].run # 0
  <2> TAKE k \in 1..issued'
  <2>1. k \in Tokens
    BY <1>6, BoundsAssumption DEF BoundsAssumption, New, Tokens
  <2>2. CASE k = New
    BY <1>1, <1>5, <1>6, <2>2 DEF Issue, StoreOK
  <2>3. CASE k # New
    <3>1. k \in 1..issued
      BY <1>6, <2>3 DEF New
    <3> QED
      BY <1>1, <2>1, <2>3, <3>1 DEF Issue, StoreOK
  <2> QED
    BY <2>2, <2>3
<1>10. \A S \in {links', file'} \union older' : S \subseteq 1..issued'
  <2>1. 1..issued \subseteq 1..issued' /\ New \in 1..issued'
    BY <1>6 DEF New
  <2>2. \A S \in {links, file} \union older : S \subseteq 1..issued'
    BY <1>1, <2>1 DEF StoreOK
  <2>3. CASE Issued(kept)
    BY <1>4, <2>1, <2>2, <2>3, PrunedKeeps DEF Issued
  <2>4. CASE NotIssued(kept)
    BY <1>4, <2>1, <2>2, <2>4, PrunedKeeps DEF NotIssued
  <2> QED
    BY <1>3, <2>3, <2>4
<1>11. LeftOK'
  BY <1>1, <1>3, FaultTyped DEF Issued, NotIssued, LeftOK
<1>12. StoreOK'
  <2>1. issued' \in 0..MaxTokens
    BY <1>6, BoundsAssumption DEF BoundsAssumption, Tokens
  <2> QED
    BY <1>8, <1>9, <1>10, <2>1 DEF StoreOK
<1> QED
  BY <1>2, <1>11, <1>12

LEMMA TypeStep == ASSUME IInv, [Next]_vars PROVE IInv'
<1>1. Lib!TypeOK' /\ Lib!RunsAreFresh'
  BY LibraryFacts DEF IInv, TypeOK
<1>2. StoreOK /\ LeftOK /\ ProcessOK /\ clock \in 0..MaxTime
  BY TypeParts DEF IInv
<1> SUFFICES OthersOK'
  BY <1>1 DEF OthersOK, IInv, TypeOK, StoreOK, ProcessOK, LeftOK
<1> USE DEF store, library, process, OthersOK
<1>3. ASSUME NEW q \in Requests, Issue(q) PROVE OthersOK'
  BY <1>2, <1>3, IssueTyped DEF Issue
<1>4. ASSUME NEW q \in Requests, Revoke(q) PROVE OthersOK'
  <2>1. links' \subseteq links
    BY <1>4 DEF Revoke
  <2>2. CASE Persist(links')
    BY <1>2, <1>4, <2>1, <2>2, PersistTyped, AnsweredTyped DEF Revoke
  <2>3. CASE UNCHANGED <<file, older, left>>
    BY <1>2, <1>4, <2>1, <2>3, AnsweredTyped DEF Revoke, StoreOK, LeftOK
  <2> QED
    BY <1>4, <2>2, <2>3 DEF Revoke
<1>5. ASSUME Prune PROVE OthersOK'
  BY <1>2, <1>5, PrunedKeeps, PersistTyped DEF Prune, ProcessOK
<1>6. ASSUME NEW q \in Requests, NEW i \in Ids, Share(q, i) \/ Retry(q, i)
      PROVE OthersOK'
  <2>1. card[i].run \in 1..MaxRuns
    BY <1>6, CardTyped DEF Share, Ready, Retry, Lib!Requeue, Lib!Has
  <2>2. 0 \in 0..MaxTokens /\ "issue" \in Labels /\ "revoke" \in Labels
    BY BoundsAssumption DEF BoundsAssumption, Labels
  <2>3. ProcessOK'
    BY <1>2, <1>6, <2>1, <2>2, GotoTyped DEF Share, Retry
  <2> QED
    BY <1>2, <1>6, <2>3 DEF Share, Retry, StoreOK, LeftOK
<1>7. ASSUME NEW q \in Requests, NEW k \in Tokens, Lookup(q, k)
      PROVE OthersOK'
  <2>1. link[k].id \in Ids /\ link[k].run \in 1..MaxRuns
    BY <1>2, <1>7, BoundsAssumption DEF BoundsAssumption, Lookup, StoreOK, Entry
  <2>2. k \in 0..MaxTokens /\ "get" \in Labels
    BY BoundsAssumption DEF BoundsAssumption, Labels, Tokens
  <2>3. ProcessOK'
    BY <1>2, <1>7, <2>1, <2>2, GotoTyped DEF Lookup
  <2> QED
    BY <1>2, <1>7, <2>3 DEF Lookup, StoreOK, LeftOK
<1>8. ASSUME NEW q \in Requests, Get(q) \/ OpenVideo(q) \/ Sent(q)
      PROVE OthersOK'
  <2>1. CASE Answered(q)
    BY <1>2, <1>8, <2>1, AnsweredTyped DEF Get, OpenVideo, Sent, StoreOK, LeftOK
  <2>2. CASE Get(q) /\ ~Answered(q)
    BY <1>2, <2>2 DEF Get, StoreOK, LeftOK, ProcessOK, Labels
  <2>3. CASE OpenVideo(q) /\ ~Answered(q)
    <3>1. card[arg[q].id].run \in 0..MaxRuns
      BY <1>2, <2>3 DEF OpenVideo, ProcessOK, IInv, TypeOK, Lib!TypeOK, Lib!Cards, Runs
    <3> QED
      BY <1>2, <2>3, <3>1 DEF OpenVideo, StoreOK, LeftOK, ProcessOK, Labels
  <2> QED
    BY <1>8, <2>1, <2>2, <2>3 DEF Sent
<1>9. ASSUME NEW i \in Ids, Resubmit(i) PROVE OthersOK'
  BY <1>2, <1>9 DEF Resubmit, StoreOK, LeftOK, ProcessOK
<1>10. ASSUME NEW i \in Ids, NEW D \in SUBSET Requests, Delete(D, i)
       PROVE OthersOK'
  <2>1. card[i].run \in 1..MaxRuns
    BY <1>10, CardTyped DEF Delete, Lib!Remove, Lib!Has
  <2>2. [id |-> i, run |-> card[i].run, token |-> 0] \in Arg
    BY <2>1, BoundsAssumption DEF BoundsAssumption, Arg
  <2>3. ProcessOK'
    BY <1>2, <1>10, <2>1, <2>2 DEF Delete, ProcessOK, Labels
  <2> QED
    BY <1>2, <1>10, <2>3 DEF Delete, StoreOK, LeftOK
<1>11. ASSUME Manage \/ UNCHANGED vars PROVE OthersOK'
  BY <1>2, <1>11 DEF Manage, vars, StoreOK, LeftOK, ProcessOK
<1>12. ASSUME Stop PROVE OthersOK'
  <2>1. ProcessOK'
    BY <1>12, NoArgTyped, BoundsAssumption DEF BoundsAssumption, Stop, ProcessOK, Labels
  <2>2. left' \in [stops : 0..MaxStops, losses : 0..MaxLosses, faults : 0..MaxFaults]
    <3>1. /\ left \in [stops : 0..MaxStops, losses : 0..MaxLosses, faults : 0..MaxFaults]
          /\ left.stops > 0
      BY <1>2, <1>12 DEF Stop, LeftOK
    <3>2. left.stops - 1 \in 0..MaxStops
      BY <3>1, BoundsAssumption DEF BoundsAssumption
    <3>3. CASE left' = [left EXCEPT !.stops = @ - 1]
      BY <3>1, <3>2, <3>3
    <3>4. CASE left.losses > 0 /\ left' = [left EXCEPT !.stops = @ - 1, !.losses = @ - 1]
      <4>1. left.losses - 1 \in 0..MaxLosses
        BY <3>1, <3>4, BoundsAssumption DEF BoundsAssumption
      <4> QED
        BY <3>1, <3>2, <3>4, <4>1
    <3> QED
      BY <1>12, <3>3, <3>4 DEF Stop
  <2> QED
    BY <1>2, <1>12, <2>1, <2>2 DEF Stop, StoreOK, LeftOK
<1>13. ASSUME Start PROVE OthersOK'
  BY <1>2, <1>13, FaultTyped DEF Start, StoreOK, LeftOK, ProcessOK
<1>14. ASSUME Tick PROVE OthersOK'
  BY <1>2, <1>14, BoundsAssumption DEF BoundsAssumption, Tick, StoreOK, LeftOK, ProcessOK
<1> QED
  BY <1>3, <1>4, <1>5, <1>6, <1>7, <1>8, <1>9, <1>10, <1>11, <1>12, <1>13, <1>14, StepCases

LEMMA TypeInit == Init => IInv
<1> SUFFICES ASSUME Init PROVE IInv
  OBVIOUS
<1>1. Lib!TypeOK /\ Lib!RunsAreFresh
  BY LibraryFacts
<1> USE BoundsAssumption DEF BoundsAssumption
<1>2. StoreOK
  BY DEF Init, StoreOK, Entry
<1>3. ProcessOK
  BY NoArgTyped DEF Init, ProcessOK, Labels
<1>4. LeftOK /\ clock \in 0..MaxTime
  BY DEF Init, LeftOK
<1> QED
  BY <1>1, <1>2, <1>3, <1>4, TypeParts DEF IInv

\* Requests, entries and the file keep their types; a request at work has a
\* video and a run in its hands, and no token is in the store unissued.
THEOREM LinksTypeCorrect == Spec => []TypeOK
<1>1. Spec => []IInv
  BY TypeInit, TypeStep, PTL DEF Spec
<1> QED
  BY <1>1, PTL DEF IInv

\* The library inside Links keeps its promise: the run of a card is no other
\* card's, and not one whose removal was confirmed.
THEOREM LinkedRunsStayFresh == Spec => []RunsAreFresh
<1>1. Spec => []IInv
  BY TypeInit, TypeStep, PTL DEF Spec
<1>2. IInv => RunsAreFresh
  BY DEF IInv, RunsAreFresh
<1> QED
  BY <1>1, <1>2, PTL

-----------------------------------------------------------------------------
(* RemovedRunsStayClosed. *)

LEMMA AcceptedByGet ==
  ASSUME IInv, [Next]_vars, NEW q \in Requests, Accepted(q)
  PROVE  Get(q) /\ Valid(q)
<1>1. pc \in [Requests -> Labels] /\ pc[q] = "get" /\ pc'[q] = "open"
  BY DEF Accepted, IInv, TypeOK
<1>2. ASSUME NEW p \in Requests, NEW i \in Ids, Share(p, i) \/ Retry(p, i) PROVE FALSE
  BY <1>1, <1>2 DEF Share, Retry, Goto
<1>3. ASSUME NEW p \in Requests, Issue(p) \/ Revoke(p) \/ OpenVideo(p) \/ Sent(p) PROVE FALSE
  BY <1>1, <1>3 DEF Issue, Revoke, OpenVideo, Sent, Answered
<1>4. ASSUME NEW p \in Requests, Get(p), p # q PROVE FALSE
  BY <1>1, <1>4 DEF Get, Answered
<1>5. ASSUME NEW p \in Requests, NEW k \in Tokens, Lookup(p, k) PROVE FALSE
  BY <1>1, <1>5 DEF Lookup, Goto
<1>6. ASSUME NEW i \in Ids, NEW D \in SUBSET Requests, Delete(D, i) PROVE FALSE
  BY <1>1, <1>6 DEF Delete
<1>7. ASSUME (\E i \in Ids : Resubmit(i)) \/ Manage \/ Prune \/ Start \/ Tick
             \/ UNCHANGED vars
      PROVE  FALSE
  BY <1>1, <1>7 DEF Resubmit, Manage, Prune, Start, Tick, vars, process
<1>8. ASSUME Stop PROVE FALSE
  BY <1>1, <1>8 DEF Stop
<1>9. Get(q)
  BY <1>2, <1>3, <1>4, <1>5, <1>6, <1>7, <1>8, StepCases
<1>10. Valid(q)
  BY <1>1, <1>9 DEF Get, Answered
<1> QED
  BY <1>9, <1>10

LEMMA ClosedStep ==
  ASSUME IInv, [Next]_vars, NEW q \in Requests, Accepted(q)
  PROVE  arg[q].run \notin removed
<1>1. Valid(q) /\ pc[q] = "get"
  BY AcceptedByGet DEF Accepted
<1>2. arg[q].id \in Ids /\ card[arg[q].id] # Lib!NoCard /\ card[arg[q].id].run = arg[q].run
  BY <1>1 DEF Valid, Ready, IInv, TypeOK
<1> QED
  BY <1>2 DEF IInv, Lib!RunsAreFresh, Lib!Has

\* A link of a removed run opens nothing: not the next download of its video,
\* nor after a revocation that came too early, was not saved or was undone.
THEOREM RemovedRunsClosed == Spec => RemovedRunsStayClosed
<1>1. IInv /\ [Next]_vars => [\A q \in Requests : Accepted(q) => arg[q].run \notin removed]_vars
  BY ClosedStep
<1> QED
  BY <1>1, TypeInit, TypeStep, PTL DEF Spec, RemovedRunsStayClosed

-----------------------------------------------------------------------------
(* WithinLimit and LinksLast. *)

LEMMA SetsAreFinite ==
  ASSUME IInv
  PROVE  /\ \A S \in SUBSET (1..issued) : IsFiniteSet(S) /\ Cardinality(S) \in Nat
         /\ \A S \in {links, file, Pruned} \union older : S \in SUBSET (1..issued)
<1> issued \in Int
  BY TypeParts DEF IInv, StoreOK
<1>1. IsFiniteSet(1..issued)
  BY FS_Interval
<1>2. \A S \in {links, file} \union older : S \subseteq 1..issued
  BY TypeParts DEF IInv, StoreOK
<1>3. \A S \in {links, file, Pruned} \union older : S \in SUBSET (1..issued)
  BY <1>2, PrunedKeeps
<1> QED
  BY <1>1, <1>3, FS_Subset, FS_CardinalityType

LEMMA FewerStayWithin ==
  ASSUME IInv, NEW S \in SUBSET (1..issued), NEW T \in SUBSET S, NEW i,
         Cardinality(Of(i, S)) <= LinksPerVideo
  PROVE  Cardinality(Of(i, T)) <= LinksPerVideo
<1>1. Of(i, T) \subseteq Of(i, S) /\ Of(i, S) \in SUBSET (1..issued)
  BY DEF Of
<1>2. IsFiniteSet(Of(i, S)) /\ Cardinality(Of(i, T)) \in Nat /\ Cardinality(Of(i, S)) \in Nat
  BY <1>1, SetsAreFinite
<1>3. Cardinality(Of(i, T)) <= Cardinality(Of(i, S))
  BY <1>1, <1>2, FS_Subset
<1> QED
  BY <1>2, <1>3, BoundsAssumption DEF BoundsAssumption

\* Room leaves a place for one more link of its video.
LEMMA RoomIsLeft ==
  ASSUME IInv, WithinLimit, NEW i \in Ids, NEW kept \in Room(i)
  PROVE  Cardinality(Of(i, kept)) < LinksPerVideo
<1> DEFINE mine == Of(i, Pruned)
<1>1. mine \in SUBSET (1..issued) /\ IsFiniteSet(mine) /\ Cardinality(mine) \in Nat
  BY SetsAreFinite DEF Of
<1>2. Cardinality(mine) <= LinksPerVideo
  BY PrunedKeeps, SetsAreFinite, FewerStayWithin DEF WithinLimit
<1>3. CASE Cardinality(mine) < LinksPerVideo
  BY <1>3 DEF Room
<1>4. CASE ~(Cardinality(mine) < LinksPerVideo)
  <2>1. PICK k \in Oldest(mine) : kept = Pruned \ {k}
    BY <1>4 DEF Room
  <2>2. k \in mine /\ Of(i, kept) = mine \ {k}
    BY <2>1 DEF Oldest, Of
  <2>3. Cardinality(Of(i, kept)) = Cardinality(mine) - 1
    BY <1>1, <2>2, FS_RemoveElement
  <2> QED
    BY <1>1, <1>2, <2>3, BoundsAssumption DEF BoundsAssumption
<1> QED
  BY <1>3, <1>4

\* Entries of issued tokens are never rewritten.
LEMMA EntriesStay ==
  ASSUME IInv, NEW q \in Requests, Issue(q), NEW k \in 1..issued
  PROVE  link'[k] = link[k]
<1>1. issued \in Nat /\ link \in [Tokens -> Entry] /\ k # New
  BY BoundsAssumption DEF BoundsAssumption, IInv, TypeOK, New
<1>2. k \in Tokens
  BY BoundsAssumption DEF BoundsAssumption, IInv, TypeOK, Tokens
<1> QED
  BY <1>1, <1>2 DEF Issue

LEMMA IssueWithin ==
  ASSUME IInv, WithinLimit, NEW q \in Requests, Issue(q)
  PROVE  WithinLimit'
<1>1. PICK kept \in Room(arg[q].id) : Issued(kept) \/ NotIssued(kept)
  BY DEF Issue
<1>2. arg[q].id \in Ids
  BY DEF Issue, IInv, TypeOK
<1>3. kept \subseteq links /\ kept \subseteq Pruned
  BY RoomKeeps, PrunedKeeps
<1>4. New \in Tokens /\ issued \in Nat /\ link'[New].id = arg[q].id
  BY BoundsAssumption DEF BoundsAssumption, Issue, IInv, TypeOK, New, Tokens
<1>5. ASSUME NEW S \in SUBSET (1..issued), NEW i \in Ids PROVE Of(i, S)' = Of(i, S)
  BY <1>5, EntriesStay DEF Of
<1>6. ASSUME NEW S \in {links, file, Pruned, kept} \union older, NEW i \in Ids
      PROVE  Cardinality(Of(i, S)') <= LinksPerVideo
  <2>1. S \in SUBSET (1..issued)
    BY <1>3, SetsAreFinite
  <2>2. Cardinality(Of(i, S)) <= LinksPerVideo
    BY <1>3, PrunedKeeps, SetsAreFinite, FewerStayWithin DEF WithinLimit
  <2> QED
    BY <1>5, <2>1, <2>2
<1>7. ASSUME NEW i \in Ids
      PROVE  Cardinality({k \in kept \union {New} : link'[k].id = i}) <= LinksPerVideo
  <2> DEFINE old == Of(i, kept)
  <2>1. kept \in SUBSET (1..issued) /\ old \in SUBSET (1..issued)
    BY <1>3, SetsAreFinite DEF Of
  <2>2. IsFiniteSet(old) /\ Cardinality(old) \in Nat /\ New \notin old
    BY <1>4, <2>1, SetsAreFinite DEF New
  <2>3. {k \in kept : link'[k].id = i} = old
    BY <2>1, EntriesStay DEF Of
  <2>4. CASE i = arg[q].id
    <3>1. {k \in kept \union {New} : link'[k].id = i} = old \union {New}
      BY <1>4, <2>3, <2>4
    <3>2. Cardinality(old \union {New}) = Cardinality(old) + 1
      BY <2>2, FS_AddElement
    <3>3. Cardinality(old) < LinksPerVideo
      BY <1>1, <1>2, <2>4, RoomIsLeft
    <3>4. Cardinality(old) + 1 <= LinksPerVideo
      <4> HIDE DEF old
      <4> QED
        BY <2>2, <3>3, BoundsAssumption DEF BoundsAssumption
    <3>5. Cardinality(old \union {New}) <= LinksPerVideo
      <4> HIDE DEF old
      <4> QED
        BY <3>2, <3>4
    <3> QED
      BY <3>1, <3>5
  <2>5. CASE i # arg[q].id
    <3>1. {k \in kept \union {New} : link'[k].id = i} = old
      BY <1>4, <2>3, <2>5
    <3>2. Cardinality(old) <= LinksPerVideo
      BY <1>3, SetsAreFinite, FewerStayWithin DEF WithinLimit
    <3> QED
      BY <3>1, <3>2
  <2> QED
    BY <2>4, <2>5
<1>8. CASE Issued(kept)
  <2>1. /\ links' = kept \union {New} /\ file' = kept \union {New}
        /\ \A T \in older' : T \in {file, Pruned} \union older
    BY <1>8 DEF Issued
  <2>2. ASSUME NEW i \in Ids, NEW T \in {links', file'} \union older'
        PROVE  Cardinality({k \in T : link'[k].id = i}) <= LinksPerVideo
    <3>1. CASE T = kept \union {New}
      BY <1>7, <3>1
    <3>2. CASE T \in older'
      BY <1>6, <2>1, <3>2 DEF Of
    <3> QED
      BY <2>1, <3>1, <3>2
  <2> QED
    BY <2>2 DEF WithinLimit, Of
<1>9. CASE NotIssued(kept)
  <2>1. links' = kept /\ file' \in {file, Pruned} /\ older' \subseteq {file} \union older
    BY <1>9 DEF NotIssued
  <2>2. \A i \in Ids, T \in {links', file'} \union older' :
          \E S \in {links, file, Pruned, kept} \union older : T = S
    BY <2>1
  <2>3. \A i \in Ids, S \in {links, file, Pruned, kept} \union older :
          Cardinality({k \in S : link'[k].id = i}) <= LinksPerVideo
    BY <1>6 DEF Of
  <2> QED
    BY <2>2, <2>3 DEF WithinLimit, Of
<1> QED
  BY <1>1, <1>8, <1>9

LEMMA WithinStep == ASSUME IInv, WithinLimit, [Next]_vars PROVE WithinLimit'
<1> USE DEF store, library, process
\* Enough: the entries stay, and the sets become smaller ones.
<1>1. ASSUME UNCHANGED link,
             \A T \in {links', file'} \union older' :
               \E S \in {links, file} \union older : T \subseteq S
      PROVE  WithinLimit'
  <2> SUFFICES ASSUME NEW i \in Ids, NEW T \in {links', file'} \union older'
               PROVE  Cardinality({k \in T : link'[k].id = i}) <= LinksPerVideo
    BY DEF WithinLimit, Of
  <2>1. PICK S \in {links, file} \union older : T \subseteq S
    BY <1>1
  <2>2. S \in SUBSET (1..issued) /\ T \in SUBSET S
    BY <2>1, SetsAreFinite
  <2>3. Cardinality(Of(i, T)) <= LinksPerVideo
    BY <2>2, FewerStayWithin DEF WithinLimit
  <2> QED
    BY <1>1, <2>3 DEF Of
<1>2. ASSUME NEW q \in Requests, Issue(q) PROVE WithinLimit'
  BY <1>2, IssueWithin
<1>3. ASSUME NEW q \in Requests, Revoke(q) PROVE WithinLimit'
  <2>1. links' \subseteq links /\ file' \in {file, links'} /\ older' \subseteq {file} \union older
    BY <1>3 DEF Revoke, Persist, Persisted, NotPersisted
  <2> QED
    BY <1>1, <1>3, <2>1 DEF Revoke
<1>4. ASSUME Prune PROVE WithinLimit'
  <2>1. links' \subseteq links /\ file' \in {file, links'} /\ older' \subseteq {file} \union older
    BY <1>4, PrunedKeeps DEF Prune, Persist, Persisted, NotPersisted
  <2> QED
    BY <1>1, <1>4, <2>1 DEF Prune
<1>5. ASSUME Stop PROVE WithinLimit'
  <2>1. links' \subseteq links /\ file' \in {file} \union older /\ older' \subseteq older /\ link' = link
    BY <1>5 DEF Stop
  <2> QED
    BY <1>1, <2>1
<1>6. ASSUME Start PROVE WithinLimit'
  <2>1. links' \subseteq file /\ file' = file /\ older' = older /\ link' = link
    BY <1>6 DEF Start
  <2> QED
    BY <1>1, <2>1
<1>7. ASSUME UNCHANGED store PROVE WithinLimit'
  BY <1>1, <1>7
<1>8. ASSUME NEW q \in Requests, NEW i \in Ids, Share(q, i) \/ Retry(q, i) PROVE UNCHANGED store
  BY <1>8 DEF Share, Retry
<1>9. ASSUME NEW q \in Requests, Get(q) \/ OpenVideo(q) \/ Sent(q) PROVE UNCHANGED store
  BY <1>9 DEF Get, OpenVideo, Sent
<1>10. ASSUME NEW q \in Requests, NEW k \in Tokens, Lookup(q, k) PROVE UNCHANGED store
  BY <1>10 DEF Lookup
<1>11. ASSUME NEW i \in Ids, Resubmit(i) \/ (\E D \in SUBSET Requests : Delete(D, i))
       PROVE  UNCHANGED store
  BY <1>11 DEF Resubmit, Delete
<1>12. ASSUME Manage \/ Tick \/ UNCHANGED vars PROVE UNCHANGED store
  BY <1>12 DEF Manage, Tick, vars
<1> QED
  BY <1>2, <1>3, <1>4, <1>5, <1>6, <1>7, <1>8, <1>9, <1>10, <1>11, <1>12, StepCases

\* No video ever has more than maxLinksPerVideo links, in memory or in a file
\* a restart may read, failed writes and power losses included.
THEOREM LinksWithinLimit == Spec => []WithinLimit
<1>1. Init => WithinLimit
  <2> SUFFICES ASSUME Init, NEW i \in Ids, NEW S \in {links, file} \union older
               PROVE  Cardinality(Of(i, S)) <= LinksPerVideo
    BY DEF WithinLimit
  <2>1. Of(i, S) = {}
    BY DEF Init, Of
  <2> QED
    BY <2>1, FS_EmptySet, BoundsAssumption DEF BoundsAssumption
<1> QED
  BY <1>1, TypeInit, TypeStep, WithinStep, PTL DEF Spec

LEMMA LastStep ==
  ASSUME IInv, [Next]_vars, up, up', NEW k \in links \ links', Live(k)
  PROVE  Revoked(k) \/ Evicted(k)
<1> USE DEF store, library, process
<1>1. k \in Pruned /\ k \in 1..issued
  BY DEF Pruned, IInv, TypeOK
<1>2. ASSUME NEW q \in Requests, Issue(q) PROVE Evicted(k)
  <2> DEFINE mine == Of(arg[q].id, Pruned)
  <2>1. PICK kept \in Room(arg[q].id) : links' = kept \/ links' = kept \union {New}
    BY <1>2 DEF Issue, Issued, NotIssued
  <2>2. k \notin kept
    BY <2>1
  <2>3. ~(Cardinality(mine) < LinksPerVideo) /\ kept = Pruned \ {k} /\ k \in Oldest(mine)
    BY <1>1, <2>2 DEF Room
  <2>4. link[k].id = arg[q].id
    BY <2>3 DEF Oldest, Of
  <2>5. Cardinality(mine) \in Nat
    <3>1. mine \subseteq Pruned
      BY DEF Of
    <3> QED
      BY <3>1, SetsAreFinite
  <2>6. Cardinality(Of(link[k].id, Pruned)) >= LinksPerVideo
    BY <2>3, <2>4, <2>5, BoundsAssumption DEF BoundsAssumption
  <2>7. New \notin links
    <3>1. links \subseteq 1..issued /\ issued \in Int
      BY TypeParts DEF IInv, StoreOK
    <3> QED
      BY <3>1 DEF New
  <2>8. \A j \in Of(link[k].id, links \intersect links') : j \in mine
    BY <2>1, <2>3, <2>4, <2>7 DEF Of
  <2> QED
    BY <2>3, <2>6, <2>8 DEF Oldest, Evicted
<1>3. ASSUME NEW q \in Requests, Revoke(q) PROVE Revoked(k)
  BY <1>3 DEF Revoke, Revoked, Answered, Of, IInv, TypeOK
<1>4. ~Prune
  BY <1>1 DEF Prune
<1>5. ~Stop /\ ~Start
  BY DEF Stop, Start, Lib!Stop, Lib!Start
<1>6. \A q \in Requests, i \in Ids : ~Share(q, i) /\ ~Retry(q, i)
  BY DEF Share, Retry
<1>7. \A q \in Requests : ~Get(q) /\ ~OpenVideo(q) /\ ~Sent(q)
  BY DEF Get, OpenVideo, Sent
<1>8. \A q \in Requests, j \in Tokens : ~Lookup(q, j)
  BY DEF Lookup
<1>9. \A i \in Ids, D \in SUBSET Requests : ~Delete(D, i)
  BY DEF Delete
<1>10. \A i \in Ids : ~Resubmit(i)
  BY DEF Resubmit
<1>11. ~Manage /\ ~Tick /\ ~UNCHANGED vars
  BY DEF Manage, Tick, vars
<1> QED
  BY <1>2, <1>3, <1>4, <1>5, <1>6, <1>7, <1>8, <1>9, <1>10, <1>11, StepCases

\* While the server runs, a live link goes only because its video is retried
\* or deleted, or as the oldest of a full set of live links of its video.
THEOREM LinksStay == Spec => LinksLast
<1>1. IInv /\ [Next]_vars =>
        [up /\ up' => \A k \in links \ links' : Live(k) => Revoked(k) \/ Evicted(k)]_vars
  BY LastStep
<1> QED
  BY <1>1, TypeInit, TypeStep, PTL DEF Spec, LinksLast
=============================================================================
