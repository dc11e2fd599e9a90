-------------------------- MODULE WebClientProofs ---------------------------
(***************************************************************************)
(* The list on the page never goes back, and the page never falls idle,    *)
(* for any number of flows, versions and mishaps.  Both rest on what is    *)
(* in flight: one refresh at most, whose answer is no older than the page. *)
(***************************************************************************)
EXTENDS WebClient, FiniteSetTheorems, WellFoundedInduction, TLAPS

\* A refresh is under way only while the flag is set, and only one.
SingleFlight ==
  /\ refreshing \in BOOLEAN
  /\ \A f \in Refreshers : Awaits(f) => refreshing
  /\ \A f, g \in Refreshers : Awaits(f) /\ Awaits(g) => f = g

\* Only a refresh asks for the list, and an answer on its way lies between
\* what the page shows and what the server has.
Fresh(f, c) == c.to = "list" =>
  /\ f \in Refreshers
  /\ c.status = "ok" => c.data \in Nat /\ shown <= c.data /\ c.data <= rev

IInv ==
  /\ rev \in Nat /\ shown \in Nat /\ shown <= rev
  /\ call = [f \in Flows |-> call[f]]
  /\ SingleFlight
  /\ \A f \in Flows : Fresh(f, call[f])

LEMMA InitIInv == Init => IInv
<1>1. SUFFICES ASSUME Init  PROVE IInv
  OBVIOUS
<1>2. \A f \in Flows : call[f] = IF f = "boot" THEN Call("session") ELSE Idle
  BY <1>1 DEF Init
<1>3. \A f \in Refreshers : f \in Flows /\ f # "boot"
  BY FlowsAssumption DEF Flows
<1>4. SingleFlight
  BY <1>1, <1>2, <1>3 DEF Init, SingleFlight, Awaits
<1>5. \A f \in Flows : call[f].to # "list"
  BY <1>2 DEF Call, Idle
<1>6. QED
  BY <1>1, <1>4, <1>5 DEF Init, IInv, Fresh

\* Starting a refresh, after a step that ended some other flow or none.
LEMMA RefreshesKeeps ==
  ASSUME IInv, NEW t, NEW cs, UNCHANGED <<rev, shown>>, Refreshes(cs, t),
         cs = [f \in Flows |-> cs[f]],
         \A f \in Flows : cs[f] = call[f] \/ cs[f] = Idle
  PROVE  IInv'
<1>1. Refreshers \subseteq Flows
  BY DEF Flows
<1>2. \A f \in Flows : Fresh(f, cs[f])
  BY DEF IInv, Fresh, Idle
<1>3. \A f \in Refreshers : cs[f] # Idle => Awaits(f)
  BY <1>1 DEF Awaits
<1>4. CASE call' = cs /\ UNCHANGED refreshing
  <2>1. SingleFlight'
    BY <1>1, <1>3, <1>4 DEF IInv, SingleFlight, Awaits
  <2>2. QED
    BY <1>2, <1>4, <2>1 DEF IInv, Fresh
<1>5. ASSUME ~refreshing, NEW r \in Refreshers, cs[r] = Idle, refreshing' = TRUE,
             NEW to \in {"session", "list"}, call' = [cs EXCEPT ![r] = Call(to)]
      PROVE  IInv'
  <2>1. \A f \in Refreshers : cs[f] = Idle
    BY <1>3, <1>5 DEF IInv, SingleFlight
  <2>2. \A f \in Flows : call'[f] = IF f = r THEN Call(to) ELSE cs[f]
    BY <1>1, <1>5
  <2>3. SingleFlight'
    BY <1>1, <1>5, <2>1, <2>2 DEF SingleFlight, Awaits
  <2>4. \A f \in Flows : Fresh(f, call[f])'
    BY <1>2, <1>5, <2>2 DEF Fresh, Call
  <2>5. call' = [f \in Flows |-> call'[f]]
    BY <1>5
  <2>6. QED
    BY <2>3, <2>4, <2>5 DEF IInv, Fresh
<1>6. QED
  BY <1>4, <1>5 DEF Refreshes, Busy

\* An answer, or none, for a flow that awaits one.
LEMMA AnswersKeep ==
  ASSUME IInv, NEW f \in Flows, NEW status, NEW data, Answers(f, status, data), Awaits(f),
         call[f].to = "list" /\ status = "ok" => data = rev,
         UNCHANGED <<rev, shown, refreshing>>
  PROVE  IInv'
<1>1. \A g \in Flows : call'[g] = IF g = f THEN Answer(call[f].to, status, data) ELSE call[g]
  BY DEF Answers, IInv
<1>2. SingleFlight'
  BY <1>1 DEF IInv, SingleFlight, Awaits, Flows
<1>3. \A g \in Flows : Fresh(g, call[g])'
  <2>1. \A to : /\ Answer(to, status, data).to = to
               /\ Answer(to, status, data).status = status
               /\ Answer(to, status, data).data = data
    BY DEF Answer, Idle
  <2>2. Fresh(f, call[f])'
    BY <1>1, <2>1 DEF IInv, Fresh
  <2>3. \A g \in Flows : g # f => Fresh(g, call[g])'
    BY <1>1 DEF IInv, Fresh
  <2>4. QED
    BY <2>2, <2>3
<1>4. call' = [g \in Flows |-> call'[g]]
  BY DEF Answers, IInv
<1>5. QED
  BY <1>2, <1>3, <1>4 DEF IInv

\* The end of a refresh, which shows what it got.
LEMMA RefreshEndKeeps ==
  ASSUME IInv, NEW f \in Refreshers, refreshEnds(f), Awaits(f), UNCHANGED rev,
         shown' = shown \/ (call[f].to = "list" /\ call[f].status = "ok" /\ shown' = call[f].data)
  PROVE  IInv' /\ shown' >= shown
<1>1. f \in Flows
  BY DEF Flows
<1>2. \A g \in Flows : call'[g] = IF g = f THEN Idle ELSE call[g]
  BY DEF refreshEnds, Ended, IInv
<1>3. shown' \in Nat /\ shown <= shown' /\ shown' <= rev
  BY <1>1 DEF IInv, Fresh
<1>4. \A g \in Refreshers : g # f => call[g] = Idle
  BY DEF IInv, SingleFlight, Awaits
<1>5. SingleFlight'
  BY <1>2, <1>4 DEF refreshEnds, SingleFlight, Awaits, Flows
<1>6. \A g \in Flows : call'[g].to # "list"
  <2>1. \A g \in Flows : g # f => call[g].to # "list"
    BY <1>4 DEF IInv, Fresh, Idle
  <2>2. QED
    BY <1>2, <2>1 DEF Idle
<1>7. call' = [g \in Flows |-> call'[g]]
  BY DEF refreshEnds, Ended, IInv
<1>8. QED
  BY <1>3, <1>5, <1>6, <1>7 DEF IInv, Fresh

\* A change of the list, or of nothing that matters here.
LEMMA GrownKeeps ==
  ASSUME IInv, Grown \/ UNCHANGED rev, UNCHANGED <<shown, call, refreshing>>
  PROVE  IInv'
BY DEF IInv, SingleFlight, Fresh, Awaits, Grown

\* One lemma per kind of step.
LEMMA BootKeeps == ASSUME IInv, boot  PROVE IInv' /\ shown' = shown
<1>1. Ended("boot") = [f \in Flows |-> Ended("boot")[f]]
  BY DEF Ended, IInv
<1>2. \A f \in Flows : Ended("boot")[f] = call[f] \/ Ended("boot")[f] = Idle
  BY DEF Ended, IInv
<1>3. ASSUME NEW t, Refreshes(Ended("boot"), t)  PROVE IInv'
  <2>1. UNCHANGED <<rev, shown>>
    BY DEF boot, server
  <2>2. QED
    BY <1>1, <1>2, <1>3, <2>1, RefreshesKeeps
<1>4. ASSUME call' = Ended("boot"), UNCHANGED refreshing  PROVE IInv'
  <2>1. \A f \in Refreshers : call'[f] = call[f]
    BY <1>4, FlowsAssumption DEF Ended, IInv, Flows
  <2>2. SingleFlight'
    BY <1>4, <2>1 DEF IInv, SingleFlight, Awaits
  <2>3. \A f \in Flows : Fresh(f, call[f])'
    BY <1>2, <1>4 DEF boot, server, IInv, Fresh, Idle
  <2>4. QED
    BY <1>1, <1>4, <2>2, <2>3 DEF boot, server, IInv
<1>5. QED
  BY <1>3, <1>4 DEF boot, startPolling

LEMMA LoginKeeps == ASSUME IInv, NEW l \in Logins, login(l)  PROVE IInv' /\ shown' = shown
<1>1. Ended(l) = [f \in Flows |-> Ended(l)[f]]
  BY DEF Ended, IInv
<1>2. \A f \in Flows : Ended(l)[f] = call[f] \/ Ended(l)[f] = Idle
  BY DEF Ended, IInv
<1>3. ASSUME NEW t, Refreshes(Ended(l), t)  PROVE IInv'
  <2>1. UNCHANGED <<rev, shown>>
    BY DEF login, server
  <2>2. QED
    BY <1>1, <1>2, <1>3, <2>1, RefreshesKeeps
<1>4. ASSUME call' = Ended(l), UNCHANGED refreshing  PROVE IInv'
  <2>1. \A f \in Refreshers : call'[f] = call[f]
    BY <1>4, FlowsAssumption DEF Ended, IInv, Flows
  <2>2. SingleFlight'
    BY <1>4, <2>1 DEF IInv, SingleFlight, Awaits
  <2>3. \A f \in Flows : Fresh(f, call[f])'
    BY <1>2, <1>4 DEF login, server, IInv, Fresh, Idle
  <2>4. QED
    BY <1>1, <1>4, <2>2, <2>3 DEF login, server, IInv
<1>5. QED
  BY <1>3, <1>4 DEF login, startPolling

LEMMA RefreshKeeps == ASSUME IInv, NEW r \in Refreshers, refresh(r)  PROVE IInv' /\ shown' >= shown
<1>1. r \in Flows /\ UNCHANGED rev
  BY DEF Flows, refresh, server
<1>2. CASE refreshEnds(r)
  BY <1>2, <1>1, RefreshEndKeeps DEF refresh
<1>3. ASSUME call' = [call EXCEPT ![r] = Call("list")], UNCHANGED <<refreshing, shown>>
      PROVE  IInv' /\ shown' >= shown
  <2>1. \A g \in Flows : call'[g] = IF g = r THEN Call("list") ELSE call[g]
    BY <1>3 DEF IInv
  <2>2. SingleFlight'
    BY <1>3, <2>1 DEF refresh, IInv, SingleFlight, Awaits, Flows
  <2>3. \A g \in Flows : Fresh(g, call[g])'
    BY <1>1, <1>3, <2>1 DEF IInv, Fresh, Call
  <2>4. QED
    BY <1>1, <1>3, <2>2, <2>3 DEF IInv
<1>4. QED
  BY <1>2, <1>3 DEF refresh

LEMMA SignInKeeps == ASSUME IInv, SignIn  PROVE IInv' /\ shown' = shown
<1> DEFINE l == CHOOSE f \in Logins : ~Awaits(f)
<1>1. l \in Logins
  BY DEF SignIn
<1>2. call' = [call EXCEPT ![l] = Call("login")] /\ UNCHANGED <<rev, shown, refreshing>>
  BY DEF SignIn, server, page
<1> HIDE DEF l
<1>3. \A g \in Flows : call'[g] = IF g = l THEN Call("login") ELSE call[g]
  BY <1>2 DEF IInv
<1>4. \A g \in Refreshers : g # l /\ g \in Flows
  BY <1>1, FlowsAssumption DEF Flows
<1>5. SingleFlight'
  BY <1>2, <1>3, <1>4 DEF IInv, SingleFlight, Awaits
<1>6. \A g \in Flows : Fresh(g, call[g])'
  BY <1>2, <1>3 DEF IInv, Fresh, Call
<1>7. QED
  BY <1>2, <1>5, <1>6 DEF IInv

LEMMA NextIInv == ASSUME IInv, [Next]_vars  PROVE IInv' /\ shown' >= shown
<1>1. ASSUME NEW f \in Flows, Serves(f)  PROVE IInv' /\ shown' >= shown
  <2>1. UNCHANGED <<rev, shown, refreshing>>
    BY <1>1 DEF Serves, server, page
  <2>2. QED
    BY <1>1, <2>1, AnswersKeep DEF Serves, IInv
<1>2. ASSUME NEW f \in Flows, Signs(f)  PROVE IInv' /\ shown' >= shown
  BY <1>2, AnswersKeep DEF Signs, server, page, IInv
<1>3. ASSUME NEW f \in Flows, Fails(f)  PROVE IInv' /\ shown' >= shown
  BY <1>3, AnswersKeep DEF Fails, server, page, IInv
<1>4. ASSUME NEW f \in Flows, Continues(f)  PROVE IInv' /\ shown' >= shown
  BY <1>4, BootKeeps, RefreshKeeps, LoginKeeps DEF Continues, IInv
<1>5. ASSUME NEW due, Poll(due)  PROVE IInv' /\ shown' >= shown
  BY <1>5, RefreshesKeeps DEF Poll, server, IInv
<1>6. ASSUME SignIn  PROVE IInv' /\ shown' >= shown
  BY <1>6, SignInKeeps DEF IInv
<1>7. ASSUME Act \/ Works \/ Expires \/ OtherPage \/ UNCHANGED vars  PROVE IInv' /\ shown' >= shown
  BY <1>7, GrownKeeps DEF Act, Works, Expires, OtherPage, vars, server, page, IInv
<1>8. ASSUME Acted  PROVE IInv' /\ shown' >= shown
  BY <1>8, RefreshesKeeps DEF Acted, server, IInv
<1>9. QED
  BY <1>1, <1>2, <1>3, <1>4, <1>5, <1>6, <1>7, <1>8 DEF Next, Progress, Tick, Visible

\* The page never goes back to an older list (main.ts:37-40), however many
\* polls, returns to the page, logins and actions ask for it.
THEOREM ListStaysFresh == Spec => ListNeverGoesBack
<1>1. IInv /\ [Next]_vars => [shown' >= shown]_vars
  BY NextIInv
<1>2. IInv /\ [Next]_vars => IInv'
  BY NextIInv
<1>3. QED
  BY <1>1, <1>2, InitIInv, PTL DEF Spec, ListNeverGoesBack

-----------------------------------------------------------------------------
\* Polling stops only to ask for the password, and the form goes only when
\* polling has started.
LEMMA NextPollsOrAsks == ASSUME IInv, PollsOrAsks, [Next]_vars  PROVE PollsOrAsks'
<1>1. "boot" \in Flows
  BY DEF Flows
<1>2. ASSUME NEW f \in Flows, NEW status, NEW data, Answers(f, status, data), Awaits(f),
             status # "idle", UNCHANGED <<polling, overlay>>
      PROVE  PollsOrAsks'
  <2>1. Answer(call[f].to, status, data).status = status /\ Idle.status = "idle"
    BY DEF Answer, Idle
  <2>2. call'["boot"] = IF f = "boot" THEN Answer(call[f].to, status, data) ELSE call["boot"]
    BY <1>1, <1>2 DEF Answers, IInv
  <2>3. QED
    BY <1>2, <2>1, <2>2 DEF PollsOrAsks, Awaits
<1>3. ASSUME NEW cs, NEW t, Refreshes(cs, t), cs["boot"] = call["boot"], cs = [f \in Flows |-> cs[f]],
             UNCHANGED <<polling, overlay>>
      PROVE  PollsOrAsks'
  <2>1. \A f \in Refreshers : f # "boot"
    BY FlowsAssumption
  <2>2. call'["boot"] = cs["boot"]
    BY <1>1, <1>3, <2>1 DEF Refreshes
  <2>3. QED
    BY <1>3, <2>2 DEF PollsOrAsks, Awaits
<1>4. ASSUME NEW f \in Flows, Serves(f)  PROVE PollsOrAsks'
  BY <1>2, <1>4 DEF Serves, page
<1>5. ASSUME NEW f \in Flows, Signs(f)  PROVE PollsOrAsks'
  BY <1>2, <1>5 DEF Signs, page
<1>6. ASSUME NEW f \in Flows, Fails(f)  PROVE PollsOrAsks'
  BY <1>2, <1>6 DEF Fails, page
<1>7. ASSUME boot  PROVE PollsOrAsks'
  BY <1>7 DEF boot, startPolling, showLogin, PollsOrAsks
<1>8. ASSUME NEW r \in Refreshers, refresh(r)  PROVE PollsOrAsks'
  <2>1. \A c : [call EXCEPT ![r] = c]["boot"] = call["boot"]
    BY <1>1, FlowsAssumption DEF IInv
  <2>2. call'["boot"] = call["boot"]
    BY <1>8, <2>1 DEF refresh, refreshEnds, Ended
  <2>3. QED
    BY <1>8, <2>2 DEF refresh, showLogin, PollsOrAsks, Awaits
<1>9. ASSUME NEW l \in Logins, login(l)  PROVE PollsOrAsks'
  <2>1. [call EXCEPT ![l] = Idle]["boot"] = call["boot"]
    BY <1>1, FlowsAssumption DEF IInv
  <2>2. CASE polling' = TRUE
    BY <2>2 DEF PollsOrAsks
  <2>3. CASE call' = Ended(l) /\ UNCHANGED <<polling, overlay>>
    <3>1. call'["boot"] = call["boot"]
      BY <2>1, <2>3 DEF Ended
    <3>2. QED
      BY <2>3, <3>1 DEF PollsOrAsks, Awaits
  <2>4. polling' = TRUE \/ (call' = Ended(l) /\ UNCHANGED <<polling, overlay>>)
    BY <1>9 DEF login, startPolling
  <2>5. QED
    BY <2>2, <2>3, <2>4
<1>10. ASSUME NEW due, Poll(due)  PROVE PollsOrAsks'
  BY <1>3, <1>10 DEF Poll, IInv
<1>11. ASSUME SignIn  PROVE PollsOrAsks'
  BY <1>11 DEF SignIn, PollsOrAsks, page
<1>12. ASSUME Acted  PROVE PollsOrAsks'
  BY <1>3, <1>12 DEF Acted, IInv
<1>13. ASSUME Act \/ Works \/ Expires \/ OtherPage \/ UNCHANGED vars  PROVE PollsOrAsks'
  BY <1>13 DEF Act, Works, Expires, OtherPage, vars, page, PollsOrAsks, Awaits
<1>14. QED
  BY <1>4, <1>5, <1>6, <1>7, <1>8, <1>9, <1>10, <1>11, <1>12, <1>13
     DEF Next, Progress, Continues, Tick, Visible

\* The page is never left idle (main.ts:46-48, 183-206).
THEOREM NeverIdle == Spec => []PollsOrAsks
<1>1. Init => PollsOrAsks
  <2>1. Init => call["boot"] = Call("session")
    BY DEF Init, Flows
  <2>2. Call("session") # Idle
    BY DEF Call, Idle
  <2>3. QED
    BY <2>1, <2>2 DEF PollsOrAsks, Awaits
<1>2. IInv /\ PollsOrAsks /\ [Next]_vars => IInv' /\ PollsOrAsks'
  BY NextIInv, NextPollsOrAsks
<1>3. QED
  BY <1>1, <1>2, InitIInv, PTL DEF Spec

-----------------------------------------------------------------------------
(* The type invariant.  A number nobody holds exists, because as many are held *)
(* as there are flows and a few more. *)

Typed ==
  /\ rev \in 1 .. MaxRevs
  /\ live \in SUBSET (Nat \ {0}) /\ cookie \in Nat /\ token \in Nat
  /\ call \in [Flows -> Calls \union {Idle}]
  /\ polling \in BOOLEAN /\ overlay \in BOOLEAN /\ acting \in BOOLEAN
  /\ offline \in BOOLEAN /\ crossed \in BOOLEAN
  /\ orphans \subseteq {f \in Logins : Awaits(f)}
  /\ mishaps \in 0 .. MaxMishaps
  /\ refreshing = (\E f \in Refreshers : Awaits(f))

LEMMA LeastExists ==
  ASSUME NEW S, S \subseteq Nat, S # {}
  PROVE  \E m \in S : \A k \in S : m <= k
<1>1. PICK m \in S : \A k \in S : ~(<<k, m>> \in OpToRel(<, Nat))
  BY WFMin, NatLessThanWellFounded, Zenon
<1>2. \A k \in S : ~(k < m)
  BY <1>1 DEF OpToRel
<1>3. QED
  BY <1>2

LEMMA HeldFinite == IsFiniteSet(Held)
<1> DEFINE Reads == {g \in InFlight : call[g].to \in {"login", "session"}}
           cs == [f \in InFlight |-> call[f].cookie]
           ds == [f \in Reads |-> call[f].data]
<1>1. IsFiniteSet(Flows)
  BY BoundsAssumption, FS_Union, FS_Singleton DEF BoundsAssumption, Flows
<1>2. IsFiniteSet(InFlight) /\ IsFiniteSet(Reads)
  <2>1. InFlight \subseteq Flows /\ Reads \subseteq Flows
    BY DEF InFlight
  <2>2. QED
    BY <1>1, <2>1, FS_Subset
<1>3. IsFiniteSet({call[f].cookie : f \in InFlight})
  <2>1. cs \in Surjection(InFlight, {call[f].cookie : f \in InFlight})
    BY DEF Surjection
  <2>2. QED
    BY <1>2, <2>1, FS_Surjection
<1>4. IsFiniteSet({call[f].data : f \in Reads})
  <2>1. ds \in Surjection(Reads, {call[f].data : f \in Reads})
    BY DEF Surjection
  <2>2. QED
    BY <1>2, <2>1, FS_Surjection
<1>5. IsFiniteSet({cookie, token})
  <2>1. {cookie, token} = {cookie} \union {token}
    OBVIOUS
  <2>2. IsFiniteSet({cookie})
    BY FS_Singleton
  <2>3. QED
    BY <2>1, <2>2, FS_AddElement
<1>6. QED
  <2>1. IsFiniteSet({cookie, token} \union {call[f].cookie : f \in InFlight})
    BY <1>3, <1>5, FS_Union
  <2>2. QED
    BY <1>4, <2>1, FS_Union DEF Held

\* The number of a new session is not 0, which is none.
LEMMA UnusedIs == Unused \in Nat \ {0} /\ Unused \notin Held
<1> DEFINE k == Cardinality(Held)
           free == {n \in 1 .. k + 1 : n \notin Held}
<1>1. k \in Nat
  BY HeldFinite, FS_CardinalityType
<1> HIDE DEF k
<1>2. free # {}
  <2>1. SUFFICES ASSUME free = {}  PROVE FALSE
    OBVIOUS
  <2>2. 1 .. k + 1 \subseteq Held
    BY <2>1
  <2>3. Cardinality(1 .. k + 1) <= k
    BY <2>2, HeldFinite, FS_Subset DEF k
  <2>4. Cardinality(1 .. k + 1) = k + 1
    BY <1>1, FS_Interval
  <2>5. QED
    BY <1>1, <2>3, <2>4
<1>3. free \subseteq Nat \ {0}
  BY <1>1
<1> HIDE DEF free
<1>4. \E m \in free : \A n \in free : m <= n
  BY <1>2, <1>3, LeastExists
<1>5. Min(free) \in free
  BY <1>4 DEF Min
<1>6. Unused = Min(free)
  BY DEF Unused, free, k
<1>7. QED
  BY <1>3, <1>5, <1>6 DEF free

LEMMA AwaitedCall ==
  ASSUME Typed, NEW f \in Flows, Awaits(f)
  PROVE  /\ call[f] \in Calls /\ call[f].data \in Nat /\ call[f].cookie \in Nat
         /\ call[f].status \in {"sent", "ok", "refused", "failed", "signed"}
         /\ call[f].to \in {"session", "list", "login"}
BY DEF Typed, Awaits, Calls

LEMMA CallTyped ==
  ASSUME cookie \in Nat, NEW to \in {"session", "list", "login"}
  PROVE  Call(to) \in Calls /\ Call(to) # Idle
BY DEF Call, Calls, Idle

LEMMA AnswerTyped ==
  ASSUME NEW to \in {"session", "list", "login"}, NEW data \in Nat,
         NEW status \in {"sent", "ok", "refused", "failed", "signed"}
  PROVE  Answer(to, status, data) \in Calls /\ Answer(to, status, data) # Idle
<1>1. Idle \in [to : {"none", to}, cookie : Nat, status : {"idle", status}, data : Nat]
  BY DEF Idle
<1>2. Answer(to, status, data) \in [to : {"none", to}, cookie : Nat, status : {"idle", status}, data : Nat]
  BY <1>1 DEF Answer
<1>3. /\ Answer(to, status, data).to = to
      /\ Answer(to, status, data).status = status
  BY <1>1 DEF Answer, Idle
<1> HIDE DEF Answer
<1>4. Answer(to, status, data) \in Calls
  BY <1>2, <1>3 DEF Calls
<1>5. QED
  BY <1>3, <1>4 DEF Idle

LEMMA FlowsDiffer ==
  /\ "boot" \in Flows /\ Refreshers \subseteq Flows /\ Logins \subseteq Flows
  /\ \A f \in Refreshers : f # "boot" /\ f \notin Logins
  /\ \A f \in Logins : f # "boot" /\ f \notin Refreshers
BY FlowsAssumption DEF Flows

\* An answer, or none: who awaited still does.
LEMMA AnswerKeepsTypes ==
  ASSUME Typed, NEW f \in Flows, Awaits(f), NEW data \in Nat,
         NEW status \in {"sent", "ok", "refused", "failed", "signed"}, Answers(f, status, data)
  PROVE  /\ call' \in [Flows -> Calls \union {Idle}]
         /\ \A g \in Flows : Awaits(g)' <=> Awaits(g)
<1>1. /\ Answer(call[f].to, status, data) \in Calls
      /\ Answer(call[f].to, status, data) # Idle
  BY AwaitedCall, AnswerTyped
<1>2. call' = [call EXCEPT ![f] = Answer(call[f].to, status, data)]
  BY DEF Answers
<1> DEFINE answer == Answer(call[f].to, status, data)
<1> HIDE DEF answer
<1>3. \A g \in Flows : call'[g] = IF g = f THEN answer ELSE call[g]
  BY <1>2 DEF Typed, answer
<1>4. QED
  BY <1>1, <1>2, <1>3 DEF Typed, Awaits, answer

\* The end of a flow.
LEMMA EndKeepsTypes ==
  ASSUME Typed, NEW f \in Flows
  PROVE  /\ Ended(f) \in [Flows -> Calls \union {Idle}]
         /\ Ended(f)[f] = Idle
         /\ \A g \in Flows : g # f => Ended(f)[g] = call[g]
BY DEF Typed, Ended

\* A refresh that is asked for.
LEMMA RefreshesKeepsTypes ==
  ASSUME IInv, Typed, NEW t, NEW cs \in [Flows -> Calls \union {Idle}],
         \A f \in Refreshers : cs[f] = call[f], Refreshes(cs, t)
  PROVE  /\ call' \in [Flows -> Calls \union {Idle}]
         /\ \A f \in Flows \ Refreshers : call'[f] = cs[f]
         /\ refreshing' \in BOOLEAN
         /\ refreshing' <=> \E f \in Refreshers : Awaits(f)'
<1>1. Refreshers \subseteq Flows
  BY FlowsDiffer
<1>2. CASE call' = cs /\ UNCHANGED refreshing
  <2>1. \A f \in Refreshers : Awaits(f)' <=> Awaits(f)
    BY <1>2 DEF Awaits
  <2>2. refreshing \in BOOLEAN /\ (refreshing <=> \E f \in Refreshers : Awaits(f))
    BY Zenon DEF Typed
  <2>3. QED
    BY <1>2, <2>1, <2>2, Zenon
<1>3. ASSUME NEW r \in Refreshers, refreshing' = TRUE,
             NEW to \in {"session", "list"}, call' = [cs EXCEPT ![r] = Call(to)]
      PROVE  /\ call' \in [Flows -> Calls \union {Idle}]
             /\ \A f \in Flows \ Refreshers : call'[f] = cs[f]
             /\ \E f \in Refreshers : Awaits(f)'
  <2>1. Call(to) \in Calls /\ Call(to) # Idle
    BY CallTyped DEF Typed
  <2> HIDE DEF Call
  <2>2. \A f \in Flows : call'[f] = IF f = r THEN Call(to) ELSE cs[f]
    BY <1>1, <1>3
  <2>3. call' \in [Flows -> Calls \union {Idle}]
    BY <1>3, <2>1
  <2>4. Awaits(r)'
    BY <1>1, <2>1, <2>2 DEF Awaits
  <2>5. QED
    BY <2>2, <2>3, <2>4
<1>4. (call' = cs /\ UNCHANGED refreshing)
      \/ \E r \in Refreshers, to \in {"session", "list"} :
           refreshing' = TRUE /\ call' = [cs EXCEPT ![r] = Call(to)]
  BY DEF Refreshes, Busy
<1>5. QED
  BY <1>2, <1>3, <1>4

LEMMA InitTyped == Init => Typed
<1> SUFFICES ASSUME Init  PROVE Typed
  OBVIOUS
<1>1. cookie \in Nat
  BY DEF Init
<1>2. Call("session") \in Calls /\ Call("session") # Idle
  BY <1>1, CallTyped
<1> HIDE DEF Call, Idle, Calls
<1>3. call \in [Flows -> Calls \union {Idle}]
  BY <1>2 DEF Init
<1>4. \A f \in Refreshers : ~Awaits(f)
  BY FlowsDiffer DEF Init, Awaits
<1>5. refreshing = (\E f \in Refreshers : Awaits(f))
  BY <1>4 DEF Init
<1>6. live \in SUBSET (Nat \ {0}) /\ rev \in 1 .. MaxRevs /\ mishaps \in 0 .. MaxMishaps
  BY <1>1, BoundsAssumption DEF Init, BoundsAssumption
<1>7. QED
  BY <1>1, <1>3, <1>5, <1>6 DEF Init, Typed

\* Steps that answer a flow, or leave the flows alone.
LEMMA SameFlows ==
  ASSUME Typed, \A g \in Flows : Awaits(g)' <=> Awaits(g), call' \in [Flows -> Calls \union {Idle}],
         UNCHANGED page, rev' \in 1 .. MaxRevs, live' \in SUBSET (Nat \ {0}), cookie' \in Nat,
         crossed' \in BOOLEAN, mishaps' \in 0 .. MaxMishaps
  PROVE  Typed'
<1>1. (\E f \in Refreshers : Awaits(f))' <=> \E f \in Refreshers : Awaits(f)
  BY FlowsDiffer
<1>2. (refreshing = (\E f \in Refreshers : Awaits(f)))'
  BY <1>1 DEF Typed, page
<1>3. (orphans \subseteq {f \in Logins : Awaits(f)})'
  BY FlowsDiffer DEF Typed, page
<1>4. QED
  BY <1>2, <1>3 DEF Typed, page

LEMMA ServesTyped == ASSUME Typed, NEW f \in Flows, Serves(f)  PROVE Typed'
<1>1. Awaits(f) /\ UNCHANGED <<cookie, page, crossed, mishaps>>
  BY DEF Serves
<1>2. \E status \in {"sent", "ok", "refused", "failed", "signed"}, data \in Nat : Answers(f, status, data)
  <2>1. call[f].cookie \in Nat /\ rev \in Nat
    BY <1>1, AwaitedCall DEF Typed
  <2>2. QED
    BY <2>1, UnusedIs DEF Serves
<1>3. /\ call' \in [Flows -> Calls \union {Idle}]
      /\ \A g \in Flows : Awaits(g)' <=> Awaits(g)
  BY <1>1, <1>2, AnswerKeepsTypes
<1>4. rev' = rev /\ live' \in SUBSET (Nat \ {0})
  BY UnusedIs DEF Serves, server, Typed
<1>5. QED
  BY <1>1, <1>3, <1>4, SameFlows DEF Typed

LEMMA SignsTyped == ASSUME Typed, NEW f \in Flows, Signs(f)  PROVE Typed'
<1>1. Awaits(f) /\ UNCHANGED <<server, page, crossed, mishaps>>
  BY DEF Signs
<1>2. call[f].data \in Nat
  BY <1>1, AwaitedCall
<1>3. cookie' \in Nat /\ Answers(f, "signed", call[f].data)
  BY <1>2 DEF Signs
<1>4. /\ call' \in [Flows -> Calls \union {Idle}]
      /\ \A g \in Flows : Awaits(g)' <=> Awaits(g)
  BY <1>1, <1>2, <1>3, AnswerKeepsTypes
<1>5. QED
  BY <1>1, <1>3, <1>4, SameFlows DEF Typed, server

LEMMA FailsTyped == ASSUME Typed, NEW f \in Flows, Fails(f)  PROVE Typed'
<1>1. Awaits(f) /\ UNCHANGED <<server, cookie, page>> /\ Answers(f, "failed", 0)
  BY DEF Fails
<1>2. crossed' \in BOOLEAN /\ mishaps' \in 0 .. MaxMishaps
  BY BoundsAssumption DEF Fails, Mishap, Typed, BoundsAssumption
<1>3. /\ call' \in [Flows -> Calls \union {Idle}]
      /\ \A g \in Flows : Awaits(g)' <=> Awaits(g)
  BY <1>1, AnswerKeepsTypes
<1>4. QED
  BY <1>1, <1>2, <1>3, SameFlows DEF Typed, server

\* Steps of the server, the user and other pages that send and answer nothing here.
LEMMA OthersTyped ==
  ASSUME Typed, Act \/ Works \/ Expires \/ OtherPage \/ UNCHANGED vars  PROVE Typed'
<1>1. /\ rev' \in 1 .. MaxRevs /\ live' \in SUBSET (Nat \ {0}) /\ cookie' \in Nat
      /\ crossed' \in BOOLEAN /\ mishaps' \in 0 .. MaxMishaps /\ acting' \in BOOLEAN
  <2>1. /\ rev \in 1 .. MaxRevs /\ live \in SUBSET (Nat \ {0}) /\ cookie \in Nat
        /\ crossed \in BOOLEAN /\ mishaps \in 0 .. MaxMishaps /\ acting \in BOOLEAN
        /\ MaxRevs \in Nat /\ MaxMishaps \in Nat
    BY BoundsAssumption DEF Typed, BoundsAssumption
  <2>2. rev' = rev \/ (rev' = rev + 1 /\ rev < MaxRevs)
    BY DEF Act, Works, Expires, OtherPage, Grown, vars, server
  <2>3. mishaps' = mishaps \/ (mishaps' = mishaps + 1 /\ mishaps < MaxMishaps)
    BY DEF Act, Works, Expires, OtherPage, Mishap, vars
  <2>4. live' \subseteq live \/ live' = (live \intersect Held) \union {Unused}
    BY DEF Act, Works, Expires, OtherPage, vars, server
  <2>5. cookie' = cookie \/ cookie' = Unused
    BY DEF Act, Works, Expires, OtherPage, vars
  <2>6. crossed' \in {crossed, TRUE} /\ acting' \in {acting, TRUE}
    BY DEF Act, Works, Expires, OtherPage, vars, page
  <2> HIDE DEF Unused, Held
  <2>7. rev' \in 1 .. MaxRevs /\ mishaps' \in 0 .. MaxMishaps
    BY <2>1, <2>2, <2>3
  <2>8. live' \in SUBSET (Nat \ {0}) /\ cookie' \in Nat
    BY <2>1, <2>4, <2>5, UnusedIs
  <2>9. crossed' \in BOOLEAN /\ acting' \in BOOLEAN
    BY <2>1, <2>6, Zenon
  <2>10. QED
    BY <2>7, <2>8, <2>9
<1>2. UNCHANGED <<call, token, polling, refreshing, overlay, orphans, offline>>
  BY DEF Act, Works, Expires, OtherPage, vars, page
<1>3. \A g : Awaits(g)' <=> Awaits(g)
  BY <1>2 DEF Awaits
<1>4. (refreshing = (\E f \in Refreshers : Awaits(f)))'
  BY <1>2, <1>3 DEF Typed
<1>5. QED
  BY <1>1, <1>2, <1>3, <1>4 DEF Typed

LEMMA AsksTyped == ASSUME IInv, Typed, Acted \/ \E due : Poll(due)  PROVE Typed'
<1>1. /\ Refreshes(call, token) /\ acting' \in BOOLEAN
      /\ UNCHANGED <<server, cookie, token, polling, overlay, orphans, offline, shown, crossed, mishaps>>
  BY DEF Acted, Poll, Typed
<1>2. /\ call' \in [Flows -> Calls \union {Idle}]
      /\ \A f \in Flows \ Refreshers : call'[f] = call[f]
      /\ refreshing' \in BOOLEAN
      /\ refreshing' <=> \E f \in Refreshers : Awaits(f)'
  BY <1>1, RefreshesKeepsTypes DEF Typed
<1>3. (orphans \subseteq {f \in Logins : Awaits(f)})'
  BY <1>1, <1>2, FlowsDiffer DEF Typed, Awaits
<1>4. (refreshing = (\E f \in Refreshers : Awaits(f)))'
  BY <1>2
<1>5. QED
  BY <1>1, <1>2, <1>3, <1>4 DEF Typed, server

LEMMA BootTyped == ASSUME IInv, Typed, boot  PROVE Typed'
<1>1. /\ Awaits("boot") /\ UNCHANGED <<server, cookie, acting, shown, crossed, mishaps>>
      /\ "boot" \in Flows
  BY FlowsDiffer DEF boot
<1>2. /\ Ended("boot") \in [Flows -> Calls \union {Idle}]
      /\ \A g \in Refreshers \union Logins : g \in Flows /\ Ended("boot")[g] = call[g]
  BY <1>1, EndKeepsTypes, FlowsDiffer
<1>3. /\ token' \in Nat /\ polling' \in BOOLEAN /\ overlay' \in BOOLEAN /\ offline' \in BOOLEAN
      /\ UNCHANGED orphans
  BY <1>1, AwaitedCall DEF boot, startPolling, showLogin, Typed
<1>4. /\ call' \in [Flows -> Calls \union {Idle}]
      /\ \A g \in Logins : call'[g] = call[g]
      /\ refreshing' \in BOOLEAN
      /\ refreshing' <=> \E f \in Refreshers : Awaits(f)'
  <2>1. CASE call' = Ended("boot") /\ UNCHANGED refreshing
    <3>1. \A f \in Refreshers : Awaits(f)' <=> Awaits(f)
      BY <1>2, <2>1 DEF Awaits
    <3>2. refreshing \in BOOLEAN /\ (refreshing <=> \E f \in Refreshers : Awaits(f))
      BY Zenon DEF Typed
    <3>3. refreshing' \in BOOLEAN /\ (refreshing' <=> \E f \in Refreshers : Awaits(f)')
      BY <2>1, <3>1, <3>2, Zenon
    <3>4. QED
      BY <1>2, <2>1, <3>3
  <2>2. CASE \E t : Refreshes(Ended("boot"), t)
    <3>1. \A g \in Logins : g \in Flows \ Refreshers
      BY FlowsDiffer
    <3>2. QED
      BY <1>2, <2>2, <3>1, RefreshesKeepsTypes
  <2>3. QED
    BY <2>1, <2>2 DEF boot, startPolling
<1>5. (orphans \subseteq {f \in Logins : Awaits(f)})'
  BY <1>3, <1>4 DEF Typed, Awaits
<1>6. (refreshing = (\E f \in Refreshers : Awaits(f)))'
  BY <1>4
<1>7. QED
  BY <1>1, <1>3, <1>4, <1>5, <1>6 DEF Typed, server

LEMMA RefreshTyped == ASSUME IInv, Typed, NEW r \in Refreshers, refresh(r)  PROVE Typed'
<1>1. /\ Awaits(r) /\ UNCHANGED <<server, cookie, acting, crossed, mishaps>>
      /\ r \in Flows /\ UNCHANGED rev
  BY FlowsDiffer DEF refresh, server
<1>2. /\ token' \in Nat /\ polling' \in BOOLEAN /\ overlay' \in BOOLEAN /\ offline' \in BOOLEAN
      /\ UNCHANGED orphans
  BY <1>1, AwaitedCall DEF refresh, showLogin, Typed
<1>3. refreshing \in BOOLEAN
  BY DEF IInv, SingleFlight
<1>4. ASSUME NEW c \in Calls \union {Idle}, call' = [call EXCEPT ![r] = c],
             (c # Idle /\ UNCHANGED refreshing) \/ (c = Idle /\ refreshing' = FALSE)
      PROVE  Typed'
  <2>1. \A g \in Flows : call'[g] = IF g = r THEN c ELSE call[g]
    BY <1>4 DEF Typed
  <2>2. call' \in [Flows -> Calls \union {Idle}]
    BY <1>4 DEF Typed
  <2>3. (orphans \subseteq {f \in Logins : Awaits(f)})'
    BY <1>2, <2>1, FlowsDiffer DEF Typed, Awaits
  <2>4. \A g \in Refreshers : g # r => ~Awaits(g)
    BY <1>1 DEF IInv, SingleFlight
  <2>5. refreshing = TRUE
    BY <1>1, <1>3 DEF IInv, SingleFlight
  <2>6. \A g \in Refreshers : Awaits(g)' <=> (g = r /\ c # Idle)
    BY <2>1, <2>4, FlowsDiffer DEF Awaits
  <2>7. (refreshing = (\E f \in Refreshers : Awaits(f)))'
    <3>1. CASE c # Idle /\ UNCHANGED refreshing
      BY <2>5, <2>6, <3>1
    <3>2. CASE c = Idle /\ refreshing' = FALSE
      BY <2>6, <3>2
    <3>3. QED
      BY <1>4, <3>1, <3>2
  <2>8. QED
    BY <1>1, <1>2, <1>3, <1>4, <2>2, <2>3, <2>7 DEF Typed, server
<1>5. Call("list") \in Calls /\ Call("list") # Idle
  BY CallTyped DEF Typed
<1>6. \/ call' = [call EXCEPT ![r] = Call("list")] /\ UNCHANGED refreshing
      \/ call' = [call EXCEPT ![r] = Idle] /\ refreshing' = FALSE
  BY DEF refresh, refreshEnds, Ended
<1> HIDE DEF Call, Idle, Calls
<1>7. CASE call' = [call EXCEPT ![r] = Call("list")] /\ UNCHANGED refreshing
  BY <1>4, <1>5, <1>7
<1>8. CASE call' = [call EXCEPT ![r] = Idle] /\ refreshing' = FALSE
  <2>1. Idle \in Calls \union {Idle}
    OBVIOUS
  <2>2. QED
    BY <1>4, <1>8, <2>1
<1>9. QED
  BY <1>6, <1>7, <1>8

LEMMA LoginTyped == ASSUME IInv, Typed, NEW l \in Logins, login(l)  PROVE Typed'
<1>1. /\ Awaits(l) /\ UNCHANGED <<server, cookie, acting, offline, shown, crossed, mishaps>>
      /\ l \in Flows
  BY FlowsDiffer DEF login
<1>2. /\ Ended(l) \in [Flows -> Calls \union {Idle}]
      /\ \A g \in Flows : g # l => Ended(l)[g] = call[g]
      /\ \A g \in Refreshers : g \in Flows /\ Ended(l)[g] = call[g]
  BY <1>1, EndKeepsTypes, FlowsDiffer
<1>3. token' \in Nat /\ polling' \in BOOLEAN /\ overlay' \in BOOLEAN
  BY <1>1, AwaitedCall DEF login, startPolling, Typed
<1>4. /\ call' \in [Flows -> Calls \union {Idle}]
      /\ \A g \in Logins : g # l => call'[g] = call[g]
      /\ refreshing' \in BOOLEAN
      /\ refreshing' <=> \E f \in Refreshers : Awaits(f)'
  <2>1. CASE call' = Ended(l) /\ UNCHANGED refreshing
    <3>1. \A f \in Refreshers : Awaits(f)' <=> Awaits(f)
      BY <1>2, <2>1 DEF Awaits
    <3>2. refreshing \in BOOLEAN /\ (refreshing <=> \E f \in Refreshers : Awaits(f))
      BY Zenon DEF Typed
    <3>3. refreshing' \in BOOLEAN /\ (refreshing' <=> \E f \in Refreshers : Awaits(f)')
      BY <2>1, <3>1, <3>2, Zenon
    <3>4. QED
      BY <1>2, <2>1, <3>3, FlowsDiffer
  <2>2. CASE \E t : Refreshes(Ended(l), t)
    <3>1. \A g \in Logins : g \in Flows \ Refreshers
      BY FlowsDiffer
    <3>2. QED
      BY <1>2, <2>2, <3>1, RefreshesKeepsTypes
  <2>3. QED
    BY <2>1, <2>2 DEF login, startPolling
<1>5. orphans' \subseteq {f \in Logins : Awaits(f)} \ {l}
  BY DEF login, Typed
<1>6. (orphans \subseteq {f \in Logins : Awaits(f)})'
  BY <1>4, <1>5 DEF Awaits
<1>7. (refreshing = (\E f \in Refreshers : Awaits(f)))'
  BY <1>4
<1>8. QED
  BY <1>1, <1>3, <1>4, <1>6, <1>7 DEF Typed, server

LEMMA SignInTyped == ASSUME IInv, Typed, SignIn  PROVE Typed'
<1> DEFINE l == CHOOSE f \in Logins : ~Awaits(f)
<1>1. l \in Logins
  BY DEF SignIn
<1>2. call' = [call EXCEPT ![l] = Call("login")] /\ UNCHANGED <<server, cookie, page>>
  BY DEF SignIn
<1> HIDE DEF l
<1>3. Call("login") \in Calls /\ Call("login") # Idle
  BY CallTyped DEF Typed
<1>4. crossed' \in BOOLEAN
  BY DEF SignIn
<1>5. mishaps' \in 0 .. MaxMishaps
  BY BoundsAssumption DEF SignIn, Mishap, Typed, BoundsAssumption
<1> HIDE DEF Call, Idle, Calls
<1>6. \A g \in Flows : call'[g] = IF g = l THEN Call("login") ELSE call[g]
  BY <1>2 DEF Typed
<1>7. call' \in [Flows -> Calls \union {Idle}]
  BY <1>2, <1>3 DEF Typed
<1>8. (orphans \subseteq {f \in Logins : Awaits(f)})'
  BY <1>2, <1>3, <1>6, FlowsDiffer DEF Typed, Awaits, page
<1>9. \A f \in Refreshers : Awaits(f)' <=> Awaits(f)
  BY <1>1, <1>6, FlowsDiffer DEF Awaits
<1>10. (refreshing = (\E f \in Refreshers : Awaits(f)))'
  BY <1>2, <1>9 DEF Typed, page
<1>11. QED
  BY <1>2, <1>4, <1>5, <1>7, <1>8, <1>10 DEF Typed, page, server

LEMMA NextTyped == ASSUME IInv, Typed, [Next]_vars  PROVE Typed'
<1>1. ASSUME NEW f \in Flows, Continues(f)  PROVE Typed'
  BY <1>1, BootTyped, RefreshTyped, LoginTyped DEF Continues
<1>2. ASSUME NEW f \in Flows, Progress(f) \/ Fails(f)  PROVE Typed'
  BY <1>1, <1>2, ServesTyped, SignsTyped, FailsTyped DEF Progress
<1>3. QED
  BY <1>2, SignInTyped, AsksTyped, OthersTyped DEF Next, Tick, Visible

LEMMA TypedIsTypeOK == ASSUME IInv, Typed  PROVE TypeOK
<1> DEFINE asking == {f \in Refreshers : Awaits(f)}
<1>1. asking = {} \/ \E f : asking = {f}
  BY DEF IInv, SingleFlight
<1>2. Cardinality(asking) \in {0, 1}
  BY <1>1, FS_EmptySet, FS_Singleton
<1>3. shown \in 0 .. MaxRevs
  BY BoundsAssumption DEF IInv, Typed, BoundsAssumption
<1>4. QED
  BY <1>2, <1>3 DEF TypeOK, Typed

\* The page keeps its types: at most one refresh runs and its flag says so, a
\* form that was closed is remembered only while its login is under way, and the
\* server never gives a new session the number that stands for none.
THEOREM PageTypeCorrect == Spec => []TypeOK
<1>1. Init => IInv /\ Typed
  BY InitIInv, InitTyped
<1>2. IInv /\ Typed /\ [Next]_vars => IInv' /\ Typed'
  BY NextIInv, NextTyped
<1>3. IInv /\ Typed => TypeOK
  BY TypedIsTypeOK
<1>4. QED
  BY <1>1, <1>2, <1>3, PTL DEF Spec
=============================================================================
