----------------------------- MODULE WebClient ------------------------------
(***************************************************************************)
(* One page of the web client (web/src/main.ts with api.ts, modals.ts and  *)
(* the list of ui.ts): polling, sign-in and the CSRF token, over requests  *)
(* that are delayed, answered in any order, or lost.                       *)
(*                                                                         *)
(* A flow is an async function that awaits one request at a time; a step   *)
(* of it runs from one await to the next.  The list of videos is the       *)
(* number of its version.  A session is a number, and so is its CSRF token *)
(* and its cookie, which all pages of the browser share; 0 is none.  A     *)
(* number nobody holds any more is used again.                             *)
(***************************************************************************)
EXTENDS Naturals, FiniteSets, FiniteSetsExt

CONSTANTS
  Refreshers,   \* flows of refresh(); the code never runs two at a time
  Logins,       \* flows of the login form, which may be sent again at once
  MaxRevs,      \* bound: versions of the list
  MaxMishaps    \* bound: sessions that end, requests that fail or change nothing,
                \* sign-ins on another page and logins sent while one is under
                \* way, together

ASSUME FlowsAssumption ==
  /\ "boot" \notin Refreshers \union Logins
  /\ Refreshers \intersect Logins = {}
ASSUME BoundsAssumption ==
  /\ IsFiniteSet(Refreshers) /\ IsFiniteSet(Logins)
  /\ MaxRevs \in Nat \ {0} /\ MaxMishaps \in Nat

VARIABLES
  rev, live,                  \* the server: the list, the sessions it honours
  cookie,                     \* the browser
  call,                       \* flow -> the request it awaits
  token,                      \* csrfToken, api.ts
  polling,                    \* pollTimer # 0
  refreshing,
  overlay,                    \* the login form is on the page
  orphans,                    \* logins sent from a form that has been closed
  acting,                     \* a submit, delete or retry is on its way
  offline,                    \* the banner
  shown,                      \* the version of the list on the page
  crossed,                    \* a cookie was set and its token did not reach the page,
                              \* or the user signed in with another token on its way
  mishaps

server == <<rev, live>>
page == <<token, polling, refreshing, overlay, orphans, acting, offline, shown>>
vars == <<server, cookie, call, page, crossed, mishaps>>

Flows == {"boot"} \union Refreshers \union Logins
Idle == [to |-> "none", cookie |-> 0, status |-> "idle", data |-> 0]

\* "refused" is 401, "failed" any other status or none at all; "signed" is a login
\* whose headers have come and whose body has not.
Call(to) ==
  [to |-> to, status |-> "sent", data |-> 0,
   cookie |-> IF to = "login" THEN 0 ELSE cookie]

Awaits(f) == call[f] # Idle
InFlight == {f \in Flows : Awaits(f)}
Held == {cookie, token} \union {call[f].cookie : f \in InFlight}
          \union {call[f].data : f \in {g \in InFlight : call[g].to \in {"login", "session"}}}
Unused == Min({n \in 1 .. Cardinality(Held) + 1 : n \notin Held})

Ended(f) == [call EXCEPT ![f] = Idle]
Answer(to, status, data) == [Idle EXCEPT !.to = to, !.status = status, !.data = data]
Answers(f, status, data) == call' = [call EXCEPT ![f] = Answer(@.to, status, data)]
-----------------------------------------------------------------------------
\* refresh() up to its first await, in a step that leaves the calls cs and the token t.
\* Seeded fault: the flag is not looked at.
NeverBusy == FALSE

Busy == refreshing

\* Seeded fault: no ensureSession.
RefreshesUnchecked(cs, t) ==
  LET free == {f \in Refreshers : cs[f] = Idle} IN
  IF Busy \/ free = {} THEN call' = cs /\ UNCHANGED refreshing
  ELSE call' = [cs EXCEPT ![CHOOSE f \in free : TRUE] = Call("list")] /\ refreshing' = TRUE

Refreshes(cs, t) ==
  LET free == {f \in Refreshers : cs[f] = Idle}
      sent == Call(IF t = 0 THEN "session" ELSE "list")
  IN IF Busy \/ free = {} THEN call' = cs /\ UNCHANGED refreshing
     ELSE /\ call' = [cs EXCEPT ![CHOOSE f \in free : TRUE] = sent]
          /\ refreshing' = TRUE

\* Seeded fault: no timer when a refresh is already under way.
startPollingIfFree(cs, t) == (IF Busy THEN UNCHANGED polling ELSE polling' = TRUE) /\ Refreshes(cs, t)

startPolling(cs, t) == polling' = TRUE /\ Refreshes(cs, t)

showLogin == overlay' = TRUE /\ UNCHANGED orphans

boot ==
  LET c == call["boot"] IN
  /\ Awaits("boot")
  /\ \/ /\ c.status = "ok"
        /\ token' = c.data
        /\ startPolling(Ended("boot"), token')
        /\ UNCHANGED <<overlay, orphans, offline>>
     \/ /\ c.status = "refused"
        /\ showLogin
        /\ call' = Ended("boot")
        /\ UNCHANGED <<token, polling, refreshing, offline>>
     \/ /\ c.status = "failed"
        /\ offline' = TRUE
        /\ startPolling(Ended("boot"), token)
        /\ UNCHANGED <<token, overlay, orphans>>
  /\ UNCHANGED <<server, cookie, acting, shown, crossed, mishaps>>

\* The rest of refresh(): ensureSession, the list, and the two ways it fails.
\* Seeded fault: no finally.
refreshEndsAnswered(f) ==
  /\ call' = Ended(f)
  /\ refreshing' = (call[f].status = "failed")

refreshEnds(f) == refreshing' = FALSE /\ call' = Ended(f)

refresh(f) ==
  LET c == call[f] IN
  /\ Awaits(f)
  /\ \/ /\ c.status = "ok" /\ c.to = "session"
        /\ token' = c.data
        /\ call' = [call EXCEPT ![f] = Call("list")]
        /\ UNCHANGED <<polling, refreshing, overlay, orphans, offline, shown>>
     \/ /\ c.status = "ok" /\ c.to = "list"
        /\ offline' = FALSE /\ shown' = c.data
        /\ refreshEnds(f)
        /\ UNCHANGED <<token, polling, overlay, orphans>>
     \/ /\ c.status = "refused"
        /\ polling' = FALSE
        /\ showLogin
        /\ refreshEnds(f)
        /\ UNCHANGED <<token, offline, shown>>
     \/ /\ c.status = "failed"
        /\ offline' = TRUE
        /\ refreshEnds(f)
        /\ UNCHANGED <<token, polling, overlay, orphans, shown>>
  /\ UNCHANGED <<server, cookie, acting, crossed, mishaps>>

\* The callback of setInterval, and visibilitychange; while the timer runs they do
\* the same.
Poll(due) ==
  /\ due /\ ~Busy
  /\ Refreshes(call, token)
  /\ UNCHANGED <<server, cookie, token, polling, overlay, orphans, acting, offline, shown, crossed, mishaps>>

Tick == Poll(polling)
Visible == Poll(~polling)

Mishap == mishaps < MaxMishaps /\ mishaps' = mishaps + 1

\* The login form: it is not disabled while a login is under way.
SignIn ==
  /\ overlay
  /\ \E f \in Logins : ~Awaits(f)
  /\ IF \E f \in Logins : Awaits(f) THEN Mishap ELSE UNCHANGED mishaps
  /\ call' = [call EXCEPT ![CHOOSE f \in Logins : ~Awaits(f)] = Call("login")]
  /\ crossed' = (crossed \/ \E f \in Flows : call[f].to \in {"login", "session"})
  /\ UNCHANGED <<server, cookie, page>>

login(f) ==
  LET c == call[f] IN
  /\ Awaits(f)
  /\ \/ /\ c.status = "signed"
        /\ token' = c.data
        /\ startPolling(Ended(f), token')
        /\ IF f \in orphans THEN orphans' = orphans \ {f} /\ UNCHANGED overlay
           ELSE orphans' = {g \in Logins : Awaits(g)} \ {f} /\ overlay' = FALSE
     \/ /\ c.status \in {"refused", "failed"}
        /\ call' = Ended(f)
        /\ orphans' = orphans \ {f}
        /\ UNCHANGED <<token, polling, refreshing, overlay>>
  /\ UNCHANGED <<server, cookie, acting, offline, shown, crossed, mishaps>>

Grown == rev' = rev + 1 /\ rev < MaxRevs

\* Submit, delete and retry: the server changes the list if the session is live and
\* the token is its own; when the answer has come, the page asks for the list.  A
\* submit or a delete that fails shows its error and touches nothing here; a retry
\* that fails asks for the list all the same, and so does a duplicate submit.
Act ==
  /\ ~acting /\ acting' = TRUE
  /\ \/ cookie \in live /\ token = cookie /\ Grown /\ UNCHANGED mishaps
     \/ Mishap /\ UNCHANGED rev
  /\ UNCHANGED <<live, cookie, call, token, polling, refreshing, overlay, orphans, offline, shown,
                 crossed>>

Acted ==
  /\ acting /\ acting' = FALSE
  /\ Refreshes(call, token)
  /\ UNCHANGED <<server, cookie, token, polling, overlay, orphans, offline, shown, crossed, mishaps>>
-----------------------------------------------------------------------------
\* The server's side: requireSession, handleSession, handleLogin and the job handlers.
Honoured(c) == c.cookie \in live

Serves(f) ==
  LET c == call[f] IN
  /\ Awaits(f) /\ c.status = "sent"
  /\ \/ /\ c.to = "session"
        /\ IF Honoured(c) THEN Answers(f, "ok", c.cookie) ELSE Answers(f, "refused", 0)
        /\ UNCHANGED server
     \/ /\ c.to = "list"
        /\ IF Honoured(c) THEN Answers(f, "ok", rev) ELSE Answers(f, "refused", 0)
        /\ UNCHANGED server
     \/ /\ c.to = "login"
        /\ Answers(f, "ok", Unused)
        /\ live' = (live \intersect Held) \union {Unused}
        /\ UNCHANGED rev
  /\ UNCHANGED <<cookie, page, crossed, mishaps>>

\* The workers and other clients.
Works == Grown /\ UNCHANGED <<live, cookie, call, page, crossed, mishaps>>

\* By age, by a logout elsewhere, by eviction or by a restart that lost it.
Expires ==
  /\ Mishap
  /\ \E s \in live \intersect Held : live' = live \ {s}
  /\ UNCHANGED <<rev, cookie, call, page, crossed>>

\* The browser: the headers of a login set the cookie before the page hears of it.
Signs(f) ==
  /\ Awaits(f) /\ call[f].to = "login" /\ call[f].status = "ok"
  /\ cookie' = call[f].data
  /\ Answers(f, "signed", call[f].data)
  /\ UNCHANGED <<server, page, crossed, mishaps>>

OtherPage ==
  /\ Mishap
  /\ cookie' = Unused
  /\ live' = (live \intersect Held) \union {Unused}
  /\ crossed' = TRUE
  /\ UNCHANGED <<rev, call, page>>

\* A lost request or answer, or a status other than 200 and 401; for a login, a
\* wrong password too.  A read that loses its answer has lost its request.
Loses(f) == \/ call[f].status = "sent"
            \/ call[f].to = "login" /\ call[f].status \in {"ok", "signed"}

Fails(f) ==
  /\ Mishap
  /\ Awaits(f) /\ Loses(f)
  /\ Answers(f, "failed", 0)
  /\ crossed' = (crossed \/ call[f].status = "signed")
  /\ UNCHANGED <<server, cookie, page>>
-----------------------------------------------------------------------------
Init ==
  /\ rev = 1 /\ shown = 0
  /\ cookie \in {0, 1}
  /\ live \in SUBSET ({cookie} \ {0})
  /\ call = [f \in Flows |-> IF f = "boot" THEN Call("session") ELSE Idle]
  /\ token = 0
  /\ polling = FALSE /\ refreshing = FALSE /\ overlay = FALSE /\ offline = FALSE
  /\ acting = FALSE
  /\ orphans = {}
  /\ crossed = FALSE
  /\ mishaps = 0

Continues(f) ==
  \/ f = "boot" /\ boot
  \/ f \in Refreshers /\ refresh(f)
  \/ f \in Logins /\ login(f)

Progress(f) == Serves(f) \/ Signs(f) \/ Continues(f)
SignsIn == ~(\E f \in Logins : Awaits(f)) /\ SignIn

Next ==
  \/ \E f \in Flows : Progress(f) \/ Fails(f)
  \/ Tick \/ Visible
  \/ SignIn
  \/ Act \/ Acted
  \/ Works \/ Expires \/ OtherPage

Spec == Init /\ [][Next]_vars

\* Every read is answered or given up, and of the logins under way one is; the timer
\* fires, and the user signs in when asked to.
FairSpec ==
  /\ Spec
  /\ WF_vars(Progress("boot"))
  /\ WF_vars(\E f \in Refreshers : Progress(f))
  /\ WF_vars(\E f \in Logins : Progress(f))
  /\ WF_vars(Tick)
  /\ WF_vars(SignsIn)
-----------------------------------------------------------------------------
Calls == [to : {"session", "list", "login"}, cookie : Nat,
          status : {"sent", "ok", "refused", "failed", "signed"}, data : Nat]

\* The type invariant.  At most one refresh runs, and its flag says so.
TypeOK ==
  /\ rev \in 1 .. MaxRevs /\ shown \in 0 .. MaxRevs
  /\ live \in SUBSET (Nat \ {0}) /\ cookie \in Nat /\ token \in Nat
  /\ call \in [Flows -> Calls \union {Idle}]
  /\ polling \in BOOLEAN /\ overlay \in BOOLEAN /\ acting \in BOOLEAN
  /\ offline \in BOOLEAN /\ crossed \in BOOLEAN
  /\ orphans \subseteq {f \in Logins : Awaits(f)}
  /\ mishaps \in 0 .. MaxMishaps
  /\ refreshing = (\E f \in Refreshers : Awaits(f))
  /\ Cardinality({f \in Refreshers : Awaits(f)}) <= 1

\* Answers come in any order, polls, returns to the page and finished actions ask
\* for the list at any time, and yet the page never goes back to an older list
\* (main.ts:37-40).
ListNeverGoesBack == [][shown' >= shown]_vars

\* Once it has started, the page polls or asks for the password: no order of late
\* 401s, failures and sign-ins leaves it idle (main.ts:46-48, 183-206).
PollsOrAsks == ~Awaits("boot") => polling \/ overlay

UpToDate == shown = rev /\ ~offline /\ ~overlay

\* If every cookie came with its token to this page, and no other answer with a
\* token crossed a sign-in, the token is the cookie's.
HasToken == token # 0 /\ (crossed \/ token = cookie)

\* When the list, the sessions and the network have come to rest, the page shows
\* the last list, without the banner and without the login form (main.ts:37-62), and
\* holds a CSRF token ("the token lands as soon as the connection recovers",
\* main.ts:25-29).
CatchesUp == <>[](UpToDate /\ HasToken)
=============================================================================
