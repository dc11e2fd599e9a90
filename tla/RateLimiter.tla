---------------------------- MODULE RateLimiter ----------------------------
(***************************************************************************)
(* The RateLimiter of internal/app/auth.go: a list of attempts per client  *)
(* address, pruned whenever the address tries again, with one limit for    *)
(* failures and one for all that is recorded.  Attempt holds the mutex     *)
(* throughout and is one action, the check of the password or token        *)
(* included.  Everything is lost when the process ends.                    *)
(*                                                                         *)
(* No method looks at the order of a list, so a list is a set; the number  *)
(* of its entry in the log tells an attempt from others made at its time.  *)
(***************************************************************************)
EXTENDS Integers, FiniteSets, Clock, ClientAddress

CONSTANTS
  Window,        \* RateLimiter.window
  MaxFailures,
  MaxAttempts,
  MaxLog         \* bound: wrong guesses and logins

ASSUME LimitsAssumption ==
  /\ Window \in Nat \ {0} /\ MaxFailures \in Nat \ {0} /\ MaxAttempts \in Nat \ {0}
  /\ MaxLog \in Nat

VARIABLES
  attempts,  \* RateLimiter.attempts
  log,       \* every wrong guess and every login, by who made it (history)
  told       \* when a denied client was last told to come back (history)

limiterVars == <<attempts, log, told>>

\* Seeded faults: an attempt is dropped one tick too late, or too early.
YoungLate(a)  == clock - a.at <= Window
YoungEarly(a) == clock - a.at < Window - 1
Young(a) == clock - a.at < Window

Recent(list) == {a \in list : Young(a)}
Bad(list)    == {a \in list : a.bad}

\* checkLocked: the limits, and the wait until the oldest attempt that counts
\* leaves the window.  Seeded faults: the limit is off by one; the wait is
\* counted from the oldest attempt of any kind.
TooManyBad(list)  == Cardinality(Bad(list)) >= MaxFailures
TooManyLate(list) == Cardinality(list) > MaxAttempts
TooMany(list)     == Cardinality(list) >= MaxAttempts
Blocked(list)     == TooManyBad(list) \/ TooMany(list)

Earliest(list) == CHOOSE t \in {a.at : a \in list} : \A a \in list : t <= a.at
Remaining(list) == LET rest == Window - (clock - Earliest(list)) IN IF rest > 0 THEN rest ELSE 1
WaitAny(list) == Remaining(list)
Wait(list)    == IF TooManyBad(list) THEN Remaining(Bad(list)) ELSE Remaining(list)

\* What verify finds is bad, or a login, whose success is counted, or a bearer
\* token, whose success is not.  Seeded fault: that of a login is not either.
CountedBad(kind) == kind = "bad"
Counted(kind)    == kind # "token"

Made(kind) == [nr |-> Len(log) + 1, at |-> clock, bad |-> kind = "bad"]
Recorded(list, kind) == IF Counted(kind) THEN Recent(list \union {Made(kind)}) ELSE list

\* Attempt, from client c under the key k: turned away, or examined.
Denied(c, k) ==
  LET list == Recent(attempts[k]) IN
  /\ Blocked(list)
  /\ attempts' = [attempts EXCEPT ![k] = list]
  /\ told' = [told EXCEPT ![c] = clock + Wait(list)]
  /\ UNCHANGED log

Examined(c, k, kind) ==
  LET list == Recent(attempts[k]) IN
  /\ ~Blocked(list)
  /\ attempts' = [attempts EXCEPT ![k] = Recorded(list, kind)]
  /\ told' = [told EXCEPT ![c] = 0]
  /\ IF kind = "token" THEN UNCHANGED log
     ELSE Len(log) < MaxLog /\ log' = Append(log, [by |-> c, at |-> clock, kind |-> kind])

LimiterInit == /\ attempts = [k \in Addresses |-> {}]
               /\ log = <<>>
               /\ told = [c \in Clients |-> 0]

\* NewRateLimiter, in the next process.
LimiterRestarts == /\ attempts' = [k \in Addresses |-> {}]
                   /\ log' = <<>>
                   /\ told' = [c \in Clients |-> 0]

-----------------------------------------------------------------------------
(* The reference: what a client has used up, by the log alone. *)

Within(c, kinds, from, until) ==
  {n \in DOMAIN log : log[n].by = c /\ log[n].kind \in kinds /\ log[n].at \in from .. until - 1}
Count(c, kinds, from, until) == Cardinality(Within(c, kinds, from, until))

Exhausted(c) ==
  LET Lately(kinds) == Count(c, kinds, clock - Window + 1, clock + 1) IN
  Lately({"bad"}) >= MaxFailures \/ Lately({"bad", "login"}) >= MaxAttempts

Attempts == [nr : 1..MaxLog, at : 0..MaxTime, bad : BOOLEAN]
Entries  == [by : Clients, at : 0..MaxTime, kind : {"bad", "login"}]

\* Every variable holds a value of its kind, and no list outgrows the limit.
LimiterTypeOK ==
  /\ attempts \in [Addresses -> SUBSET Attempts]
  /\ \A k \in Addresses : Cardinality(attempts[k]) <= MaxAttempts
  /\ told \in [Clients -> 0..(MaxTime + Window)]
  /\ log \in Seq(Entries) /\ Len(log) <= MaxLog

\* In no stretch of time as long as the window does a client get more guesses
\* than MaxFailures wrong ones, or more than MaxAttempts wrong guesses and
\* logins together, however they are mixed, on whichever way they come and
\* whatever the client writes into the header (handleLogin: "minting sessions
\* must cost budget").
WindowBound ==
  \A c \in Clients, from \in 0..MaxTime :
    /\ Count(c, {"bad"}, from, from + Window) <= MaxFailures
    /\ Count(c, {"bad", "login"}, from, from + Window) <= MaxAttempts

\* At any moment the pruned list decides as the reference does: nobody is
\* turned away for what other clients did, for what has left the window, for
\* denied attempts, or for the successes of a bearer token (requireAuth: "a
\* polling client never burns the budget").  And a denied client is let in from
\* the moment it was told, and not before, whichever of the two limits it had
\* met (tooManyAttempts sends this wait).
DecidesAsReference ==
  \A c \in Clients :
    /\ Blocked(Recent(attempts[c])) <=> Exhausted(c)
    /\ told[c] # 0 => (Exhausted(c) <=> clock < told[c])
=============================================================================
