------------------------------- MODULE Access -------------------------------
(***************************************************************************)
(* Who is let in: handleLogin, handleLogout and requireAuth of             *)
(* internal/app/http.go over the limiter, the session store and the        *)
(* address of the client, with the ends and starts of the process.         *)
(*                                                                         *)
(* A body that is no JSON, a foreign Origin or an opaque path ends the     *)
(* request before the limiter is asked.  After it has answered 415 to      *)
(* another content type, or 400 to a second JSON object, parseBody returns *)
(* nil and the handler goes on: the first is an attempt with the empty     *)
(* password, a wrong one, and the second is a login like any other.  Two   *)
(* logins of one client are judged in some order: Attempt holds its mutex  *)
(* over the check of the password.                                         *)
(***************************************************************************)
EXTENDS Sessions, RateLimiter

VARIABLE guessing  \* bound: a behaviour has wrong guesses and bearer tokens, or
                   \* else cookies, stops and faults

accessVars == <<vars, limiterVars, guessing>>

handleLogin(c) ==
  /\ up
  /\ \E k \in Keys(c) :
       \/ Denied(c, k) /\ UNCHANGED vars
       \/ guessing /\ Examined(c, k, "bad") /\ UNCHANGED vars
       \/ Examined(c, k, "login") /\ Create
  /\ UNCHANGED guessing

\* A bearer token; what it is let in to is in other modules.
requireAuth(c) ==
  /\ up /\ guessing
  /\ \E k \in Keys(c) : Denied(c, k) \/ Examined(c, k, "bad") \/ Examined(c, k, "token")
  /\ UNCHANGED <<vars, guessing>>

\* A cookie, for requireSession and for handleLogout.
Cookie(k) ==
  /\ ~guessing
  /\ LookupExpired(k) \/ Revoke(k)
  /\ UNCHANGED <<limiterVars, guessing>>

Stops == ~guessing /\ Stop /\ LimiterRestarts /\ UNCHANGED guessing

Runs == /\ Tick \/ Prune \/ \E p \in Passwords : Start(p)
        /\ UNCHANGED <<limiterVars, guessing>>

AccessInit == Init /\ LimiterInit /\ guessing \in BOOLEAN

AccessNext == /\ \/ \E c \in Clients : handleLogin(c) \/ requireAuth(c)
                 \/ \E k \in Tokens : Cookie(k)
                 \/ Stops \/ Runs
              /\ guessing => UNCHANGED left

AccessSpec == AccessInit /\ [][AccessNext]_accessVars

\* Every variable holds a value of its kind, no token is stored that was not
\* issued, no file with sessions lacks its fingerprint, and no list of attempts
\* outgrows its limit.
AccessTypeOK == TypeOK /\ LimiterTypeOK /\ guessing \in BOOLEAN
=============================================================================
