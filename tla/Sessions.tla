------------------------------ MODULE Sessions ------------------------------
(***************************************************************************)
(* Login sessions: the SessionStore of internal/app/auth.go and its file   *)
(* sessions.json, over restarts that may change the password.              *)
(*                                                                         *)
(* Every method holds the store's mutex throughout and is one action, the  *)
(* write of the file included; the handlers call one method each.  Tokens  *)
(* are numbered in the order they were issued.  A fingerprint stands for   *)
(* its password.  RevokeAll is called by no handler and is left out.       *)
(***************************************************************************)
EXTENDS FiniteSets, Clock

CONSTANTS
  Passwords,     \* values PASSWORD may have at a start
  NoPassword,    \* the fingerprint of a file that does not exist
  MaxSessions,   \* maxSessions
  SessionTTL,    \* sessionTTL, in ticks
  MaxTokens,     \* bound: sessions created
  MaxStops,      \* bound: exits, crashes and power losses
  MaxLosses,     \* bound: power losses that undo renames
  MaxFaults      \* bound: failing writes and reads of sessions.json

ASSUME BoundsAssumption ==
  /\ MaxSessions \in Nat \ {0} /\ SessionTTL \in Nat
  /\ MaxTokens \in Nat /\ MaxTime \in Nat
  /\ MaxStops \in Nat /\ MaxLosses \in Nat /\ MaxFaults \in Nat

ASSUME NoPasswordAssumption == NoPassword \notin Passwords

VARIABLES
  up,         \* the process serves requests
  password,   \* SessionStore.fp
  issued,     \* the last token issued
  session,    \* when each token was issued, and under which password
  sessions,   \* SessionStore.sessions: the tokens in memory
  file,       \* sessions.json: a fingerprint and the tokens
  older,      \* what it was before its renames, none of them synced
  loggedOut,  \* the tokens that were logged out (history)
  left        \* what remains of the bounds on stops and faults

process == <<up, password>>
store   == <<issued, session, sessions, file, older>>
vars    == <<process, clock, store, loggedOut, left>>

Tokens == 1..MaxTokens
File   == [password : Passwords \union {NoPassword}, tokens : SUBSET Tokens]
NoFile == [password |-> NoPassword, tokens |-> {}]

Live(k) == clock < session[k].at + SessionTTL

Fault == /\ left.faults > 0
         /\ left' = [left EXCEPT !.faults = @ - 1]

\* persistLocked: the file becomes S under this process's fingerprint, or the
\* write fails and it stays.
\* Seeded fault: the fingerprint is not written.
FileUnmarked(S) == [password |-> NoPassword, tokens |-> S]
FileOf(S)    == [password |-> password, tokens |-> S]
Persisted(S) == /\ file' = FileOf(S) /\ older' = older \union {file}
                /\ UNCHANGED left
NotPersisted == Fault /\ UNCHANGED <<file, older>>
Persist(S)   == Persisted(S) \/ NotPersisted

\* pruneLocked writes the file only when something expired.
Pruned == {k \in sessions : Live(k)}

\* Create makes room for one more session.
Oldest(S) == {k \in S : \A j \in S : session[k].at <= session[j].at}
\* Seeded faults: the limit is off by one; the youngest session is evicted.
RoomLate(S)     == IF Cardinality(S) <= MaxSessions THEN {S} ELSE {S \ {k} : k \in Oldest(S)}
RoomYoungest(S) == IF Cardinality(S) < MaxSessions THEN {S} ELSE {S \ {k} : k \in S \ Oldest(S)}
Room(S)         == IF Cardinality(S) < MaxSessions THEN {S} ELSE {S \ {k} : k \in Oldest(S)}

New == issued + 1

\* Seeded fault: the file is written before the session is added.
CreatedUnsaved(kept) ==
  /\ sessions' = kept \union {New}
  /\ Persisted(kept)
Created(kept) ==
  /\ sessions' = kept \union {New}
  /\ file' = FileOf(sessions')
  /\ older' = older \union {file} \union (IF sessions = Pruned THEN {} ELSE {FileOf(Pruned)})
  /\ UNCHANGED left

\* The write fails, but that of the prune before it may have succeeded.
NotCreated(kept) ==
  /\ sessions' = kept
  /\ Fault
  /\ \/ UNCHANGED <<file, older>>
     \/ sessions # Pruned /\ file' = FileOf(Pruned) /\ older' = older \union {file}

\* handleLogin, the password verified.
Create ==
  /\ up /\ issued < MaxTokens
  /\ issued' = New
  /\ session' = [session EXCEPT ![New] = [at |-> clock, password |-> password]]
  /\ \E kept \in Room(Pruned) : Created(kept) \/ NotCreated(kept)
  /\ UNCHANGED <<process, clock, loggedOut>>

\* Lookup drops an expired session; a live one it only reads.
LookupExpired(k) ==
  /\ up /\ k \in sessions /\ ~Live(k)
  /\ sessions' = sessions \ {k}
  /\ Persist(sessions')
  /\ UNCHANGED <<process, clock, issued, session, loggedOut>>

\* handleLogout.
Revoke(k) ==
  /\ up /\ k \in sessions
  /\ sessions' = sessions \ {k}
  /\ Persist(sessions')
  /\ loggedOut' = loggedOut \union {k}
  /\ UNCHANGED <<process, clock, issued, session>>

Prune ==
  /\ up /\ sessions # Pruned
  /\ sessions' = Pruned
  /\ Persist(Pruned)
  /\ UNCHANGED <<process, clock, issued, session, loggedOut>>

\* sessions.json is renamed into place but its directory is never synced: a
\* power loss may bring back any file that a rename has replaced.
Stop ==
  /\ up /\ up' = FALSE
  /\ left.stops > 0
  /\ \/ /\ left' = [left EXCEPT !.stops = @ - 1]
        /\ UNCHANGED <<file, older>>
     \/ /\ left.losses > 0
        /\ left' = [left EXCEPT !.stops = @ - 1, !.losses = @ - 1]
        /\ file' \in older /\ older' = {}
  /\ sessions' = {}
  /\ UNCHANGED <<password, clock, issued, session, loggedOut>>

\* Load.  Seeded fault: the fingerprint is not compared.
LoadedAny(p) == {k \in file.tokens : Live(k)}
Loaded(p)    == {k \in file.tokens : Live(k) /\ file.password = p}

\* A file that cannot be read is no sessions.
Start(p) ==
  /\ ~up /\ up' = TRUE
  /\ password' = p
  /\ \/ sessions' = Loaded(p) /\ UNCHANGED left
     \/ sessions' = {} /\ Fault
  /\ UNCHANGED <<clock, issued, session, file, older, loggedOut>>

Tick ==
  /\ clock < MaxTime
  /\ clock' = clock + 1
  /\ UNCHANGED <<process, store, loggedOut, left>>

Init ==
  /\ up = FALSE /\ password = NoPassword /\ clock = 0
  /\ issued = 0 /\ sessions = {} /\ file = NoFile /\ older = {}
  /\ session = [k \in Tokens |-> [at |-> 0, password |-> NoPassword]]
  /\ loggedOut = {}
  /\ left = [stops |-> MaxStops, losses |-> MaxLosses, faults |-> MaxFaults]

Next ==
  \/ Create \/ Prune \/ Stop \/ Tick
  \/ \E k \in Tokens : LookupExpired(k) \/ Revoke(k)
  \/ \E p \in Passwords : Start(p)

Spec == Init /\ [][Next]_vars

-----------------------------------------------------------------------------

\* Every variable holds a value of its kind; the store and the file hold only
\* tokens that have been issued, and a file with tokens has a fingerprint.
TypeOK ==
  /\ up \in BOOLEAN /\ password \in Passwords \union {NoPassword}
  /\ up => password \in Passwords
  /\ clock \in 0..MaxTime /\ issued \in 0..MaxTokens
  /\ session \in [Tokens -> [at : 0..MaxTime, password : Passwords \union {NoPassword}]]
  /\ file \in File /\ older \subseteq File
  /\ \A f \in {file} \union older :
       f.tokens \subseteq 1..issued /\ (f.tokens # {} => f.password \in Passwords)
  /\ sessions \subseteq 1..issued /\ loggedOut \subseteq 1..issued
  /\ left \in [stops : 0..MaxStops, losses : 0..MaxLosses, faults : 0..MaxFaults]

\* A session the store honours is in sessions.json, under the fingerprint a
\* restart with this password will look for, whichever writes have failed
\* before (SessionStore.Create takes a session back whose write fails).  The
\* end of the process signs nobody out; a power loss that brings an older file
\* back, or a Load that fails, may.
SessionsAreOnDisk ==
  up /\ sessions # {} => file.password = password /\ sessions \subseteq file.tokens

\* There are never more than maxSessions sessions, in memory or in any file a
\* restart may read: Load has no limit of its own.
WithinLimit ==
  /\ Cardinality(sessions) <= MaxSessions
  /\ \A f \in {file} \union older : Cardinality(f.tokens) <= MaxSessions

\* A live session leaves the store of a running process only because it is, or
\* once was, logged out, or to make room in a full store of live sessions, of which it is
\* the oldest.
SessionsLast ==
  [][up /\ up' => \A k \in sessions \ sessions' : Live(k) =>
        \/ k \in loggedOut'
        \/ /\ Cardinality(Pruned) >= MaxSessions
           /\ \A j \in sessions \intersect sessions' : session[k].at <= session[j].at]_vars

\* What Lookup answers.
Accepts(k) == up /\ k \in sessions /\ Live(k)

\* Whatever was saved, not saved or undone, the store honours only sessions of
\* the password it runs under (sessionFile: a changed password does not honor
\* "cookies minted under the old password").
OnlyThisPassword == \A k \in Tokens : Accepts(k) => session[k].password = password
=============================================================================
