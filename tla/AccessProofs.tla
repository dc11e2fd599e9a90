---------------------------- MODULE AccessProofs ----------------------------
(***************************************************************************)
(* The promises of the session store, and of the login rate limiter        *)
(* behind the handlers of Access, for any clients, proxies, passwords,     *)
(* limits, lifetimes and bounds.                                           *)
(*                                                                         *)
(* SessionsAreOnDisk is inductive by itself.  OnlyThisPassword is not: a   *)
(* restart takes sessions from a file that may be older than the last one  *)
(* written, so Marked says of all three copies that the sessions in them   *)
(* are of the password they are kept under.                                *)
(*                                                                         *)
(* The limiter forgets what has left the window and WindowBound speaks of  *)
(* all that was ever tried.  LimiterInv ties its lists to the log: a list  *)
(* holds attempts of its client only, and all of the young ones.           *)
(***************************************************************************)
EXTENDS Access, FiniteSetTheorems, TLAPS

LEMMA StepCases ==
  ASSUME [Next]_vars
  PROVE  \/ Create \/ Prune \/ Stop \/ Tick \/ UNCHANGED vars
         \/ \E k \in Tokens : LookupExpired(k) \/ Revoke(k)
         \/ \E p \in Passwords : Start(p)
  BY DEF Next

LEMMA PrunedKeeps == Pruned \subseteq sessions
  BY DEF Pruned

LEMMA RoomKeeps == ASSUME NEW kept \in Room(Pruned) PROVE kept \subseteq Pruned
  BY DEF Room

-----------------------------------------------------------------------------
(* SessionsAreOnDisk. *)

LEMMA OnDiskStep == ASSUME SessionsAreOnDisk, [Next]_vars PROVE SessionsAreOnDisk'
<1> USE DEF SessionsAreOnDisk, process, FileOf, Persist, Persisted, NotPersisted
<1>1. CASE Create
  <2>1. PICK kept \in Room(Pruned) : Created(kept) \/ NotCreated(kept)
    BY <1>1 DEF Create
  <2>2. kept \subseteq Pruned /\ Pruned \subseteq sessions
    BY RoomKeeps, PrunedKeeps
  <2>3. CASE Created(kept)
    BY <1>1, <2>3 DEF Created, Create
  <2>4. CASE NotCreated(kept)
    BY <1>1, <2>2, <2>4 DEF NotCreated, Create
  <2> QED
    BY <2>1, <2>3, <2>4
<1>2. ASSUME NEW k \in Tokens, LookupExpired(k) \/ Revoke(k) PROVE SessionsAreOnDisk'
  <2>1. up /\ up' = up /\ password' = password /\ sessions' \subseteq sessions
    BY <1>2 DEF LookupExpired, Revoke
  <2>2. CASE Persisted(sessions')
    BY <2>1, <2>2
  <2>3. CASE NotPersisted
    BY <2>1, <2>3
  <2> QED
    BY <1>2, <2>2, <2>3 DEF LookupExpired, Revoke
<1>3. CASE Prune
  BY <1>3, PrunedKeeps DEF Prune
<1>4. CASE Stop
  BY <1>4 DEF Stop
<1>5. ASSUME NEW p \in Passwords, Start(p) PROVE SessionsAreOnDisk'
  BY <1>5 DEF Start, Loaded
<1>6. CASE Tick \/ UNCHANGED vars
  BY <1>6 DEF Tick, vars, store
<1> QED
  BY <1>1, <1>2, <1>3, <1>4, <1>5, <1>6, StepCases

\* Whichever writes of sessions.json have failed before, a restart with the
\* same password finds every session the store honours, unless the power was lost.
THEOREM SessionsSurvive == Spec => []SessionsAreOnDisk
<1>1. Init => SessionsAreOnDisk
  BY DEF Init, SessionsAreOnDisk
<1> QED
  BY <1>1, OnDiskStep, PTL DEF Spec

-----------------------------------------------------------------------------
(* TypeOK. *)

LEMMA FaultTyped ==
  ASSUME TypeOK, Fault
  PROVE  left' \in [stops : 0..MaxStops, losses : 0..MaxLosses, faults : 0..MaxFaults]
  BY BoundsAssumption DEF BoundsAssumption, TypeOK, Fault

LEMMA IssuedAreTokens == ASSUME TypeOK PROVE 1..issued \subseteq Tokens
  BY BoundsAssumption DEF BoundsAssumption, TypeOK, Tokens

LEMMA FileTyped ==
  ASSUME password \in Passwords, NEW S \in SUBSET Tokens
  PROVE  FileOf(S) \in File /\ FileOf(S).tokens = S /\ FileOf(S).password = password
  BY DEF FileOf, File

\* A write of fewer sessions keeps the types.
LEMMA PersistTyped ==
  ASSUME TypeOK, up, sessions' \subseteq sessions, Persist(sessions'),
         UNCHANGED <<process, clock, issued, session>>,
         loggedOut' \subseteq 1..issued
  PROVE  TypeOK'
<1>1. left' \in [stops : 0..MaxStops, losses : 0..MaxLosses, faults : 0..MaxFaults]
  BY FaultTyped DEF Persist, Persisted, NotPersisted, TypeOK
<1>2. sessions' \in SUBSET Tokens
  BY IssuedAreTokens DEF TypeOK
<1>3. file' \in {FileOf(sessions'), file} /\ older' \subseteq {file} \union older
  BY DEF Persist, Persisted, NotPersisted
<1>4. FileOf(sessions') \in File /\ FileOf(sessions').tokens = sessions'
      /\ FileOf(sessions').password \in Passwords
  BY <1>2, FileTyped DEF TypeOK
<1>5. \A f \in {file'} \union older' : f \in File /\ f.tokens \subseteq 1..issued
                                  /\ (f.tokens # {} => f.password \in Passwords)
  BY <1>3, <1>4 DEF TypeOK
<1> QED
  BY <1>1, <1>5 DEF TypeOK, process

LEMMA CreateTyped == ASSUME TypeOK, Create PROVE TypeOK'
<1>1. PICK kept \in Room(Pruned) : Created(kept) \/ NotCreated(kept)
  BY DEF Create
<1>2. kept \subseteq 1..issued /\ Pruned \subseteq 1..issued
  BY RoomKeeps, PrunedKeeps DEF TypeOK
<1>3. issued' = New /\ New \in Tokens /\ issued \in Nat /\ New = issued + 1
  BY BoundsAssumption DEF BoundsAssumption, Create, TypeOK, New, Tokens
<1>4. 1..issued \subseteq 1..issued' /\ New \in 1..issued' /\ issued' \in 0..MaxTokens
  BY <1>3, BoundsAssumption DEF BoundsAssumption, Tokens
<1>5. 1..issued' \subseteq Tokens
  BY <1>4, BoundsAssumption DEF BoundsAssumption, Tokens
<1>6. password \in Passwords /\ UNCHANGED <<up, password, clock, loggedOut>>
  BY DEF Create, TypeOK, process
<1>7. session' \in [Tokens -> [at : 0..MaxTime, password : Passwords \union {NoPassword}]]
  BY <1>6 DEF Create, TypeOK
<1>8. \A S \in SUBSET (1..issued') :
         FileOf(S) \in File /\ FileOf(S).tokens = S /\ FileOf(S).password \in Passwords
  BY <1>5, <1>6, FileTyped
<1>9. kept \union {New} \in SUBSET (1..issued') /\ Pruned \in SUBSET (1..issued')
  BY <1>2, <1>4
<1>10. sessions' \subseteq 1..issued'
  BY <1>1, <1>4, <1>2 DEF Created, NotCreated
<1>11. file' \in {FileOf(kept \union {New}), FileOf(Pruned), file}
       /\ older' \subseteq {FileOf(Pruned), file} \union older
  BY <1>1 DEF Created, NotCreated
<1>12. \A f \in {file'} \union older' : f \in File /\ f.tokens \subseteq 1..issued'
                                   /\ (f.tokens # {} => f.password \in Passwords)
  BY <1>4, <1>8, <1>9, <1>11 DEF TypeOK
<1>13. left' \in [stops : 0..MaxStops, losses : 0..MaxLosses, faults : 0..MaxFaults]
  BY <1>1, FaultTyped DEF Created, NotCreated, TypeOK
<1> QED
  BY <1>4, <1>6, <1>7, <1>10, <1>12, <1>13 DEF TypeOK

LEMMA TypeStep == ASSUME TypeOK, [Next]_vars PROVE TypeOK'
<1> USE DEF store, process
<1>1. CASE Create
  BY <1>1, CreateTyped
<1>2. ASSUME NEW k \in Tokens, LookupExpired(k) PROVE TypeOK'
  BY <1>2, PersistTyped DEF LookupExpired, TypeOK
<1>3. ASSUME NEW k \in Tokens, Revoke(k) PROVE TypeOK'
  BY <1>3, PersistTyped DEF Revoke, TypeOK
<1>4. CASE Prune
  BY <1>4, PrunedKeeps, PersistTyped DEF Prune, TypeOK
<1>5. CASE Stop
  <2>1. left \in [stops : 0..MaxStops, losses : 0..MaxLosses, faults : 0..MaxFaults]
        /\ left.stops > 0
    BY <1>5 DEF Stop, TypeOK
  <2>2. left.stops - 1 \in 0..MaxStops
    BY <2>1, BoundsAssumption DEF BoundsAssumption
  <2>3. left' \in [stops : 0..MaxStops, losses : 0..MaxLosses, faults : 0..MaxFaults]
    <3>1. CASE left' = [left EXCEPT !.stops = @ - 1]
      BY <2>1, <2>2, <3>1
    <3>2. CASE left.losses > 0 /\ left' = [left EXCEPT !.stops = @ - 1, !.losses = @ - 1]
      <4>1. left.losses - 1 \in 0..MaxLosses
        BY <2>1, <3>2, BoundsAssumption DEF BoundsAssumption
      <4> QED
        BY <2>1, <2>2, <3>2, <4>1
    <3> QED
      BY <1>5, <3>1, <3>2 DEF Stop
  <2>4. file' \in {file} \union older /\ older' \subseteq older
    BY <1>5 DEF Stop
  <2>5. \A f \in {file'} \union older' : f \in File /\ f.tokens \subseteq 1..issued
                                    /\ (f.tokens # {} => f.password \in Passwords)
    BY <2>4 DEF TypeOK
  <2>6. up' = FALSE /\ sessions' = {}
        /\ UNCHANGED <<password, clock, issued, session, loggedOut>>
    BY <1>5 DEF Stop
  <2> QED
    BY <2>3, <2>5, <2>6 DEF TypeOK
<1>6. ASSUME NEW p \in Passwords, Start(p) PROVE TypeOK'
  <2>1. left' \in [stops : 0..MaxStops, losses : 0..MaxLosses, faults : 0..MaxFaults]
    BY <1>6, FaultTyped DEF Start, TypeOK
  <2>2. sessions' \subseteq 1..issued
    BY <1>6 DEF Start, Loaded, TypeOK
  <2> QED
    BY <1>6, <2>1, <2>2 DEF Start, TypeOK
<1>7. CASE Tick
  BY <1>7, BoundsAssumption DEF BoundsAssumption, Tick, TypeOK
<1>8. CASE UNCHANGED vars
  BY <1>8 DEF vars, TypeOK
<1> QED
  BY <1>1, <1>2, <1>3, <1>4, <1>5, <1>6, <1>7, <1>8, StepCases

LEMMA TypeInit == Init => TypeOK
<1> SUFFICES ASSUME Init PROVE TypeOK
  OBVIOUS
<1>1. NoFile \in File /\ NoFile.tokens = {}
  BY DEF NoFile, File
<1>2. /\ session \in [Tokens -> [at : 0..MaxTime, password : Passwords \union {NoPassword}]]
      /\ clock \in 0..MaxTime /\ issued \in 0..MaxTokens
      /\ left \in [stops : 0..MaxStops, losses : 0..MaxLosses, faults : 0..MaxFaults]
  BY BoundsAssumption DEF BoundsAssumption, Init
<1>3. \A f \in {file} \union older : f \in File /\ f.tokens = {}
  BY <1>1 DEF Init
<1>4. \A S \in {sessions, file.tokens, older, loggedOut} : S = {}
  BY <1>1 DEF Init
<1>5. up = FALSE /\ password = NoPassword
  BY DEF Init
<1> QED
  BY <1>2, <1>3, <1>4, <1>5 DEF TypeOK

\* Passwords, entries and files keep their types; no token is stored unissued,
\* and no file with sessions lacks its fingerprint.
THEOREM SessionsTypeCorrect == Spec => []TypeOK
  BY TypeInit, TypeStep, PTL DEF Spec

-----------------------------------------------------------------------------
(* OnlyThisPassword. *)

Marked ==
  /\ up => \A k \in sessions : session[k].password = password
  /\ \A f \in {file} \union older : \A k \in f.tokens : session[k].password = f.password

\* Entries of issued tokens are never rewritten.
LEMMA EntriesStay ==
  ASSUME TypeOK, Create, NEW k \in 1..issued PROVE session'[k] = session[k]
  BY BoundsAssumption DEF BoundsAssumption, TypeOK, Create, New, Tokens

LEMMA CreateMarked == ASSUME TypeOK, Marked, Create PROVE Marked'
<1>1. PICK kept \in Room(Pruned) : Created(kept) \/ NotCreated(kept)
  BY DEF Create
<1>2. kept \subseteq sessions /\ Pruned \subseteq sessions /\ sessions \subseteq 1..issued
  BY RoomKeeps, PrunedKeeps DEF TypeOK
<1>3. session'[New].password = password /\ password' = password /\ up /\ up'
  BY BoundsAssumption DEF BoundsAssumption, TypeOK, Create, New, Tokens, process
<1>4. \A k \in kept \union {New} : session'[k].password = password
  BY <1>2, <1>3, EntriesStay DEF Marked
<1>5. \A k \in Pruned : session'[k].password = password
  BY <1>2, <1>3, EntriesStay DEF Marked
<1>6. \A f \in {file} \union older : \A k \in f.tokens : session'[k].password = f.password
  BY EntriesStay DEF Marked, TypeOK
<1>7. \A f \in {FileOf(kept \union {New}), FileOf(Pruned)} :
         \A k \in f.tokens : session'[k].password = f.password
  BY <1>4, <1>5 DEF FileOf
<1>8. file' \in {FileOf(kept \union {New}), FileOf(Pruned), file}
      /\ older' \subseteq {FileOf(Pruned), file} \union older
      /\ sessions' \subseteq kept \union {New}
  BY <1>1 DEF Created, NotCreated
<1>9. \A f \in {file'} \union older' : \A k \in f.tokens : session'[k].password = f.password
  BY <1>6, <1>7, <1>8
<1>10. \A k \in sessions' : session'[k].password = password'
  BY <1>3, <1>4, <1>8
<1> QED
  BY <1>9, <1>10 DEF Marked

LEMMA MarkedStep == ASSUME TypeOK, Marked, [Next]_vars PROVE Marked'
<1> USE DEF process, store
\* Enough for all that only drops sessions and saves the rest.
<1>1. ASSUME up, sessions' \subseteq sessions, Persist(sessions'),
             UNCHANGED <<process, session>>
      PROVE  Marked'
  BY <1>1 DEF Persist, Persisted, NotPersisted, FileOf, Marked
<1>2. CASE Create
  BY <1>2, CreateMarked
<1>3. ASSUME NEW k \in Tokens, LookupExpired(k) \/ Revoke(k) PROVE Marked'
  BY <1>1, <1>3 DEF LookupExpired, Revoke
<1>4. CASE Prune
  BY <1>1, <1>4, PrunedKeeps DEF Prune
<1>5. CASE Stop
  BY <1>5 DEF Stop, Marked
<1>6. ASSUME NEW p \in Passwords, Start(p) PROVE Marked'
  BY <1>6 DEF Start, Loaded, Marked
<1>7. CASE Tick \/ UNCHANGED vars
  BY <1>7 DEF Tick, vars, Marked
<1> QED
  BY <1>2, <1>3, <1>4, <1>5, <1>6, <1>7, StepCases

\* The store honours only sessions of the password it runs under, whatever was
\* saved, not saved, or undone by a power loss.
THEOREM NoForeignSessions == Spec => []OnlyThisPassword
<1>1. Init => Marked
  BY DEF Init, Marked, NoFile
<1>2. Marked => OnlyThisPassword
  BY DEF Marked, OnlyThisPassword, Accepts
<1> QED
  BY <1>1, <1>2, TypeInit, TypeStep, MarkedStep, PTL DEF Spec

-----------------------------------------------------------------------------
(* WithinLimit and SessionsLast. *)

LEMMA SetsAreFinite ==
  ASSUME TypeOK
  PROVE  /\ \A S \in SUBSET (1..issued) : IsFiniteSet(S) /\ Cardinality(S) \in Nat
         /\ {sessions, file.tokens, Pruned} \subseteq SUBSET (1..issued)
         /\ \A f \in older : f.tokens \in SUBSET (1..issued)
<1>1. IsFiniteSet(1..issued)
  BY FS_Interval DEF TypeOK
<1>2. \A f \in {file} \union older : f.tokens \in SUBSET (1..issued)
  BY DEF TypeOK
<1>3. {sessions, file.tokens, Pruned} \subseteq SUBSET (1..issued)
  BY <1>2, PrunedKeeps DEF TypeOK
<1> QED
  BY <1>1, <1>2, <1>3, FS_Subset, FS_CardinalityType

LEMMA FewerStayWithin ==
  ASSUME TypeOK, NEW S \in SUBSET (1..issued), NEW T \in SUBSET S,
         Cardinality(S) <= MaxSessions
  PROVE  Cardinality(T) <= MaxSessions
<1>1. IsFiniteSet(S) /\ Cardinality(T) \in Nat /\ Cardinality(S) \in Nat
  BY SetsAreFinite
<1>2. Cardinality(T) <= Cardinality(S)
  BY <1>1, FS_Subset
<1> QED
  BY <1>1, <1>2, BoundsAssumption DEF BoundsAssumption

\* Room leaves a place for one more session.
LEMMA RoomIsLeft ==
  ASSUME TypeOK, WithinLimit, NEW kept \in Room(Pruned)
  PROVE  Cardinality(kept) + 1 <= MaxSessions
<1>1. IsFiniteSet(Pruned) /\ Cardinality(Pruned) \in Nat /\ Cardinality(kept) \in Nat
  BY SetsAreFinite, RoomKeeps
<1>2. Cardinality(Pruned) <= MaxSessions
  BY PrunedKeeps, SetsAreFinite, FewerStayWithin DEF WithinLimit
<1>3. CASE Cardinality(Pruned) < MaxSessions
  <2>1. kept = Pruned
    BY <1>3 DEF Room
  <2> QED
    BY <1>1, <1>3, <2>1, BoundsAssumption DEF BoundsAssumption
<1>4. CASE ~(Cardinality(Pruned) < MaxSessions)
  <2>1. PICK k \in Oldest(Pruned) : kept = Pruned \ {k}
    BY <1>4 DEF Room
  <2>2. Cardinality(kept) = Cardinality(Pruned) - 1
    BY <1>1, <2>1, FS_RemoveElement DEF Oldest
  <2> QED
    BY <1>1, <1>2, <2>2, BoundsAssumption DEF BoundsAssumption
<1> QED
  BY <1>3, <1>4

LEMMA CreateWithin == ASSUME TypeOK, WithinLimit, Create PROVE WithinLimit'
<1>1. PICK kept \in Room(Pruned) : Created(kept) \/ NotCreated(kept)
  BY DEF Create
<1>2. kept \in SUBSET (1..issued) /\ kept \subseteq Pruned /\ Pruned \subseteq sessions
  BY RoomKeeps, PrunedKeeps, SetsAreFinite
<1>3. IsFiniteSet(kept) /\ Cardinality(kept) \in Nat
  BY <1>2, SetsAreFinite
<1>4. New \notin kept
  BY <1>2 DEF TypeOK, New
<1>5. Cardinality(kept \union {New}) <= MaxSessions
  <2>1. Cardinality(kept \union {New}) = Cardinality(kept) + 1
    BY <1>3, <1>4, FS_AddElement
  <2> QED
    BY <2>1, RoomIsLeft
<1>6. /\ \A S \in {kept, Pruned, sessions, file.tokens} : Cardinality(S) <= MaxSessions
      /\ \A f \in older : Cardinality(f.tokens) <= MaxSessions
  BY <1>2, SetsAreFinite, FewerStayWithin DEF WithinLimit
<1>7. sessions' \in {kept, kept \union {New}}
      /\ file' \in {FileOf(kept \union {New}), FileOf(Pruned), file}
      /\ older' \subseteq {FileOf(Pruned), file} \union older
  BY <1>1 DEF Created, NotCreated
<1>8. \A f \in {file'} \union older' :
         f.tokens \in {kept \union {New}, Pruned, file.tokens} \/ f \in older
  BY <1>7 DEF FileOf
<1> QED
  BY <1>5, <1>6, <1>7, <1>8 DEF WithinLimit

LEMMA WithinStep == ASSUME TypeOK, WithinLimit, [Next]_vars PROVE WithinLimit'
<1> USE DEF store
\* Enough: every copy becomes a part of a copy there was.
<1>1. ASSUME sessions' \subseteq sessions \/ sessions' \subseteq file.tokens,
             \A f \in {file'} \union older' :
               f \in {file} \union older \/ f.tokens \subseteq sessions
      PROVE  WithinLimit'
  <2>1. Cardinality(sessions') <= MaxSessions
    BY <1>1, SetsAreFinite, FewerStayWithin DEF WithinLimit
  <2>2. \A f \in {file'} \union older' : Cardinality(f.tokens) <= MaxSessions
    BY <1>1, SetsAreFinite, FewerStayWithin DEF WithinLimit
  <2> QED
    BY <2>1, <2>2 DEF WithinLimit
<1>2. ASSUME sessions' \subseteq sessions, Persist(sessions') PROVE WithinLimit'
  BY <1>1, <1>2 DEF Persist, Persisted, NotPersisted, FileOf
<1>3. CASE Create
  BY <1>3, CreateWithin
<1>4. ASSUME NEW k \in Tokens, LookupExpired(k) \/ Revoke(k) PROVE WithinLimit'
  BY <1>2, <1>4 DEF LookupExpired, Revoke
<1>5. CASE Prune
  BY <1>2, <1>5, PrunedKeeps DEF Prune
<1>6. CASE Stop
  BY <1>1, <1>6 DEF Stop
<1>7. ASSUME NEW p \in Passwords, Start(p) PROVE WithinLimit'
  BY <1>1, <1>7 DEF Start, Loaded
<1>8. CASE Tick \/ UNCHANGED vars
  BY <1>1, <1>8 DEF Tick, vars
<1> QED
  BY <1>3, <1>4, <1>5, <1>6, <1>7, <1>8, StepCases

\* There are never more than maxSessions sessions, in memory or in a file a
\* restart may read.
THEOREM SessionsWithinLimit == Spec => []WithinLimit
<1>1. Init => WithinLimit
  BY FS_EmptySet, BoundsAssumption DEF BoundsAssumption, Init, NoFile, WithinLimit
<1> QED
  BY <1>1, TypeInit, TypeStep, WithinStep, PTL DEF Spec

LEMMA LastStep ==
  ASSUME TypeOK, [Next]_vars, up, up', NEW k \in sessions \ sessions', Live(k)
  PROVE  \/ k \in loggedOut'
         \/ /\ Cardinality(Pruned) >= MaxSessions
            /\ \A j \in sessions \intersect sessions' : session[k].at <= session[j].at
<1>1. k \in Pruned
  BY DEF Pruned
<1>2. CASE Create
  <2>1. PICK kept \in Room(Pruned) : sessions' = kept \/ sessions' = kept \union {New}
    BY <1>2 DEF Create, Created, NotCreated
  <2>2. ~(Cardinality(Pruned) < MaxSessions) /\ kept = Pruned \ {k} /\ k \in Oldest(Pruned)
    BY <1>1, <2>1 DEF Room
  <2>3. New \notin sessions /\ Cardinality(Pruned) \in Nat
    BY SetsAreFinite DEF TypeOK, New
  <2>4. sessions \intersect sessions' \subseteq Pruned
    BY <2>1, <2>2, <2>3
  <2> QED
    BY <2>2, <2>3, <2>4, BoundsAssumption DEF BoundsAssumption, Oldest
<1>3. ASSUME NEW j \in Tokens, LookupExpired(j) \/ Revoke(j) PROVE k \in loggedOut'
  BY <1>3 DEF LookupExpired, Revoke
<1>4. ~Prune /\ ~Stop /\ ~Tick /\ ~UNCHANGED vars /\ \A p \in Passwords : ~Start(p)
  BY <1>1 DEF Prune, Stop, Start, Tick, vars, store
<1> QED
  BY <1>2, <1>3, <1>4, StepCases

\* While the server runs, nobody is signed out before the session expires but
\* by a logout, or as the oldest of a full store of live sessions.
THEOREM SessionsStay == Spec => SessionsLast
<1>1. TypeOK /\ [Next]_vars =>
        [up /\ up' => \A k \in sessions \ sessions' : Live(k) =>
           \/ k \in loggedOut'
           \/ /\ Cardinality(Pruned) >= MaxSessions
              /\ \A j \in sessions \intersect sessions' : session[k].at <= session[j].at]_vars
  BY LastStep
<1> QED
  BY <1>1, TypeInit, TypeStep, PTL DEF Spec, SessionsLast

-----------------------------------------------------------------------------
(* Behind the handlers. *)

\* The handlers and the process take only steps of the session store, or
\* leave it alone, so what is proved of Sessions holds inside Access.
THEOREM AccessUsesSessions == AccessSpec => Spec
<1>1. AccessInit => Init
  BY DEF AccessInit
<1>2. [AccessNext]_accessVars => [Next]_vars
  <2>1. ASSUME NEW c \in Clients, handleLogin(c)  PROVE [Next]_vars
    BY <2>1 DEF handleLogin, Next
  <2>2. ASSUME NEW c \in Clients, requireAuth(c)  PROVE [Next]_vars
    BY <2>2 DEF requireAuth
  <2>3. ASSUME NEW k \in Tokens, Cookie(k)  PROVE [Next]_vars
    BY <2>3 DEF Cookie, Next
  <2>4. ASSUME Stops  PROVE [Next]_vars
    BY <2>4 DEF Stops, Next
  <2>5. ASSUME Runs  PROVE [Next]_vars
    BY <2>5 DEF Runs, Next
  <2>6. ASSUME UNCHANGED accessVars  PROVE [Next]_vars
    BY <2>6 DEF accessVars
  <2>7. QED
    BY <2>1, <2>2, <2>3, <2>4, <2>5, <2>6 DEF AccessNext
<1>3. QED
  BY <1>1, <1>2, PTL DEF AccessSpec, Spec

\* Behind the handlers too a restart finds every session that is honoured, each
\* is of the password in use, there are never too many, and a live one goes only
\* by a logout or as the oldest.
THEOREM AccessKeepsSessions ==
  AccessSpec => [](SessionsAreOnDisk /\ OnlyThisPassword /\ WithinLimit) /\ SessionsLast
BY AccessUsesSessions, SessionsSurvive, NoForeignSessions, SessionsWithinLimit, SessionsStay, PTL

-----------------------------------------------------------------------------
(* The address of the client. *)

LEMMA LastIsUnique ==
  ASSUME NEW chain, NEW i \in Foreign(chain), DOMAIN chain \subseteq Nat,
         \A j \in Foreign(chain) : j <= i
  PROVE  LastForeign(chain) = i
<1>1. \A k \in Foreign(chain) : (\A j \in Foreign(chain) : j <= k) => k = i
  BY DEF Foreign
<1>2. QED
  BY <1>1 DEF LastForeign

\* A client counts under its own address, whatever it writes into the header
\* and however many trusted proxies its request passes: a direct request by
\* its peer, any other by the entry the first proxy appended (clientIP: "the
\* leftmost entry is client-controlled").
THEOREM CountsAsItself ==
  ASSUME NEW c \in Clients, NEW peer, NEW chain, DOMAIN chain \subseteq Nat,
         \/ peer = c
         \/ /\ peer \in TrustedProxies
            /\ \E i \in DOMAIN chain :
                 chain[i] = c /\ \A j \in DOMAIN chain : j > i => chain[j] \in TrustedProxies
  PROVE  clientIP(peer, chain) = c
<1>1. c \notin TrustedProxies /\ c # Unparsable
  BY AddressesAssumption DEF AddressesAssumption
<1>2. CASE peer = c
  BY <1>1, <1>2 DEF clientIP
<1>3. CASE /\ peer \in TrustedProxies
           /\ \E i \in DOMAIN chain :
                chain[i] = c /\ \A j \in DOMAIN chain : j > i => chain[j] \in TrustedProxies
  <2>1. PICK i \in DOMAIN chain :
          chain[i] = c /\ \A j \in DOMAIN chain : j > i => chain[j] \in TrustedProxies
    BY <1>3
  <2>2. i \in Foreign(chain)
    BY <1>1, <2>1 DEF Foreign
  <2>3. \A j \in Foreign(chain) : j <= i
    BY <2>1 DEF Foreign
  <2>4. LastForeign(chain) = i
    BY <2>2, <2>3, LastIsUnique
  <2>5. QED
    BY <1>1, <1>3, <2>1, <2>2, <2>4 DEF clientIP
<1>4. QED
  BY <1>2, <1>3

\* What a trusted proxy appends to a request is where it came from.
LEMMA PassedCounts ==
  ASSUME NEW c \in Clients, NEW q, NEW peers, q.chain \in Seq(peers), q.peer \in peers,
         \/ q.peer = c
         \/ /\ q.peer \in TrustedProxies
            /\ \E i \in DOMAIN q.chain :
                 q.chain[i] = c /\ \A j \in DOMAIN q.chain : j > i => q.chain[j] \in TrustedProxies,
         NEW r \in Passed(q)
  PROVE  /\ r.chain \in Seq(peers) /\ r.peer \in TrustedProxies
         /\ \E i \in DOMAIN r.chain :
              r.chain[i] = c /\ \A j \in DOMAIN r.chain : j > i => r.chain[j] \in TrustedProxies
<1>1. r.chain = Append(q.chain, q.peer) /\ r.peer \in TrustedProxies
  BY DEF Passed
<1>2. /\ r.chain \in Seq(peers) /\ DOMAIN r.chain = 1..Len(q.chain) + 1
      /\ DOMAIN q.chain = 1..Len(q.chain) /\ Len(q.chain) \in Nat
      /\ \A j \in DOMAIN q.chain : r.chain[j] = q.chain[j]
      /\ r.chain[Len(q.chain) + 1] = q.peer
  BY <1>1
<1>3. CASE q.peer = c
  BY <1>1, <1>2, <1>3
<1>4. CASE q.peer # c
  <2>1. PICK i \in DOMAIN q.chain :
          q.chain[i] = c /\ \A j \in DOMAIN q.chain : j > i => q.chain[j] \in TrustedProxies
    BY <1>4
  <2>2. \A j \in DOMAIN r.chain : j > i => r.chain[j] \in TrustedProxies
    BY <1>2, <1>4, <2>1
  <2>3. QED
    BY <1>1, <1>2, <2>1, <2>2
<1>5. QED
  BY <1>3, <1>4

\* The limiter counts a client, whichever way its requests come, under its address.
LEMMA KeyOfClient == ASSUME NEW c \in Clients, NEW k \in Keys(c)  PROVE k = c
<1> DEFINE Peers == Addresses \union {Unparsable}
<1>1. PICK r \in Arrivals(c) : k = clientIP(r.peer, r.chain)
  BY DEF Keys
<1>2. ASSUME NEW q \in Direct(c)  PROVE q.chain \in Seq(Peers) /\ q.peer = c /\ q.peer \in Peers
  <2>1. PICK f \in Forged : q = [peer |-> c, chain |-> f]
    BY <1>2 DEF Direct
  <2>2. c \in Peers
    BY DEF Addresses
  <2>3. f \in Seq(Peers)
    <3>1. CASE f = <<>>
      BY <3>1
    <3>2. ASSUME NEW e \in Peers, f = <<e>>  PROVE f \in Seq(Peers)
      BY <3>2
    <3>3. QED
      BY <2>1, <3>1, <3>2 DEF Forged
  <2>4. QED
    BY <2>1, <2>2, <2>3
<1>3. ASSUME NEW q \in ByOne(c)
      PROVE  /\ q.chain \in Seq(Peers) /\ q.peer \in TrustedProxies /\ q.peer \in Peers
             /\ \E i \in DOMAIN q.chain :
                  q.chain[i] = c /\ \A j \in DOMAIN q.chain : j > i => q.chain[j] \in TrustedProxies
  <2>1. PICK d \in Direct(c) : q \in Passed(d)
    BY <1>3 DEF ByOne
  <2> HIDE DEF Peers
  <2>2. /\ q.chain \in Seq(Peers) /\ q.peer \in TrustedProxies
        /\ \E i \in DOMAIN q.chain :
             q.chain[i] = c /\ \A j \in DOMAIN q.chain : j > i => q.chain[j] \in TrustedProxies
    BY <1>2, <2>1, PassedCounts
  <2>3. QED
    BY <2>2 DEF Peers, Addresses
<1>4. ASSUME NEW q \in ByTwo(c)
      PROVE  /\ q.chain \in Seq(Peers) /\ q.peer \in TrustedProxies
             /\ \E i \in DOMAIN q.chain :
                  q.chain[i] = c /\ \A j \in DOMAIN q.chain : j > i => q.chain[j] \in TrustedProxies
  <2>1. PICK d \in ByOne(c) : q \in Passed(d)
    BY <1>4 DEF ByTwo
  <2> HIDE DEF Peers
  <2>2. QED
    BY <1>3, <2>1, PassedCounts
<1> HIDE DEF Peers
<1>5. \A q : q.chain \in Seq(Peers) => DOMAIN q.chain \subseteq Nat
  OBVIOUS
<1>6. CASE r \in Direct(c)
  BY <1>1, <1>2, <1>5, <1>6, CountsAsItself
<1>7. CASE r \in ByOne(c) \union ByTwo(c)
  <2>1. /\ r.chain \in Seq(Peers) /\ r.peer \in TrustedProxies
        /\ \E i \in DOMAIN r.chain :
             r.chain[i] = c /\ \A j \in DOMAIN r.chain : j > i => r.chain[j] \in TrustedProxies
    BY <1>3, <1>4, <1>7
  <2>2. QED
    BY <1>1, <1>5, <2>1, CountsAsItself
<1>8. QED
  BY <1>6, <1>7 DEF Arrivals

-----------------------------------------------------------------------------
(* The limiter. *)

\* The log holds what happened, and nothing of the time to come.
LogInv ==
  /\ log \in Seq(Entries) /\ Len(log) <= MaxLog
  /\ \A n \in DOMAIN log : log[n].at <= clock

\* A list holds only attempts of its client that are in the log, and all of those
\* that are young.
Entry(n) == [nr |-> n, at |-> log[n].at, bad |-> log[n].kind = "bad"]
By(c)    == {n \in DOMAIN log : log[n].by = c}
ListsInv ==
  /\ attempts \in [Addresses -> SUBSET Attempts]
  /\ \A k \in Addresses : IsFiniteSet(attempts[k]) /\ Cardinality(attempts[k]) <= MaxAttempts
  /\ \A c \in Clients : /\ attempts[c] \subseteq {Entry(n) : n \in By(c)}
                        /\ \A n \in By(c) : Young(log[n]) => Entry(n) \in attempts[c]

\* WindowBound, for windows that begin before the clock too.
Spent(c, from) ==
  /\ Count(c, {"bad"}, from, from + Window) <= MaxFailures
  /\ Count(c, {"bad", "login"}, from, from + Window) <= MaxAttempts
SpentInv == \A c \in Clients, from \in Int : Spent(c, from)

\* Nothing happens to a client that waits, so it can be said when its wait ends.
ExhaustedAt(c, t) ==
  \/ Count(c, {"bad"}, t - Window + 1, t + 1) >= MaxFailures
  \/ Count(c, {"bad", "login"}, t - Window + 1, t + 1) >= MaxAttempts
ToldInv ==
  /\ told \in [Clients -> 0..(MaxTime + Window)]
  /\ \A c \in Clients : told[c] # 0 =>
       \A t \in Nat : t >= clock => (ExhaustedAt(c, t) <=> t < told[c])

LimiterInv == LogInv /\ ListsInv /\ SpentInv /\ ToldInv

LEMMA Subsets ==
  ASSUME NEW T, IsFiniteSet(T), NEW S, S \subseteq T
  PROVE  /\ IsFiniteSet(S) /\ Cardinality(S) \in Nat /\ Cardinality(T) \in Nat
         /\ Cardinality(S) <= Cardinality(T)
BY FS_Subset, FS_CardinalityType

LEMMA LogTyped ==
  ASSUME LogInv
  PROVE  /\ DOMAIN log = 1..Len(log) /\ Len(log) \in Nat
         /\ \A n \in DOMAIN log : /\ log[n].by \in Clients /\ log[n].at \in 0..MaxTime
                                  /\ log[n].kind \in {"bad", "login"}
                                  /\ log[n].at <= clock
<1>1. DOMAIN log = 1..Len(log) /\ Len(log) \in Nat /\ \A n \in DOMAIN log : log[n] \in Entries
  BY DEF LogInv
<1>2. QED
  BY <1>1 DEF LogInv, Entries

LEMMA WithinFinite ==
  ASSUME LogInv, NEW c, NEW kinds, NEW from, NEW until
  PROVE  /\ IsFiniteSet(Within(c, kinds, from, until))
         /\ Count(c, kinds, from, until) \in Nat
<1>1. IsFiniteSet(DOMAIN log)
  BY LogTyped, FS_Interval
<1>2. QED
  BY <1>1, Subsets DEF Within, Count

\* As many entries as attempts.
LEMMA EntriesCounted ==
  ASSUME LogInv, NEW S, S \subseteq DOMAIN log
  PROVE  /\ IsFiniteSet({Entry(n) : n \in S}) /\ IsFiniteSet(S)
         /\ Cardinality({Entry(n) : n \in S}) = Cardinality(S)
<1> DEFINE T == {Entry(n) : n \in S}
           f == [n \in S |-> Entry(n)]
<1>1. IsFiniteSet(S)
  <2>1. IsFiniteSet(DOMAIN log)
    BY LogTyped, FS_Interval
  <2>2. QED
    BY <2>1, Subsets
<1>2. \A n, m \in S : Entry(n) = Entry(m) => n = m
  BY DEF Entry
<1>3. f \in Injection(S, T)
  BY <1>2 DEF Injection, IsInjective
<1>4. f \in Surjection(S, T)
  BY DEF Surjection
<1>5. ExistsBijection(S, T)
  BY <1>3, <1>4 DEF ExistsBijection, Bijection
<1>6. QED
  BY <1>1, <1>5, FS_Bijection

\* What a client has used up, at the time t.
All(c, t)    == Within(c, {"bad", "login"}, t - Window + 1, t + 1)
Failed(c, t) == Within(c, {"bad"}, t - Window + 1, t + 1)

\* The pruned list is that of the reference.
LEMMA RecentIsAll ==
  ASSUME LogInv, ListsInv, clock \in Nat, NEW c \in Clients
  PROVE  /\ Recent(attempts[c]) = {Entry(n) : n \in All(c, clock)}
         /\ Bad(Recent(attempts[c])) = {Entry(n) : n \in Failed(c, clock)}
<1> USE LogTyped, LimitsAssumption DEF LimitsAssumption
<1>1. \A n \in DOMAIN log : n \in All(c, clock) <=> n \in By(c) /\ Young(log[n])
  BY DEF All, Within, By, Young
<1>2. \A n : Entry(n).at = log[n].at
  BY DEF Entry
<1>3. \A n : Entry(n).bad <=> log[n].kind = "bad"
  BY Zenon DEF Entry
<1>4. \A n : Young(Entry(n)) <=> Young(log[n])
  BY <1>2 DEF Young
<1>5. By(c) \subseteq DOMAIN log /\ All(c, clock) \subseteq DOMAIN log
  BY DEF By, All, Within
<1>6. Recent(attempts[c]) = {Entry(n) : n \in All(c, clock)}
  BY <1>1, <1>4, <1>5 DEF ListsInv, Recent
<1>7. \A n : n \in Failed(c, clock) <=> n \in All(c, clock) /\ log[n].kind = "bad"
  BY DEF All, Failed, Within
<1>8. QED
  BY <1>3, <1>6, <1>7 DEF Bad

LEMMA BlockedIsExhausted ==
  ASSUME LogInv, ListsInv, clock \in Nat, NEW c \in Clients
  PROVE  LET list == Recent(attempts[c]) IN
         /\ IsFiniteSet(list) /\ Cardinality(list) = Cardinality(All(c, clock))
         /\ Cardinality(Bad(list)) = Cardinality(Failed(c, clock))
         /\ TooManyBad(list) <=> Cardinality(Failed(c, clock)) >= MaxFailures
         /\ TooMany(list) <=> Cardinality(All(c, clock)) >= MaxAttempts
         /\ Blocked(list) <=> ExhaustedAt(c, clock)
         /\ Exhausted(c) <=> ExhaustedAt(c, clock)
<1>1. All(c, clock) \subseteq DOMAIN log /\ Failed(c, clock) \subseteq DOMAIN log
  BY DEF All, Failed, Within
<1>2. QED
  BY <1>1, RecentIsAll, EntriesCounted
     DEF Blocked, TooMany, TooManyBad, Exhausted, ExhaustedAt, Count, All, Failed

-----------------------------------------------------------------------------
(* Attempts. *)

LEMMA LimiterSteps ==
  ASSUME TypeOK, TypeOK', [AccessNext]_accessVars
  PROVE  /\ clock' \in 0..MaxTime
         /\ \/ LimiterRestarts /\ clock' = clock
            \/ UNCHANGED limiterVars /\ clock' >= clock
            \/ /\ clock' = clock
               /\ \E c \in Clients : \/ Denied(c, c)
                                     \/ \E kind \in {"bad", "login", "token"} : Examined(c, c, kind)
<1>1. clock' \in 0..MaxTime /\ clock \in 0..MaxTime /\ MaxTime \in Nat
  BY BoundsAssumption DEF TypeOK, BoundsAssumption
<1>2. ASSUME NEW c \in Clients, handleLogin(c) \/ requireAuth(c)
      PROVE  /\ clock' = clock
             /\ \/ Denied(c, c)
                \/ \E kind \in {"bad", "login", "token"} : Examined(c, c, kind)
  <2>1. clock' = clock
    BY <1>2 DEF handleLogin, requireAuth, vars, Create
  <2>2. PICK k \in Keys(c) :
          Denied(c, k) \/ \E kind \in {"bad", "login", "token"} : Examined(c, k, kind)
    BY <1>2 DEF handleLogin, requireAuth
  <2>3. QED
    BY <2>1, <2>2, KeyOfClient
<1>3. ASSUME NEW k \in Tokens, Cookie(k)  PROVE UNCHANGED <<limiterVars, clock>>
  BY <1>3 DEF Cookie, LookupExpired, Revoke
<1>4. ASSUME Stops  PROVE LimiterRestarts /\ clock' = clock
  BY <1>4 DEF Stops, Stop
<1>5. ASSUME Runs  PROVE UNCHANGED limiterVars /\ clock' >= clock
  BY <1>1, <1>5 DEF Runs, Tick, Prune, Start
<1>6. ASSUME UNCHANGED accessVars  PROVE UNCHANGED <<limiterVars, clock>>
  BY <1>6 DEF accessVars, vars
<1>7. QED
  BY <1>1, <1>2, <1>3, <1>4, <1>5, <1>6 DEF AccessNext

\* A limiter that starts, in this process or the next.
LEMMA EmptyLimiter == LimiterInit /\ clock \in Nat => LimiterInv
<1> SUFFICES ASSUME LimiterInit, clock \in Nat  PROVE LimiterInv
  OBVIOUS
<1> USE BoundsAssumption, LimitsAssumption DEF LimiterInit, BoundsAssumption, LimitsAssumption
<1>1. DOMAIN log = {} /\ Len(log) = 0 /\ log \in Seq(Entries)
  OBVIOUS
<1>2. LogInv
  BY <1>1 DEF LogInv
<1>3. IsFiniteSet({}) /\ Cardinality({}) = 0
  BY FS_EmptySet
<1>4. ListsInv
  <2>1. Clients \subseteq Addresses
    BY DEF Addresses
  <2>2. QED
    BY <1>1, <1>3, <2>1 DEF ListsInv, By
<1>5. \A c, kinds, from, until : Count(c, kinds, from, until) = 0
  BY <1>1, <1>3 DEF Count, Within
<1>6. SpentInv
  BY <1>5 DEF SpentInv, Spent
<1>7. ToldInv
  BY DEF ToldInv
<1>8. QED
  BY <1>2, <1>4, <1>6, <1>7 DEF LimiterInv

LEMMA EmptyLimiterNext ==
  ASSUME LimiterRestarts, clock' \in Nat
  PROVE  LimiterInv'
<1>1. LimiterInit'
  BY DEF LimiterRestarts, LimiterInit
<1>2. (LimiterInit /\ clock \in Nat => LimiterInv)'
  BY EmptyLimiter, PTL
<1>3. QED
  BY <1>1, <1>2

\* Time passes: attempts grow old, and nothing is counted twice.
LEMMA TimePasses ==
  ASSUME LimiterInv, UNCHANGED limiterVars, clock \in Nat, clock' \in Nat, clock' >= clock
  PROVE  LimiterInv'
<1>1. UNCHANGED <<log, attempts, told>>
  BY DEF limiterVars
<1>2. LogInv'
  BY <1>1, LogTyped DEF LimiterInv, LogInv
<1>3. ListsInv'
  <2>1. \A n : Entry(n)' = Entry(n)
    BY <1>1 DEF Entry
  <2>2. \A c : By(c)' = By(c)
    BY <1>1 DEF By
  <2>3. \A n \in DOMAIN log : Young(log[n])' => Young(log[n])
    <3>1. \A n \in DOMAIN log : log[n].at \in Nat
      BY LogTyped DEF LimiterInv
    <3>2. QED
      BY <1>1, <3>1, LimitsAssumption DEF Young, LimitsAssumption
  <2>4. \A c : By(c) \subseteq DOMAIN log
    BY DEF By
  <2>5. QED
    BY <1>1, <2>1, <2>2, <2>3, <2>4 DEF LimiterInv, ListsInv
<1>4. \A c, kinds, from, until : Count(c, kinds, from, until)' = Count(c, kinds, from, until)
  BY <1>1 DEF Count, Within
<1>5. SpentInv'
  BY <1>4 DEF LimiterInv, SpentInv, Spent
<1>6. \A c, t : ExhaustedAt(c, t)' <=> ExhaustedAt(c, t)
  BY <1>4 DEF ExhaustedAt
<1>7. ToldInv'
  BY <1>1, <1>6 DEF LimiterInv, ToldInv
<1>8. QED
  BY <1>2, <1>3, <1>5, <1>7 DEF LimiterInv

-----------------------------------------------------------------------------
(* A client is turned away, and told when to come back. *)

LEMMA LeastExists ==
  ASSUME NEW S, S \subseteq Nat, S # {}
  PROVE  \E m \in S : \A k \in S : m <= k
<1>1. PICK m \in S : \A k \in S : ~(<<k, m>> \in OpToRel(<, Nat))
  BY WFMin, NatLessThanWellFounded, Zenon
<1>2. \A k \in S : ~(k < m)
  BY <1>1 DEF OpToRel
<1>3. QED
  BY <1>2

LEMMA EarliestIs ==
  ASSUME NEW list, list # {}, \A a \in list : a.at \in Nat
  PROVE  /\ \E a \in list : a.at = Earliest(list)
         /\ \A a \in list : Earliest(list) <= a.at
<1> DEFINE times == {a.at : a \in list}
<1>1. \E m \in times : \A k \in times : m <= k
  BY LeastExists
<1>2. \E m \in times : \A a \in list : m <= a.at
  BY <1>1
<1>3. Earliest(list) \in times /\ \A a \in list : Earliest(list) <= a.at
  BY <1>2 DEF Earliest
<1>4. QED
  BY <1>3

\* The oldest of some attempts that are young leaves the window when Remaining says.
LEMMA RemainingIs ==
  ASSUME LogInv, clock \in Nat, NEW c \in Clients,
         NEW S, S \subseteq All(c, clock), S # {}
  PROVE  LET ends == clock + Remaining({Entry(n) : n \in S}) IN
         /\ ends \in Nat /\ clock < ends /\ ends <= clock + Window
         /\ \E n \in S : ends = log[n].at + Window
         /\ \A n \in S : ends <= log[n].at + Window
<1> DEFINE list == {Entry(n) : n \in S}
<1> USE LogTyped, LimitsAssumption DEF LimitsAssumption
<1>1. \A n : Entry(n).at = log[n].at
  BY DEF Entry
<1>2. \A n \in S : log[n].at \in Nat /\ log[n].at <= clock /\ clock < log[n].at + Window
  BY DEF All, Within
<1>3. list # {} /\ \A a \in list : a.at \in Nat
  BY <1>1, <1>2
<1>4. /\ \E a \in list : a.at = Earliest(list)
      /\ \A a \in list : Earliest(list) <= a.at
  BY <1>3, EarliestIs
<1>5. /\ \E n \in S : log[n].at = Earliest(list)
      /\ \A n \in S : Earliest(list) <= log[n].at
  BY <1>1, <1>4
<1> HIDE DEF list
<1>6. /\ Earliest(list) \in Nat /\ Earliest(list) <= clock /\ clock < Earliest(list) + Window
  BY <1>2, <1>5
<1> DEFINE ends == clock + Remaining(list)
<1>7. ends = Earliest(list) + Window
  BY <1>6 DEF Remaining
<1> HIDE DEF ends
<1>8. ends \in Nat /\ clock < ends /\ ends <= clock + Window
  BY <1>6, <1>7
<1>9. /\ \E n \in S : ends = log[n].at + Window
      /\ \A n \in S : ends <= log[n].at + Window
  BY <1>2, <1>5, <1>6, <1>7
<1>10. QED
  BY <1>8, <1>9 DEF ends, list

\* What is used up later, when nothing is added.
LEMMA LaterIsLess ==
  ASSUME LogInv, clock \in Nat, NEW c \in Clients, NEW t \in Nat, t >= clock
  PROVE  /\ All(c, t) \subseteq All(c, clock) /\ Failed(c, t) \subseteq Failed(c, clock)
         /\ Failed(c, t) \subseteq All(c, t)
         /\ \A n \in All(c, t) : t < log[n].at + Window
         /\ \A n \in All(c, clock) : t < log[n].at + Window => n \in All(c, t)
         /\ \A n \in Failed(c, clock) : t < log[n].at + Window => n \in Failed(c, t)
BY LogTyped, LimitsAssumption DEF LimitsAssumption, All, Failed, Within

LEMMA WithinLimits ==
  ASSUME LogInv, SpentInv, clock \in Nat, NEW c \in Clients
  PROVE  /\ IsFiniteSet(All(c, clock)) /\ Cardinality(All(c, clock)) \in Nat
         /\ IsFiniteSet(Failed(c, clock)) /\ Cardinality(Failed(c, clock)) \in Nat
         /\ Cardinality(Failed(c, clock)) <= MaxFailures
         /\ Cardinality(All(c, clock)) <= MaxAttempts
<1>1. clock - Window + 1 \in Int /\ clock - Window + 1 + Window = clock + 1
  BY LimitsAssumption DEF LimitsAssumption
<1>2. Spent(c, clock - Window + 1)
  BY <1>1 DEF SpentInv
<1>3. QED
  BY <1>1, <1>2, WithinFinite DEF Spent, Count, All, Failed

\* When the limit is met, it is met exactly, and the first to leave ends it.
LEMMA WaitIsExact ==
  ASSUME LimiterInv, clock \in Nat, NEW c \in Clients, Blocked(Recent(attempts[c]))
  PROVE  LET ends == clock + Wait(Recent(attempts[c])) IN
         /\ ends \in Nat /\ clock < ends /\ ends <= clock + Window
         /\ \A t \in Nat : t >= clock => (ExhaustedAt(c, t) <=> t < ends)
<1> DEFINE list == Recent(attempts[c])
           ends == clock + Wait(list)
<1> USE LimitsAssumption DEF LimitsAssumption
<1>1. LogInv /\ ListsInv /\ SpentInv
  BY DEF LimiterInv
<1>2. /\ list = {Entry(n) : n \in All(c, clock)}
      /\ Bad(list) = {Entry(n) : n \in Failed(c, clock)}
      /\ TooManyBad(list) <=> Cardinality(Failed(c, clock)) >= MaxFailures
      /\ TooMany(list) <=> Cardinality(All(c, clock)) >= MaxAttempts
  BY <1>1, RecentIsAll, BlockedIsExhausted
<1>3. /\ IsFiniteSet(All(c, clock)) /\ Cardinality(All(c, clock)) \in Nat
      /\ IsFiniteSet(Failed(c, clock)) /\ Cardinality(Failed(c, clock)) \in Nat
      /\ Cardinality(Failed(c, clock)) <= MaxFailures
      /\ Cardinality(All(c, clock)) <= MaxAttempts
  BY <1>1, WithinLimits
<1>4. Cardinality({}) = 0
  BY FS_EmptySet
<1>5. \A t : ExhaustedAt(c, t) <=> \/ Cardinality(Failed(c, t)) >= MaxFailures
                                   \/ Cardinality(All(c, t)) >= MaxAttempts
  BY DEF ExhaustedAt, Count, All, Failed
<1>6. \A t \in Nat : t >= clock =>
        /\ All(c, t) \subseteq All(c, clock) /\ Failed(c, t) \subseteq Failed(c, clock)
        /\ Failed(c, t) \subseteq All(c, t)
        /\ \A n \in All(c, t) : t < log[n].at + Window
        /\ \A n \in All(c, clock) : t < log[n].at + Window => n \in All(c, t)
        /\ \A n \in Failed(c, clock) : t < log[n].at + Window => n \in Failed(c, t)
  BY <1>1, LaterIsLess
<1> HIDE DEF list, ends
\* A set of attempts, one of which has left, has room.
<1>7. ASSUME NEW S, NEW T, IsFiniteSet(S), T \subseteq S, NEW n \in S, n \notin T
      PROVE  Cardinality(T) \in Nat /\ Cardinality(T) < Cardinality(S)
  <2>1. T \subseteq S \ {n} /\ IsFiniteSet(S \ {n}) /\ Cardinality(S \ {n}) = Cardinality(S) - 1
    BY <1>7, FS_RemoveElement
  <2>2. Cardinality(T) \in Nat /\ Cardinality(S) \in Nat /\ Cardinality(T) <= Cardinality(S) - 1
    BY <1>7, <2>1, Subsets
  <2>3. QED
    BY <2>2
<1>8. CASE TooManyBad(list)
  <2>1. ends = clock + Remaining({Entry(n) : n \in Failed(c, clock)})
    BY <1>2, <1>8 DEF ends, Wait
  <2>2. Cardinality(Failed(c, clock)) = MaxFailures /\ Failed(c, clock) # {}
    BY <1>2, <1>3, <1>4, <1>8
  <2>3. Failed(c, clock) \subseteq All(c, clock)
    BY <1>6
  <2>4. /\ ends \in Nat /\ clock < ends /\ ends <= clock + Window
        /\ \E n \in Failed(c, clock) : ends = log[n].at + Window
        /\ \A n \in Failed(c, clock) : ends <= log[n].at + Window
    BY <1>1, <2>1, <2>2, <2>3, RemainingIs
  <2>5. ASSUME NEW t \in Nat, t >= clock, t < ends  PROVE ExhaustedAt(c, t)
    <3>1. \A n \in Failed(c, clock) : log[n].at \in Nat
      BY <1>1, LogTyped DEF Failed, Within
    <3>2. \A n \in Failed(c, clock) : t < log[n].at + Window
      BY <2>4, <2>5, <3>1
    <3>3. Failed(c, t) = Failed(c, clock)
      BY <1>6, <2>5, <3>2
    <3>4. QED
      BY <1>5, <2>2, <3>3
  <2>6. ASSUME NEW t \in Nat, t >= clock, t >= ends  PROVE ~ExhaustedAt(c, t)
    <3>1. PICK n \in Failed(c, clock) : ends = log[n].at + Window
      BY <2>4
    <3>2. n \notin All(c, t) /\ n \notin Failed(c, t)
      BY <1>6, <2>4, <2>6, <3>1
    <3>3. /\ Cardinality(Failed(c, t)) \in Nat
          /\ Cardinality(Failed(c, t)) < Cardinality(Failed(c, clock))
      BY <1>3, <1>6, <1>7, <2>6, <3>2
    <3>4. /\ Cardinality(All(c, t)) \in Nat
          /\ Cardinality(All(c, t)) < Cardinality(All(c, clock))
      BY <1>3, <1>6, <1>7, <2>3, <2>6, <3>2
    <3>5. QED
      BY <1>3, <1>5, <3>3, <3>4
  <2>7. QED
    BY <2>4, <2>5, <2>6 DEF ends, list
<1>9. CASE ~TooManyBad(list)
  <2>1. ends = clock + Remaining({Entry(n) : n \in All(c, clock)})
    BY <1>2, <1>9 DEF ends, Wait
  <2>2. Cardinality(All(c, clock)) = MaxAttempts /\ All(c, clock) # {}
    BY <1>2, <1>3, <1>4, <1>9 DEF Blocked, list
  <2>3. Cardinality(Failed(c, clock)) < MaxFailures
    BY <1>2, <1>3, <1>9
  <2>4. /\ ends \in Nat /\ clock < ends /\ ends <= clock + Window
        /\ \E n \in All(c, clock) : ends = log[n].at + Window
        /\ \A n \in All(c, clock) : ends <= log[n].at + Window
    BY <1>1, <2>1, <2>2, RemainingIs
  <2>5. ASSUME NEW t \in Nat, t >= clock, t < ends  PROVE ExhaustedAt(c, t)
    <3>1. \A n \in All(c, clock) : log[n].at \in Nat
      BY <1>1, LogTyped DEF All, Within
    <3>2. \A n \in All(c, clock) : t < log[n].at + Window
      BY <2>4, <2>5, <3>1
    <3>3. All(c, t) = All(c, clock)
      BY <1>6, <2>5, <3>2
    <3>4. QED
      BY <1>5, <2>2, <3>3
  <2>6. ASSUME NEW t \in Nat, t >= clock, t >= ends  PROVE ~ExhaustedAt(c, t)
    <3>1. PICK n \in All(c, clock) : ends = log[n].at + Window
      BY <2>4
    <3>2. n \notin All(c, t)
      BY <1>6, <2>4, <2>6, <3>1
    <3>3. /\ Cardinality(All(c, t)) \in Nat
          /\ Cardinality(All(c, t)) < Cardinality(All(c, clock))
      BY <1>3, <1>6, <1>7, <2>6, <3>2
    <3>4. /\ Cardinality(Failed(c, t)) \in Nat
          /\ Cardinality(Failed(c, t)) <= Cardinality(Failed(c, clock))
      BY <1>3, <1>6, <2>6, Subsets
    <3>5. QED
      BY <1>3, <1>5, <2>3, <3>3, <3>4
  <2>7. QED
    BY <2>4, <2>5, <2>6 DEF ends, list
<1>10. QED
  BY <1>8, <1>9

\* The list of a client is pruned.
LEMMA PrunedList ==
  ASSUME ListsInv, clock' = clock, log' = log, NEW c \in Clients,
         attempts' = [attempts EXCEPT ![c] = Recent(attempts[c])]
  PROVE  ListsInv'
<1> DEFINE list == Recent(attempts[c])
<1>1. list \subseteq attempts[c] /\ Clients \subseteq Addresses
  BY DEF Recent, Addresses
<1>2. \A n : Entry(n)' = Entry(n) /\ (Young(log[n])' <=> Young(log[n]))
  BY DEF Entry, Young
<1>3. \A d : By(d)' = By(d)
  BY DEF By
<1>4. /\ attempts'[c] = list /\ \A k \in Addresses : k # c => attempts'[k] = attempts[k]
      /\ attempts' \in [Addresses -> SUBSET Attempts]
  BY <1>1 DEF ListsInv
<1>5. IsFiniteSet(list) /\ Cardinality(list) <= MaxAttempts
  <2>1. /\ IsFiniteSet(attempts[c]) /\ Cardinality(attempts[c]) <= MaxAttempts
    BY <1>1 DEF ListsInv
  <2>2. /\ IsFiniteSet(list) /\ Cardinality(list) \in Nat /\ Cardinality(attempts[c]) \in Nat
        /\ Cardinality(list) <= Cardinality(attempts[c])
    BY <1>1, <2>1, Subsets
  <2>3. QED
    BY <2>1, <2>2, LimitsAssumption DEF LimitsAssumption
<1>6. \A n \in By(c) : Young(log[n]) => Entry(n) \in list
  <2>1. \A n : Young(Entry(n)) <=> Young(log[n])
    BY DEF Entry, Young
  <2>2. QED
    BY <2>1 DEF ListsInv, Recent
<1>7. \A d \in Clients :
        /\ attempts'[d] \subseteq {Entry(n)' : n \in By(d)'}
        /\ \A n \in By(d)' : Young(log[n])' => Entry(n)' \in attempts'[d]
  BY <1>1, <1>2, <1>3, <1>4, <1>6 DEF ListsInv
<1>8. \A k \in Addresses : IsFiniteSet(attempts'[k]) /\ Cardinality(attempts'[k]) <= MaxAttempts
  BY <1>4, <1>5 DEF ListsInv
<1>9. QED
  BY <1>4, <1>7, <1>8 DEF ListsInv

LEMMA DeniedKeeps ==
  ASSUME LimiterInv, clock \in 0..MaxTime, clock' = clock, NEW c \in Clients, Denied(c, c)
  PROVE  LimiterInv'
<1> DEFINE list == Recent(attempts[c])
<1>1. LogInv /\ ListsInv /\ SpentInv /\ ToldInv /\ MaxTime \in Nat /\ clock \in Nat
  BY BoundsAssumption DEF LimiterInv, BoundsAssumption
<1>2. /\ log' = log /\ attempts' = [attempts EXCEPT ![c] = list]
      /\ told' = [told EXCEPT ![c] = clock + Wait(list)] /\ Blocked(list)
  BY DEF Denied
<1>3. LogInv'
  BY <1>1, <1>2 DEF LogInv
<1>4. ListsInv'
  BY <1>1, <1>2, PrunedList
<1>5. \A d, kinds, from, until : Count(d, kinds, from, until)' = Count(d, kinds, from, until)
  BY <1>2 DEF Count, Within
<1>6. SpentInv'
  BY <1>1, <1>5 DEF SpentInv, Spent
<1>7. \A d, t : ExhaustedAt(d, t)' <=> ExhaustedAt(d, t)
  BY <1>5 DEF ExhaustedAt
<1>8. ToldInv'
  <2>1. /\ clock + Wait(list) \in Nat /\ clock + Wait(list) <= clock + Window
        /\ \A t \in Nat : t >= clock => (ExhaustedAt(c, t) <=> t < clock + Wait(list))
    BY <1>1, <1>2, WaitIsExact
  <2>2. clock + Wait(list) \in 0..(MaxTime + Window)
    BY <1>1, <2>1, LimitsAssumption DEF LimitsAssumption
  <2>3. /\ told' \in [Clients -> 0..(MaxTime + Window)] /\ told'[c] = clock + Wait(list)
        /\ \A d \in Clients : d # c => told'[d] = told[d]
    BY <1>1, <1>2, <2>2 DEF ToldInv
  <2>4. \A d \in Clients : told'[d] # 0 =>
          \A t \in Nat : t >= clock => (ExhaustedAt(d, t) <=> t < told'[d])
    BY <1>1, <2>1, <2>3 DEF ToldInv
  <2>5. QED
    BY <1>7, <2>3, <2>4 DEF ToldInv
<1>9. QED
  BY <1>3, <1>4, <1>6, <1>8 DEF LimiterInv

-----------------------------------------------------------------------------
(* A client is examined, and what it did is counted. *)

LEMMA ExaminedHasRoom ==
  ASSUME LimiterInv, clock \in Nat, NEW c \in Clients, ~Blocked(Recent(attempts[c]))
  PROVE  /\ Cardinality(Failed(c, clock)) + 1 <= MaxFailures
         /\ Cardinality(All(c, clock)) + 1 <= MaxAttempts
<1>1. LogInv /\ ListsInv /\ SpentInv
  BY DEF LimiterInv
<1>2. Cardinality(Failed(c, clock)) \in Nat /\ Cardinality(All(c, clock)) \in Nat
  BY <1>1, WithinLimits
<1>3. ~(Cardinality(Failed(c, clock)) >= MaxFailures) /\ ~(Cardinality(All(c, clock)) >= MaxAttempts)
  BY <1>1, BlockedIsExhausted DEF Blocked
<1>4. QED
  BY <1>2, <1>3, LimitsAssumption DEF LimitsAssumption

\* A bearer token that is good leaves no trace.
LEMMA TokenKeeps ==
  ASSUME LimiterInv, clock \in 0..MaxTime, clock' = clock, NEW c \in Clients,
         Examined(c, c, "token")
  PROVE  LimiterInv'
<1> DEFINE list == Recent(attempts[c])
<1>1. LogInv /\ ListsInv /\ SpentInv /\ ToldInv /\ MaxTime \in Nat
  BY BoundsAssumption DEF LimiterInv, BoundsAssumption
<1>2. /\ log' = log /\ attempts' = [attempts EXCEPT ![c] = list]
      /\ told' = [told EXCEPT ![c] = 0]
  BY DEF Examined, Recorded, Counted
<1>3. LogInv'
  BY <1>1, <1>2 DEF LogInv
<1>4. ListsInv'
  BY <1>1, <1>2, PrunedList
<1>5. \A d, kinds, from, until : Count(d, kinds, from, until)' = Count(d, kinds, from, until)
  BY <1>2 DEF Count, Within
<1>6. SpentInv'
  BY <1>1, <1>5 DEF SpentInv, Spent
<1>7. \A d, t : ExhaustedAt(d, t)' <=> ExhaustedAt(d, t)
  BY <1>5 DEF ExhaustedAt
<1>8. ToldInv'
  <2>1. /\ told' \in [Clients -> 0..(MaxTime + Window)] /\ told'[c] = 0
        /\ \A d \in Clients : d # c => told'[d] = told[d]
    BY <1>1, <1>2, LimitsAssumption DEF ToldInv, LimitsAssumption
  <2>2. QED
    BY <1>1, <1>7, <2>1 DEF ToldInv
<1>9. QED
  BY <1>3, <1>4, <1>6, <1>8 DEF LimiterInv

\* A wrong guess, or a login: one more entry, of the time it is.
LEMMA LogGrows ==
  ASSUME LogInv, clock \in 0..MaxTime, NEW c \in Clients, NEW kind \in {"bad", "login"},
         Len(log) < MaxLog,
         log' = Append(log, [by |-> c, at |-> clock, kind |-> kind]), clock' = clock
  PROVE  LET new == Len(log) + 1 IN
         /\ LogInv'
         /\ DOMAIN log' = DOMAIN log \union {new} /\ new \notin DOMAIN log /\ new \in 1..MaxLog
         /\ \A n \in DOMAIN log : log'[n] = log[n]
         /\ log'[new] = [by |-> c, at |-> clock, kind |-> kind]
<1> DEFINE e == [by |-> c, at |-> clock, kind |-> kind]
           new == Len(log) + 1
<1>1. e \in Entries
  BY DEF Entries
<1>2. e.at = clock
  OBVIOUS
<1>3. DOMAIN log = 1..Len(log) /\ Len(log) \in Nat /\ log \in Seq(Entries)
  BY LogTyped DEF LogInv
<1> HIDE DEF e
<1>4. /\ log' \in Seq(Entries) /\ Len(log') = new /\ DOMAIN log' = 1..new
      /\ \A n \in DOMAIN log : log'[n] = log[n]
      /\ log'[new] = e
  BY <1>1, <1>3 DEF e
<1>5. new \in 1..MaxLog /\ DOMAIN log' = DOMAIN log \union {new} /\ new \notin DOMAIN log
  BY <1>3, <1>4, LimitsAssumption DEF LimitsAssumption
<1>6. MaxTime \in Nat /\ clock <= clock
  BY BoundsAssumption DEF BoundsAssumption
<1>7. \A n \in DOMAIN log' : log'[n].at <= clock'
  BY <1>2, <1>4, <1>5, <1>6 DEF LogInv
<1>8. LogInv'
  BY <1>4, <1>5, <1>7, LimitsAssumption DEF LogInv, LimitsAssumption
<1>9. QED
  BY <1>4, <1>5, <1>8 DEF e

LEMMA CountedList ==
  ASSUME LimiterInv, clock \in 0..MaxTime, clock' = clock,
         NEW c \in Clients, NEW kind \in {"bad", "login"}, Examined(c, c, kind)
  PROVE  ListsInv'
<1> DEFINE list == Recent(attempts[c])
           new == Len(log) + 1
<1>1. LogInv /\ ListsInv /\ MaxTime \in Nat /\ clock \in Nat
  BY BoundsAssumption DEF LimiterInv, BoundsAssumption
<1>2. /\ ~Blocked(list) /\ Len(log) < MaxLog
      /\ attempts' = [attempts EXCEPT ![c] = Recent(list \union {Made(kind)})]
      /\ log' = Append(log, [by |-> c, at |-> clock, kind |-> kind])
  BY DEF Examined, Recorded, Counted
<1>3. /\ DOMAIN log' = DOMAIN log \union {new} /\ new \notin DOMAIN log /\ new \in 1..MaxLog
      /\ \A n \in DOMAIN log : log'[n] = log[n]
      /\ log'[new] = [by |-> c, at |-> clock, kind |-> kind]
  BY <1>1, <1>2, LogGrows
<1>4. \A a : Young(a)' <=> Young(a)
  BY DEF Young
<1>5. Made(kind) \in Attempts /\ Young(Made(kind))
  <2>1. Made(kind).at = clock
    BY DEF Made
  <2>2. Young(Made(kind))
    BY <1>1, <2>1, LimitsAssumption DEF Young, LimitsAssumption
  <2>3. (kind = "bad") \in BOOLEAN
    OBVIOUS
  <2>4. Made(kind) \in Attempts
    BY <1>3, <2>3, Zenon DEF Made, Attempts
  <2>5. QED
    BY <2>2, <2>4
<1>6. /\ Recent(list \union {Made(kind)}) = list \union {Made(kind)}
      /\ list \subseteq attempts[c] /\ Clients \subseteq Addresses
  BY <1>5 DEF Recent, Addresses
<1>7. /\ attempts'[c] = list \union {Made(kind)}
      /\ \A k \in Addresses : k # c => attempts'[k] = attempts[k]
      /\ attempts' \in [Addresses -> SUBSET Attempts]
  <2>1. attempts[c] \subseteq Attempts
    BY <1>1, <1>6 DEF ListsInv
  <2>2. QED
    BY <1>1, <1>2, <1>5, <1>6, <2>1 DEF ListsInv
<1>8. \A n \in DOMAIN log : Entry(n)' = Entry(n)
  BY <1>3 DEF Entry
<1>9. \A n : n = new => Entry(n)' = Made(kind)
  <2>1. log'[new].at = clock /\ log'[new].kind = kind
    BY <1>3
  <2>2. QED
    BY <2>1 DEF Entry, Made
<1>10. /\ By(c)' = By(c) \union {new} /\ \A d \in Clients : d # c => By(d)' = By(d)
       /\ \A d : By(d) \subseteq DOMAIN log
  BY <1>3 DEF By
<1>11. \A n \in By(c) : Young(log[n]) => Entry(n) \in list
  <2>1. \A n : Young(Entry(n)) <=> Young(log[n])
    BY DEF Entry, Young
  <2>2. QED
    BY <1>1, <2>1 DEF ListsInv, Recent
<1> HIDE DEF new, list
<1>12. attempts'[c] \subseteq {Entry(n)' : n \in By(c)'}
  BY <1>1, <1>6, <1>7, <1>8, <1>9, <1>10 DEF ListsInv
<1>13. \A n \in By(c)' : Young(log[n])' => Entry(n)' \in attempts'[c]
  BY <1>3, <1>4, <1>7, <1>8, <1>9, <1>10, <1>11
<1>14. \A d \in Clients : d # c =>
         /\ attempts'[d] \subseteq {Entry(n)' : n \in By(d)'}
         /\ \A n \in By(d)' : Young(log[n])' => Entry(n)' \in attempts'[d]
  BY <1>1, <1>3, <1>4, <1>6, <1>7, <1>8, <1>10 DEF ListsInv
<1>15. IsFiniteSet(attempts'[c]) /\ Cardinality(attempts'[c]) <= MaxAttempts
  <2>1. IsFiniteSet(list) /\ Cardinality(list) = Cardinality(All(c, clock))
    BY <1>1, BlockedIsExhausted DEF list
  <2>2. Cardinality(All(c, clock)) \in Nat /\ Cardinality(All(c, clock)) + 1 <= MaxAttempts
    BY <1>1, <1>2, ExaminedHasRoom, WithinFinite DEF All, Count, list
  <2>3. /\ IsFiniteSet(list \union {Made(kind)})
        /\ Cardinality(list \union {Made(kind)}) \in {Cardinality(list), Cardinality(list) + 1}
    BY <2>1, FS_AddElement
  <2>4. QED
    BY <1>7, <2>1, <2>2, <2>3, LimitsAssumption DEF LimitsAssumption
<1>16. QED
  BY <1>1, <1>7, <1>12, <1>13, <1>14, <1>15 DEF ListsInv

\* In a window that holds this moment, all that counts is still young.
LEMMA CountedStaysWithin ==
  ASSUME LimiterInv, clock \in 0..MaxTime, clock' = clock,
         NEW c \in Clients, NEW kind \in {"bad", "login"}, Examined(c, c, kind)
  PROVE  SpentInv'
<1> DEFINE new == Len(log) + 1
<1>1. LogInv /\ SpentInv /\ MaxTime \in Nat /\ clock \in Nat
  BY BoundsAssumption DEF LimiterInv, BoundsAssumption
<1>2. /\ ~Blocked(Recent(attempts[c])) /\ Len(log) < MaxLog
      /\ log' = Append(log, [by |-> c, at |-> clock, kind |-> kind])
  BY DEF Examined
<1>3. /\ LogInv'
      /\ DOMAIN log' = DOMAIN log \union {new} /\ new \notin DOMAIN log
      /\ \A n \in DOMAIN log : log'[n] = log[n]
      /\ log'[new] = [by |-> c, at |-> clock, kind |-> kind]
  BY <1>1, <1>2, LogGrows
<1> HIDE DEF new
<1>4. ASSUME NEW d \in Clients, NEW kinds, NEW from \in Int, NEW until \in Int,
             d # c \/ clock \notin from .. until - 1
      PROVE  Count(d, kinds, from, until)' = Count(d, kinds, from, until)
  <2>1. log'[new].by = c /\ log'[new].at = clock
    BY <1>3
  <2>2. log'[new].by # d \/ log'[new].at \notin from .. until - 1
    BY <1>4, <2>1
  <2>3. Within(d, kinds, from, until)' = Within(d, kinds, from, until)
    BY <1>3, <2>2, Zenon DEF Within
  <2>4. QED
    BY <2>3 DEF Count
<1>5. ASSUME NEW from \in Int, clock \in from .. from + Window - 1  PROVE Spent(c, from)'
  <2>1. /\ Within(c, {"bad"}, from, from + Window)' \subseteq Failed(c, clock) \union {new}
        /\ Within(c, {"bad", "login"}, from, from + Window)' \subseteq All(c, clock) \union {new}
    BY <1>1, <1>3, <1>5, LogTyped, LimitsAssumption
       DEF Within, Failed, All, LimitsAssumption
  <2>2. /\ Cardinality(Failed(c, clock)) + 1 <= MaxFailures
        /\ Cardinality(All(c, clock)) + 1 <= MaxAttempts
    BY <1>1, <1>2, ExaminedHasRoom
  <2>3. /\ IsFiniteSet(Failed(c, clock)) /\ Cardinality(Failed(c, clock)) \in Nat
        /\ IsFiniteSet(All(c, clock)) /\ Cardinality(All(c, clock)) \in Nat
    BY <1>1, WithinLimits
  <2>4. ASSUME NEW S, IsFiniteSet(S), Cardinality(S) \in Nat, NEW T, T \subseteq S \union {new},
               NEW max \in Nat, Cardinality(S) + 1 <= max
        PROVE  Cardinality(T) <= max
    <3>1. /\ IsFiniteSet(S \union {new})
          /\ Cardinality(S \union {new}) \in {Cardinality(S), Cardinality(S) + 1}
      BY <2>4, FS_AddElement
    <3>2. /\ Cardinality(T) \in Nat /\ Cardinality(T) <= Cardinality(S \union {new})
      BY <2>4, <3>1, Subsets
    <3>3. QED
      BY <2>4, <3>1, <3>2
  <2>5. MaxFailures \in Nat /\ MaxAttempts \in Nat
    BY LimitsAssumption DEF LimitsAssumption
  <2>6. /\ Cardinality(Within(c, {"bad"}, from, from + Window)') <= MaxFailures
        /\ Cardinality(Within(c, {"bad", "login"}, from, from + Window)') <= MaxAttempts
    BY <2>1, <2>2, <2>3, <2>4, <2>5
  <2>7. QED
    BY <2>6 DEF Spent, Count
<1>6. ASSUME NEW d \in Clients, NEW from \in Int  PROVE Spent(d, from)'
  <2>1. CASE d = c /\ clock \in from .. from + Window - 1
    BY <1>5, <2>1
  <2>2. CASE ~(d = c /\ clock \in from .. from + Window - 1)
    <3>1. ASSUME NEW until \in Int, until = from + Window
          PROVE  Count(d, {"bad"}, from, until)' <= MaxFailures
                 /\ Count(d, {"bad", "login"}, from, until)' <= MaxAttempts
      <4>1. d # c \/ clock \notin from .. until - 1
        BY <2>2, <3>1, LimitsAssumption DEF LimitsAssumption
      <4>2. /\ Count(d, {"bad"}, from, until)' = Count(d, {"bad"}, from, until)
            /\ Count(d, {"bad", "login"}, from, until)' = Count(d, {"bad", "login"}, from, until)
        BY <1>4, <4>1
      <4>3. /\ Count(d, {"bad"}, from, until) <= MaxFailures
            /\ Count(d, {"bad", "login"}, from, until) <= MaxAttempts
        BY <1>1, <3>1 DEF SpentInv, Spent
      <4>4. QED
        BY <4>2, <4>3
    <3>2. from + Window \in Int
      BY LimitsAssumption DEF LimitsAssumption
    <3>3. QED
      BY <3>1, <3>2 DEF Spent
  <2>3. QED
    BY <2>1, <2>2
<1>7. QED
  BY <1>6 DEF SpentInv

LEMMA CountedKeeps ==
  ASSUME LimiterInv, clock \in 0..MaxTime, clock' = clock,
         NEW c \in Clients, NEW kind \in {"bad", "login"}, Examined(c, c, kind)
  PROVE  LimiterInv'
<1> DEFINE new == Len(log) + 1
<1>1. LogInv /\ ToldInv /\ MaxTime \in Nat
  BY BoundsAssumption DEF LimiterInv, BoundsAssumption
<1>2. /\ Len(log) < MaxLog /\ told' = [told EXCEPT ![c] = 0]
      /\ log' = Append(log, [by |-> c, at |-> clock, kind |-> kind])
  BY DEF Examined
<1>3. /\ LogInv'
      /\ DOMAIN log' = DOMAIN log \union {new} /\ new \notin DOMAIN log
      /\ \A n \in DOMAIN log : log'[n] = log[n]
      /\ log'[new].by = c
  <2>1. /\ LogInv'
        /\ DOMAIN log' = DOMAIN log \union {new} /\ new \notin DOMAIN log
        /\ \A n \in DOMAIN log : log'[n] = log[n]
        /\ log'[new] = [by |-> c, at |-> clock, kind |-> kind]
    BY <1>1, <1>2, LogGrows
  <2>2. QED
    BY <2>1
<1>4. ASSUME NEW d \in Clients, d # c, NEW t  PROVE ExhaustedAt(d, t)' <=> ExhaustedAt(d, t)
  <2>1. \A kinds, from, until : Within(d, kinds, from, until)' = Within(d, kinds, from, until)
    BY <1>3, <1>4 DEF Within
  <2>2. QED
    BY <2>1 DEF ExhaustedAt, Count
<1>5. ToldInv'
  <2>1. /\ told' \in [Clients -> 0..(MaxTime + Window)] /\ told'[c] = 0
        /\ \A d \in Clients : d # c => told'[d] = told[d]
    BY <1>1, <1>2, LimitsAssumption DEF ToldInv, LimitsAssumption
  <2>2. QED
    BY <1>1, <1>4, <2>1 DEF ToldInv
<1>6. QED
  BY <1>3, <1>5, CountedList, CountedStaysWithin DEF LimiterInv

-----------------------------------------------------------------------------
(* What the limiter promises. *)

LEMMA LimiterInvInit == AccessInit => TypeOK /\ LimiterInv
<1>1. AccessInit => TypeOK
  BY TypeInit DEF AccessInit
<1>2. AccessInit => LimiterInit /\ clock \in Nat
  BY DEF AccessInit, Init
<1>3. QED
  BY <1>1, <1>2, EmptyLimiter

LEMMA LimiterInvStep ==
  ASSUME TypeOK, TypeOK', LimiterInv, [AccessNext]_accessVars
  PROVE  LimiterInv'
<1>1. clock \in 0..MaxTime /\ clock' \in 0..MaxTime /\ clock \in Nat /\ clock' \in Nat
  BY BoundsAssumption DEF TypeOK, BoundsAssumption
<1>2. CASE LimiterRestarts /\ clock' = clock
  BY <1>1, <1>2, EmptyLimiterNext
<1>3. CASE UNCHANGED limiterVars /\ clock' >= clock
  BY <1>1, <1>3, TimePasses
<1>4. ASSUME NEW c \in Clients, clock' = clock,
             Denied(c, c) \/ \E kind \in {"bad", "login", "token"} : Examined(c, c, kind)
      PROVE  LimiterInv'
  BY <1>1, <1>4, DeniedKeeps, TokenKeeps, CountedKeeps
<1>5. QED
  BY <1>2, <1>3, <1>4, LimiterSteps

LEMMA LimiterIsSafe == AccessSpec => [](TypeOK /\ LimiterInv)
<1>1. TypeOK /\ LimiterInv /\ [Next]_vars /\ [AccessNext]_accessVars => TypeOK' /\ LimiterInv'
  BY TypeStep, LimiterInvStep
<1>2. QED
  BY <1>1, LimiterInvInit, AccessUsesSessions, PTL DEF AccessSpec, Spec

\* Every variable keeps its kind, and no list of attempts outgrows its limit, whoever
\* tries what how often (recordLocked appends, and only a later attempt prunes).
THEOREM AccessTypeCorrect == AccessSpec => []AccessTypeOK
<1>1. LimiterInv => LimiterTypeOK
  BY DEF LimiterInv, LogInv, ListsInv, ToldInv, LimiterTypeOK
<1>2. AccessSpec => [](guessing \in BOOLEAN)
  <2>1. AccessInit => guessing \in BOOLEAN
    BY DEF AccessInit
  <2>2. guessing \in BOOLEAN /\ [AccessNext]_accessVars => (guessing \in BOOLEAN)'
    BY DEF AccessNext, handleLogin, requireAuth, Cookie, Stops, Runs, accessVars
  <2>3. QED
    BY <2>1, <2>2, PTL DEF AccessSpec
<1>3. QED
  BY <1>1, <1>2, LimiterIsSafe, PTL DEF AccessTypeOK

\* No stretch of time as long as the window gives a client more than MaxFailures
\* wrong guesses, or more than MaxAttempts guesses and logins, however they are
\* mixed, through whichever proxies they come, for any window and limits
\* (handleLogin: "minting sessions must cost budget").
THEOREM GuessesAreBounded == AccessSpec => []WindowBound
<1>1. LimiterInv /\ TypeOK => WindowBound
  <2>1. 0..MaxTime \subseteq Int
    OBVIOUS
  <2>2. QED
    BY <2>1 DEF LimiterInv, SpentInv, Spent, WindowBound
<1>2. QED
  BY <1>1, LimiterIsSafe, PTL

\* The pruned list turns a client away exactly when it has used up a limit, and
\* the wait a denied client is told is the time until it has not (Attempt,
\* checkLocked).
THEOREM LimiterDecides == AccessSpec => []DecidesAsReference
<1>1. LimiterInv /\ TypeOK => DecidesAsReference
  <2> SUFFICES ASSUME LimiterInv, TypeOK, NEW c \in Clients
               PROVE  /\ Blocked(Recent(attempts[c])) <=> Exhausted(c)
                      /\ told[c] # 0 => (Exhausted(c) <=> clock < told[c])
    BY DEF DecidesAsReference
  <2>1. clock \in Nat /\ clock >= clock
    BY BoundsAssumption DEF TypeOK, BoundsAssumption
  <2>2. /\ Blocked(Recent(attempts[c])) <=> ExhaustedAt(c, clock)
        /\ Exhausted(c) <=> ExhaustedAt(c, clock)
    BY <2>1, BlockedIsExhausted DEF LimiterInv
  <2>3. told[c] # 0 => (ExhaustedAt(c, clock) <=> clock < told[c])
    BY <2>1 DEF LimiterInv, ToldInv
  <2>4. QED
    BY <2>2, <2>3
<1>2. QED
  BY <1>1, LimiterIsSafe, PTL
=============================================================================
