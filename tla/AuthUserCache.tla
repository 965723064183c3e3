---------------------------- MODULE AuthUserCache ----------------------------
(***************************************************************************)
(* AuthUserCache (backend/src/auth/auth-user-cache.ts) under its readers,  *)
(* JwtStrategy.validate of every HTTP request and the socket guard of the  *)
(* flock gateway, and its writers: the handlers that change a user and     *)
(* then invalidate.  Unlike RoomAccessCache it does not merge queries: a   *)
(* request that misses asks the database for itself and stores what it     *)
(* got.  A user's row is its version: the number of edits made to it.      *)
(***************************************************************************)
EXTENDS Integers, FiniteSets

CONSTANTS Users,
          Requests,    \* HTTP requests in progress at the same time
          Ttl,         \* AUTH_USER_TTL_MS
          MaxEntries,  \* MAX_ENTRIES
          Delay,       \* a query that takes longer is called slow
          MaxTime,     \* bound on the clock
          MaxEdits     \* bound on the edits of a behaviour

ASSUME CacheAssumption == /\ Ttl \in Nat \ {0}
                          /\ MaxEntries \in Nat \ {0}
                          /\ Delay \in Nat
                          /\ MaxTime \in Nat /\ MaxEdits \in Nat
                          /\ IsFiniteSet(Users)

VARIABLES version,   \* User rows: edits so far
          isActive,  \* users whose row exists and is active
          cache,     \* this.entries
          req,       \* requests in progress
          editing,   \* users whose edit is committed and not yet invalidated
          clock,
          offSince,  \* history: when a user stopped being active
          raced,     \* history: users invalidated while a query was out
          slow       \* history: some query took longer than Delay

vars == <<version, isActive, cache, req, editing, clock, offSince, raced, slow>>

Versions == 0..MaxEdits
Time == 0..MaxTime
Entry == [held : BOOLEAN, version : Versions, until : 0..(MaxTime + Ttl)]
NoEntry == [held |-> FALSE, version |-> 0, until |-> 0]

\* seen: the version in the answer of the query, or what the request is given.
\* known: the version whose edit was over when the request began.
Request == [pc : {"idle", "asked", "active", "inactive", "accepted", "refused"},
            user : Users, seen : Versions, known : Versions, began : Time]

TypeOK == /\ version \in [Users -> Versions]
          /\ isActive \subseteq Users
          /\ cache \in [Users -> Entry]
          /\ req \in [Requests -> Request]
          /\ editing \subseteq Users
          /\ clock \in Time
          /\ offSince \in [Users -> Time]
          /\ raced \subseteq Users
          /\ slow \in BOOLEAN

Init == /\ version = [u \in Users |-> 0]
        /\ isActive = Users
        /\ cache = [u \in Users |-> NoEntry]
        /\ req \in [Requests -> {[pc |-> "idle", user |-> u, seen |-> 0,
                                  known |-> 0, began |-> 0] : u \in Users}]
        /\ editing = {}
        /\ clock = 0
        /\ offSince = [u \in Users |-> 0]
        /\ raced = {}
        /\ slow = FALSE

-----------------------------------------------------------------------------
Held == {u \in Users : cache[u].held}
Valid(u) == cache[u].held /\ cache[u].until > clock

\* What is known of a user's edits: one that is not yet invalidated is not over.
Over(u) == IF u \in editing THEN 0 ELSE version[u]

\* validate: get gives a valid entry, and forgets one that has expired.
Hit(r, u) == /\ req[r].pc = "idle"
             /\ Valid(u)
             /\ req' = [req EXCEPT ![r] = [pc |-> "accepted", user |-> u,
                                           seen |-> cache[u].version,
                                           known |-> Over(u), began |-> clock]]
             /\ UNCHANGED <<version, isActive, cache, editing, clock, offSince, raced, slow>>

Miss(r, u) == /\ req[r].pc = "idle"
              /\ ~Valid(u)
              /\ cache' = [cache EXCEPT ![u] = NoEntry]
              /\ req' = [req EXCEPT ![r] = [pc |-> "asked", user |-> u, seen |-> 0,
                                            known |-> Over(u), began |-> clock]]
              /\ UNCHANGED <<version, isActive, editing, clock, offSince, raced, slow>>

\* The database evaluates the query.
Query(r) == LET u == req[r].user
            IN  /\ req[r].pc = "asked"
                /\ req' = [req EXCEPT ![r].pc = IF u \in isActive THEN "active"
                                                ELSE "inactive",
                                      ![r].seen = version[u]]
                /\ UNCHANGED <<version, isActive, cache, editing, clock, offSince, raced, slow>>

\* No row or an inactive user: validate returns null, and nothing is stored.
Refuse(r) == /\ req[r].pc = "inactive"
             /\ req' = [req EXCEPT ![r].pc = "refused"]
             /\ UNCHANGED <<version, isActive, cache, editing, clock, offSince, raced, slow>>

\* The entries set leaves when it makes room: the valid ones, or none at all.
Kept == IF Cardinality(Held) < MaxEntries THEN Held
        ELSE IF Cardinality({u \in Held : Valid(u)}) < MaxEntries
             THEN {u \in Held : Valid(u)} ELSE {}

\* Mutant of Store: the lifetime is taken in the wrong unit.
StoreTooLong(r) ==
    LET u == req[r].user
    IN  /\ req[r].pc = "active"
        /\ cache' = [v \in Users |->
               IF v = u THEN [held |-> TRUE, version |-> req[r].seen,
                              until |-> clock + 60 * Ttl]
               ELSE IF v \in Kept THEN cache[v] ELSE NoEntry]
        /\ req' = [req EXCEPT ![r].pc = "accepted"]
        /\ UNCHANGED <<version, isActive, editing, clock, offSince, raced, slow>>

\* set: what the query returned is stored, as of now.
Store(r) ==
    LET u == req[r].user
    IN  /\ req[r].pc = "active"
        /\ cache' = [v \in Users |->
               IF v = u THEN [held |-> TRUE, version |-> req[r].seen, until |-> clock + Ttl]
               ELSE IF v \in Kept THEN cache[v] ELSE NoEntry]
        /\ req' = [req EXCEPT ![r].pc = "accepted"]
        /\ UNCHANGED <<version, isActive, editing, clock, offSince, raced, slow>>

Finish(r) == /\ req[r].pc \in {"accepted", "refused"}
             /\ req' = [req EXCEPT ![r] = [pc |-> "idle", user |-> @.user, seen |-> 0,
                                           known |-> 0, began |-> 0]]
             /\ UNCHANGED <<version, isActive, cache, editing, clock, offSince, raced, slow>>

\* updateProfile, setAvatarUrl, the choice of a nickname: the row is written ...
Edit(u) == /\ u \in isActive
           /\ u \notin editing
           /\ version[u] < MaxEdits
           /\ version' = [version EXCEPT ![u] = @ + 1]
           /\ editing' = editing \cup {u}
           /\ UNCHANGED <<isActive, cache, req, clock, offSince, raced, slow>>

\* ... or, by an admin, deleted ...
Delete(u) == /\ u \in isActive
             /\ u \notin editing
             /\ isActive' = isActive \ {u}
             /\ offSince' = [offSince EXCEPT ![u] = clock]
             /\ editing' = editing \cup {u}
             /\ UNCHANGED <<version, cache, req, clock, raced, slow>>

Asking(u) == \E r \in Requests : req[r].user = u /\ req[r].pc \in {"asked", "active"}

\* Mutant of Invalidate: it is left out.
InvalidateNothing(u) == /\ u \in editing
                        /\ editing' = editing \ {u}
                        /\ raced' = IF Asking(u) THEN raced \cup {u} ELSE raced
                        /\ UNCHANGED <<version, isActive, cache, req, clock, offSince, slow>>

\* ... and, after that await, the entry is forgotten.
Invalidate(u) == /\ u \in editing
                 /\ editing' = editing \ {u}
                 /\ cache' = [cache EXCEPT ![u] = NoEntry]
                 /\ raced' = IF Asking(u) THEN raced \cup {u} ELSE raced
                 /\ UNCHANGED <<version, isActive, req, clock, offSince, slow>>

\* An account is switched off in the database: the cache is not told.
Deactivate(u) == /\ u \in isActive
                 /\ isActive' = isActive \ {u}
                 /\ offSince' = [offSince EXCEPT ![u] = clock]
                 /\ UNCHANGED <<version, cache, req, editing, clock, raced, slow>>

Tick == /\ clock < MaxTime
        /\ clock' = clock + 1
        /\ slow' = (slow \/ \E r \in Requests : /\ req[r].pc \in {"asked", "active"}
                                                /\ clock + 1 - req[r].began > Delay)
        /\ UNCHANGED <<version, isActive, cache, req, editing, offSince, raced>>

Next == \/ \E r \in Requests : \/ \E u \in Users : Hit(r, u) \/ Miss(r, u)
                               \/ Query(r) \/ Refuse(r) \/ Store(r) \/ Finish(r)
        \/ \E u \in Users : Edit(u) \/ Delete(u) \/ Invalidate(u) \/ Deactivate(u)
        \/ Tick

Spec == Init /\ [][Next]_vars

-----------------------------------------------------------------------------
(* Properties. *)

\* Without a race, the cache holds the latest row: an older one stays only
\* while its edit is being made known, or if a query was out when it was.
OldOnlyByRace == \A u \in Users :
                    cache[u].held /\ u \notin editing \cup raced
                        => cache[u].version = version[u]

\* "Deactivation waits for the TTL" (auth-user-cache.ts, line 8): if no query
\* is slow, nobody is accepted longer than that, and a query, after their
\* account was switched off.
OffWithinTtl == \A r \in Requests :
                    req[r].pc = "accepted" /\ req[r].user \notin isActive /\ ~slow
                        => req[r].began <= offSince[req[r].user] + Ttl + Delay

\* set keeps the cache within MAX_ENTRIES, whatever entries have expired.
Bounded == Cardinality(Held) <= MaxEntries

\* "There are no stale data after one's own edit" (auth-user-cache.ts, line 8):
\* a request that begins after an edit is over sees that edit, unless a query
\* was out when the edit was made known and stored its answer after that.
OwnEditSeen == \A r \in Requests :
                  req[r].pc = "accepted" /\ req[r].user \notin raced
                      => req[r].seen >= req[r].known

=============================================================================
