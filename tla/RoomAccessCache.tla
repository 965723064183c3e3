--------------------------- MODULE RoomAccessCache ---------------------------
(***************************************************************************)
(* RoomAccessCache (backend/src/chat/room-access.cache.ts) between the     *)
(* socket events that ask whether a user may use a room, the table         *)
(* RoomMember, and removeSelfFromRoom of the chat gateway.  Keys are the   *)
(* pairs of a user and a room.  Only a positive answer is remembered; the  *)
(* lookups of one key that overlap share one query.                        *)
(***************************************************************************)
EXTENDS Integers, FiniteSets

CONSTANTS Keys,        \* pairs of a user and a room
          Events,      \* socket events in progress at the same time
          Ttl,         \* ROOM_ACCESS_TTL_MS
          MaxEntries,  \* MAX_ENTRIES
          MaxTime,     \* bound on the clock
          MaxChanges   \* bound on the changes of membership

ASSUME CacheAssumption == /\ Ttl \in Nat \ {0}
                          /\ MaxEntries \in Nat \ {0}

VARIABLES member,    \* RoomMember rows, as resolveRoomAccess sees them
          entries,   \* this.entries: until when an entry is valid, 0 for none
          older,     \* their order of insertion
          load,      \* this.inflight: the query of a key, and its result
          event,     \* the events in progress
          leaving,   \* keys whose row is deleted and not yet invalidated
          clock,
          changes,   \* changes of membership so far
          raced      \* history: keys invalidated while their query was out

vars == <<member, entries, older, load, event, leaving, clock, changes, raced>>

\* "asked": the query is on its way to the database; "yes", "no": its answer
\* is on its way back.
Loads == {"none", "asked", "yes", "no"}

Event == [pc : {"idle", "waiting", "granted", "denied", "failed"}, key : Keys]

TypeOK == /\ member \subseteq Keys
          /\ entries \in [Keys -> 0..(MaxTime + Ttl)]
          /\ older \subseteq Keys \X Keys
          /\ load \in [Keys -> Loads]
          /\ event \in [Events -> Event]
          /\ leaving \subseteq Keys
          /\ clock \in 0..MaxTime
          /\ changes \in 0..MaxChanges
          /\ raced \subseteq Keys

Init == /\ member \in SUBSET Keys
        /\ entries = [k \in Keys |-> 0]
        /\ older = {}
        /\ load = [k \in Keys |-> "none"]
        /\ event \in [Events -> {[pc |-> "idle", key |-> k] : k \in Keys}]
        /\ leaving = {}
        /\ clock = 0
        /\ changes = 0
        /\ raced = {}

-----------------------------------------------------------------------------
Cached(k) == entries[k] # 0
Hit(k) == entries[k] > clock

\* entries.delete
Forget(k) == /\ entries' = [entries EXCEPT ![k] = 0]
             /\ older' = {p \in older : k \notin {p[1], p[2]}}

\* Mutant of Resolve: an entry counts as an answer although it has expired,
\* but only a valid one is returned.
ResolveExpired(e, k) ==
    /\ event[e].pc = "idle"
    /\ event' = [event EXCEPT ![e] =
                    [pc |-> IF Hit(k) THEN "granted" ELSE "waiting", key |-> k]]
    /\ load' = [load EXCEPT ![k] = IF Cached(k) \/ @ # "none" THEN @ ELSE "asked"]
    /\ UNCHANGED <<member, entries, older, leaving, clock, changes, raced>>

\* resolve is called: a hit is answered at once, otherwise the event waits for
\* the query of its key, its own or one that is already out.
Resolve(e, k) ==
    /\ event[e].pc = "idle"
    /\ event' = [event EXCEPT ![e] =
                    [pc |-> IF Hit(k) THEN "granted" ELSE "waiting", key |-> k]]
    /\ load' = [load EXCEPT ![k] = IF Hit(k) \/ @ # "none" THEN @ ELSE "asked"]
    /\ UNCHANGED <<member, entries, older, leaving, clock, changes, raced>>

\* The database evaluates the query.
Query(k) == /\ load[k] = "asked"
            /\ load' = [load EXCEPT ![k] = IF k \in member THEN "yes" ELSE "no"]
            /\ UNCHANGED <<member, entries, older, event, leaving, clock, changes, raced>>

\* A full cache drops what has expired, then the oldest insertions.
Fresh == {k \in Keys : Hit(k)}
Kept == LET held == {k \in Keys : Cached(k)} IN
        IF Cardinality(held) < MaxEntries THEN held
        ELSE {k \in Fresh : Cardinality({j \in Fresh : <<k, j>> \in older}) < MaxEntries - 1}

\* remember: the entry of a key that is still there keeps its place.
Remember(k) ==
    /\ entries' = [j \in Keys |-> IF j = k THEN clock + Ttl
                                  ELSE IF j \in Kept THEN entries[j] ELSE 0]
    /\ older' = (older \cap (Kept \X Kept)) \cup (IF k \in Kept THEN {} ELSE Kept \X {k})

Answer(k, to) ==
    event' = [e \in Events |-> IF event[e].pc = "waiting" /\ event[e].key = k
                               THEN [event[e] EXCEPT !.pc = to] ELSE event[e]]

\* The query's continuation: remember a yes, forget on a no, and answer
\* everybody who waits for it.  A fresh no ends the effect of a race.
Loaded(k) ==
    /\ load[k] \in {"yes", "no"}
    /\ load' = [load EXCEPT ![k] = "none"]
    /\ IF load[k] = "yes" THEN Remember(k) ELSE Forget(k)
    /\ Answer(k, IF load[k] = "yes" THEN "granted" ELSE "denied")
    /\ raced' = IF load[k] = "yes" THEN raced ELSE raced \ {k}
    /\ UNCHANGED <<member, leaving, clock, changes>>

\* The query fails: nothing is remembered, the events that wait see the error.
LoadFails(k) == /\ load[k] # "none"
                /\ load' = [load EXCEPT ![k] = "none"]
                /\ Answer(k, "failed")
                /\ UNCHANGED <<member, entries, older, leaving, clock, changes, raced>>

\* The handler of the event goes on; another event may come.
Finish(e) == /\ event[e].pc \in {"granted", "denied", "failed"}
             /\ event' = [event EXCEPT ![e].pc = "idle"]
             /\ UNCHANGED <<member, entries, older, load, leaving, clock, changes, raced>>

\* removeSelfFromRoom: the row is deleted ...
Leave(k) == /\ k \in member
            /\ changes < MaxChanges
            /\ changes' = changes + 1
            /\ member' = member \ {k}
            /\ leaving' = leaving \cup {k}
            /\ UNCHANGED <<entries, older, load, event, clock, raced>>

\* Mutant of Invalidate: it is left out.
InvalidateNothing(k) == /\ k \in leaving
                        /\ leaving' = leaving \ {k}
                        /\ raced' = IF load[k] = "none" THEN raced ELSE raced \cup {k}
                        /\ UNCHANGED <<member, entries, older, load, event, clock, changes>>

\* ... and, after that await, its entry is forgotten.
Invalidate(k) == /\ k \in leaving
                 /\ leaving' = leaving \ {k}
                 /\ Forget(k)
                 /\ raced' = IF load[k] = "none" THEN raced ELSE raced \cup {k}
                 /\ UNCHANGED <<member, load, event, clock, changes>>

\* A row is created (a chat is opened, an invitation accepted): the cache is
\* not told.
Join(k) == /\ k \notin member
           /\ changes < MaxChanges
           /\ changes' = changes + 1
           /\ member' = member \cup {k}
           /\ UNCHANGED <<entries, older, load, event, leaving, clock, raced>>

Tick == /\ clock < MaxTime
        /\ clock' = clock + 1
        /\ UNCHANGED <<member, entries, older, load, event, leaving, changes, raced>>

Next == \/ \E e \in Events : Finish(e) \/ \E k \in Keys : Resolve(e, k)
        \/ \E k \in Keys : \/ Query(k) \/ Loaded(k) \/ LoadFails(k)
                           \/ Leave(k) \/ Invalidate(k) \/ Join(k)
        \/ Tick

Spec == Init /\ [][Next]_vars

-----------------------------------------------------------------------------
(* Properties. *)

\* Without a race, leaving a room takes effect: the cache vouches for a user
\* who is not a member only while the deletion is being made known, or if a
\* query was out when it was.
StaleOnlyByRace == \A k \in Keys : Cached(k) => k \in member \cup leaving \cup raced

\* Nobody is forgotten: an event waits only while a query is out that will
\* answer it, however queries, failures and deletions follow each other.
NobodyForgotten == \A e \in Events : event[e].pc = "waiting" => load[event[e].key] # "none"

=============================================================================
