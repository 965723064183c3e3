---------------------------- MODULE FlockSessions ----------------------------
(***************************************************************************)
(* Who is on which arena of the game "Flock": the sessions of              *)
(* flock/flock.manager.ts and the handlers of flock/flock.gateway.ts.      *)
(* A session belongs to a user and outlives its socket: after a break the  *)
(* sheep stays on the arena, paused, until the player returns with the     *)
(* token of the session or the pause ends.                                 *)
(*                                                                         *)
(* How long a pause, an absence of input, a map or a round may last is     *)
(* left open: each may end at any time.  Of the world of an arena only     *)
(* lives and shields are kept, and of a token whether it is the session's. *)
(***************************************************************************)
EXTENDS Integers, FiniteSets

CONSTANTS Users, Conns, Owner,  \* sockets, and the user of each
          Bodies,               \* players of the worlds, each with its session
          Arenas, Mode,         \* arena names, and the mode of each
          Cap,                  \* mode -> humans on an arena
          MaxArenas,            \* mode -> arenas at a time
          MaxAsks,              \* bound on the joins of a socket that await
          None

Modes == {"normal", "circle", "castles"}

ASSUME FlockAssumption ==
    /\ Owner \in [Conns -> Users] /\ Mode \in [Arenas -> Modes]
    /\ Cap \in [Modes -> Nat \ {0}] /\ MaxArenas \in [Modes -> Nat]
    /\ MaxAsks \in Nat
    /\ IsFiniteSet(Bodies) /\ IsFiniteSet(Arenas)
    /\ None \notin Conns \cup Bodies \cup Users \cup Arenas

VARIABLES link,     \* client.connected
          asks,     \* joins that await the checks of skin and artifact, by token
          m,        \* the maps of the manager, see Maps
          sess,     \* the session and the player of each body
          retired,  \* arenas that take no new players
          round     \* of a circle arena: "warmup", "locked" or "ended"

vars == <<link, asks, m, sess, retired, round>>

\* What a join carries: the token of the user's session, or another or none.
Tokens == {"current", "other"}

\* byConn, byUser, Arena.sessions, the players of all worlds, the arenas.
Maps == [byConn : [Conns -> Bodies \cup {None}],
         byUser : [Users -> Bodies \cup {None}],
         seats : [Arenas -> SUBSET Bodies],
         world : SUBSET Bodies,
         open : SUBSET Arenas]

\* shield is the world's paused; deaths and prizes count what the hooks onDeath
\* and onTop1 were told of this life, recalled that it was resumed after its end.
Sessions == [user : Users \cup {None}, conn : Conns \cup {None},
             arena : Arenas \cup {None}, paused : BOOLEAN, alive : BOOLEAN,
             shield : BOOLEAN, deadSent : BOOLEAN, rewarded : BOOLEAN,
             deaths : 0..2, prizes : 0..2, recalled : BOOLEAN]

Nobody == [user |-> None, conn |-> None, arena |-> None, paused |-> FALSE,
           alive |-> FALSE, shield |-> FALSE, deadSent |-> FALSE,
           rewarded |-> FALSE, deaths |-> 0, prizes |-> 0, recalled |-> FALSE]

TypeOK ==
    /\ link \in [Conns -> BOOLEAN] /\ asks \in [Conns -> SUBSET Tokens]
    /\ m \in Maps /\ sess \in [Bodies -> Sessions] /\ retired \subseteq Arenas
    /\ round \in [Arenas -> {"none", "warmup", "locked", "ended"}]

Empty == [byConn |-> [c \in Conns |-> None], byUser |-> [u \in Users |-> None],
          seats |-> [a \in Arenas |-> {}], world |-> {}, open |-> {}]

Init ==
    /\ link = [c \in Conns |-> FALSE] /\ asks = [c \in Conns |-> {}]
    /\ m = Empty /\ sess = [p \in Bodies |-> Nobody] /\ retired = {}
    /\ round = [a \in Arenas |-> "none"]

-----------------------------------------------------------------------------
(* The manager's maps.                                                     *)

\* removeSession: the last human takes the arena along.
Remove(n, p) ==
    LET s == sess[p]
        left == {q \in n.seats[s.arena] : sess[q].user # s.user}
    IN [byConn |-> [c \in Conns |-> IF c = s.conn THEN None ELSE n.byConn[c]],
        byUser |-> [n.byUser EXCEPT ![s.user] = None],
        seats |-> [n.seats EXCEPT ![s.arena] = left],
        world |-> n.world \ {p},
        open |-> IF left = {} THEN n.open \ {s.arena} ELSE n.open]

\* Mutant of Seated: who is paused takes no place.
SeatedLive(n, a) == {p \in n.seats[a] : ~sess[p].paused}

\* humans of an arena, for whom places are taken.
Seated(n, a) == n.seats[a]

\* pickArena: the arenas a new player of the mode may get.  A map past its time
\* is better than none.
Picks(n, mode) ==
    LET same == {a \in n.open : Mode[a] = mode}
        roomy == {a \in same : Cardinality(Seated(n, a)) < Cap[mode]}
        fresh == roomy \ retired
    IN IF fresh # {} THEN fresh
       ELSE IF Cardinality(same) < MaxArenas[mode]
       THEN {a \in Arenas \ n.open : Mode[a] = mode}
       ELSE roomy

\* The new session p of the socket c on the arena a.
Seat(n, p, c, a) ==
    [byConn |-> [n.byConn EXCEPT ![c] = p],
     byUser |-> [n.byUser EXCEPT ![Owner[c]] = p],
     seats |-> [n.seats EXCEPT ![a] = {q \in @ : sess[q].user # Owner[c]} \cup {p}],
     world |-> n.world \cup {p},
     open |-> n.open \cup {a}]

\* The maps become n, and the sessions t where they are in use.  An arena name that
\* shares no body with before is a new arena, with a round of its own.  The token
\* of a session that changes hands or ends is another in the joins that carry it.
Become(n, t, staleOf, asked) ==
    LET kept == {a \in Arenas : m.seats[a] \cap n.seats[a] # {}}
    IN /\ m' = n
       /\ sess' = [p \in Bodies |-> IF p \in n.world THEN t[p] ELSE Nobody]
       /\ retired' = retired \cap kept
       /\ round' = [a \in Arenas |->
              IF a \in kept THEN round[a]
              ELSE IF a \in n.open /\ Mode[a] = "circle" THEN "warmup" ELSE "none"]
       /\ asks' = [c \in Conns |->
              IF Owner[c] \in staleOf /\ "current" \in asked[c]
              THEN (asked[c] \ {"current"}) \cup {"other"} ELSE asked[c]]

Drop(p) == Become(Remove(m, p), sess, {sess[p].user}, asks)

-----------------------------------------------------------------------------
(* join.                                                                   *)

\* A player is born, again or for the first time.
Born(s) == [user |-> s.user, conn |-> s.conn, arena |-> s.arena,
            paused |-> s.paused, alive |-> TRUE, shield |-> FALSE,
            deadSent |-> FALSE, rewarded |-> FALSE, deaths |-> 0, prizes |-> 0,
            recalled |-> FALSE]

Locked(a) == round[a] = "locked"

\* The socket c has a session: who is dead is born again, if the round lets them.
Again(c, asked) ==
    LET p == m.byConn[c]
        reborn == ~sess[p].alive /\ ~Locked(sess[p].arena)
    IN /\ p # None
       /\ Become(m, IF reborn THEN [sess EXCEPT ![p] = Born(@)] ELSE sess,
                 {}, asked)

\* Mutant of Resumed: what this life has earned is forgotten.
ResumedUnpaid(s, c) ==
    [s EXCEPT !.conn = c, !.paused = FALSE, !.shield = FALSE, !.rewarded = FALSE,
              !.deadSent = @ /\ s.alive,
              !.recalled = @ \/ (~s.alive /\ s.deadSent)]

\* What resume makes of a session.
Resumed(s, c) ==
    [s EXCEPT !.conn = c, !.paused = FALSE, !.shield = FALSE,
              !.deadSent = @ /\ s.alive,
              !.recalled = @ \/ (~s.alive /\ s.deadSent)]

\* resume: a socket that the session still has is driven out.
Resume(c, asked) ==
    LET p == m.byUser[Owner[c]]
        others == [d \in Conns |-> IF d = sess[p].conn THEN None ELSE m.byConn[d]]
    IN /\ m.byConn[c] = None /\ p # None
       /\ Become([m EXCEPT !.byConn = [others EXCEPT ![c] = p]],
                 [sess EXCEPT ![p] = Resumed(@, c)], {Owner[c]}, asked)

\* A token that is not the session's, from a client that wants no other session.
Expired(c, asked) ==
    /\ m.byConn[c] = None
    /\ Become(m, sess, {}, asked)

\* A new session: the one before is removed first, whatever comes after it.
Enter(c, mode, refused, asked) ==
    LET u == Owner[c]
        n == IF m.byUser[u] = None THEN m ELSE Remove(m, m.byUser[u])
    IN /\ m.byConn[c] = None
       /\ IF refused \/ Picks(n, mode) = {}
          THEN Become(n, sess, {u}, asked)
          ELSE \E a \in Picks(n, mode), p \in Bodies \ m.world :
                   Become(Seat(n, p, c, a),
                          [sess EXCEPT ![p] = Born([Nobody EXCEPT
                               !.user = u, !.conn = c, !.arena = a])],
                          {u}, asked)

\* Only the castles have a verdict of their own: the sides and their balance.
Join(c, token, modes, asked) ==
    \/ Again(c, asked)
    \/ token = "current" /\ Resume(c, asked)
    \/ token = "other" /\ Expired(c, asked)
    \/ /\ token # "current"
       /\ \E mode \in modes, refused \in BOOLEAN :
              (refused => mode = "castles") /\ Enter(c, mode, refused, asked)

-----------------------------------------------------------------------------
(* The gateway.                                                            *)

Connect(c) ==
    /\ ~link[c] /\ asks[c] = {}
    /\ link' = [link EXCEPT ![c] = TRUE]
    /\ UNCHANGED <<asks, m, sess, retired, round>>

MayCarry(c, token) ==
    link[c] /\ (token = "current" => m.byUser[Owner[c]] # None)

\* The frame j arrives: the skin and the artifact are looked up.
Ask(c, token) ==
    /\ MayCarry(c, token) /\ Cardinality(asks[c]) < MaxAsks
    /\ asks' = [asks EXCEPT ![c] = @ \cup {token}]
    /\ UNCHANGED <<link, m, sess, retired, round>>

\* Mutant of Present: a socket that went away is not noticed.
PresentAlways(c) == TRUE

\* What the handler checks after the awaits.
Present(c) == link[c]

\* The answers arrive.
Answer(c, token) ==
    LET asked == [asks EXCEPT ![c] = @ \ {token}]
    IN /\ token \in asks[c] /\ UNCHANGED link
       /\ IF Present(c) THEN Join(c, token, {"normal", "circle"}, asked)
          ELSE Become(m, sess, {}, asked)

\* The skin or the artifact is not theirs.
NotTheirs(c, token) ==
    /\ token \in asks[c]
    /\ asks' = [asks EXCEPT ![c] = @ \ {token}]
    /\ UNCHANGED <<link, m, sess, retired, round>>

\* The castles have free skins and no artifacts: nothing is awaited.
JoinCastles(c, token) ==
    MayCarry(c, token) /\ Join(c, token, {"castles"}, asks) /\ UNCHANGED link

\* The frame x.
Leave(c) ==
    /\ m.byConn[c] # None /\ Drop(m.byConn[c]) /\ UNCHANGED link

\* Mutant of Pauses: the dead are paused, too.
PausesAlways(p) == TRUE

\* The dead need no pause.
Pauses(p) == sess[p].alive

\* disconnect.
Disconnect(c) ==
    LET p == m.byConn[c]
    IN /\ link[c] /\ link' = [link EXCEPT ![c] = FALSE]
       /\ IF p = None THEN UNCHANGED <<asks, m, sess, retired, round>>
          ELSE IF ~Pauses(p) THEN Drop(p)
          ELSE Become([m EXCEPT !.byConn[c] = None],
                      [sess EXCEPT ![p].conn = None, ![p].paused = TRUE,
                                   ![p].shield = TRUE], {}, asks)

\* sweep: the pause of a session is over, or no input has come for long.
Sweep(p) ==
    /\ p \in m.world /\ (sess[p].paused \/ sess[p].conn # None)
    /\ Drop(p) /\ UNCHANGED link

\* onModuleDestroy, and a new process.
Restart ==
    /\ m.open # {} /\ link' = [c \in Conns |-> FALSE]
    /\ Become(Empty, sess, Users, [c \in Conns |-> {}])

-----------------------------------------------------------------------------
(* The arenas.                                                             *)

OnlySess(s) == sess' = s /\ UNCHANGED <<link, asks, m, retired, round>>

\* The sheep is eaten, burns, falls, or withers outside the circle.  The castles
\* know no deaths.
Die(p) ==
    LET s == sess[p]
    IN /\ p \in m.world /\ s.alive /\ ~s.shield /\ Mode[s.arena] # "castles"
       /\ OnlySess([sess EXCEPT ![p].alive = FALSE])

More(n) == IF n < 2 THEN n + 1 ELSE n

\* A session whose end of life is told to its socket and to the statistics.
Told(s) == [s EXCEPT !.deadSent = TRUE, !.deaths = More(@)]

\* broadcast, with first the best human of the table: a prize for the life that
\* is first (checkTop1), and the news to those who died.
Broadcast(a, first) ==
    LET hears == {p \in m.seats[a] : sess[p].conn # None}
        news == {p \in hears : ~sess[p].alive /\ ~sess[p].deadSent}
        prize == IF Mode[a] = "normal" /\ first \in hears /\ ~sess[first].rewarded
                 THEN {first} ELSE {}
    IN /\ (first = None \/ (first \in m.seats[a] /\ sess[first].alive))
       /\ news \cup prize # {}
       /\ OnlySess([p \in Bodies |->
              IF p \in news THEN Told(sess[p])
              ELSE IF p \in prize
              THEN [sess[p] EXCEPT !.rewarded = TRUE, !.prizes = More(@)]
              ELSE sess[p]])

\* mapExpired, by time or by an admin.
Retire(a) ==
    /\ a \in m.open /\ Mode[a] = "normal" /\ retired' = retired \cup {a}
    /\ UNCHANGED <<link, asks, m, sess, round>>

\* The warm-up is over, or the round: by time, or with too few alive.
Round(a, from, to) ==
    /\ round[a] = from /\ round' = [round EXCEPT ![a] = to]
    /\ UNCHANGED <<link, asks, m, sess, retired>>

\* startRound: who lives is born again, and may be first again.
StartRound(a) ==
    /\ round[a] = "ended" /\ round' = [round EXCEPT ![a] = "warmup"]
    /\ sess' = [p \in Bodies |->
           IF p \notin m.seats[a] THEN sess[p]
           ELSE IF sess[p].alive
           THEN [Born(sess[p]) EXCEPT !.deadSent = sess[p].deadSent]
           ELSE [sess[p] EXCEPT !.rewarded = FALSE]]
    /\ UNCHANGED <<link, asks, m, retired>>

\* resetMatch: everybody in the match is born again, with the pauses they had.
ResetMatch(a) ==
    /\ a \in m.open /\ Mode[a] = "castles"
    /\ OnlySess([p \in Bodies |->
           [sess[p] EXCEPT !.shield = @ /\ p \notin m.seats[a]]])

Next ==
    \/ \E c \in Conns : Connect(c) \/ Leave(c) \/ Disconnect(c)
    \/ \E c \in Conns, t \in Tokens :
           Ask(c, t) \/ Answer(c, t) \/ NotTheirs(c, t) \/ JoinCastles(c, t)
    \/ \E p \in Bodies : Sweep(p) \/ Die(p)
    \/ \E a \in Arenas, first \in Bodies \cup {None} : Broadcast(a, first)
    \/ \E a \in Arenas : \/ Retire(a) \/ StartRound(a) \/ ResetMatch(a)
                         \/ Round(a, "warmup", "locked") \/ Round(a, "locked", "ended")
    \/ Restart

Spec == Init /\ [][Next]_vars

-----------------------------------------------------------------------------
\* A user has one session, which byUser, its socket, its arena and the world of
\* the arena know alike; it has a socket that is there, or waits for a return: a
\* join that is answered after its socket went leaves nothing behind.  And an
\* arena exists while humans are on it (flock.manager.ts:1334-1343,
\* flock.gateway.ts:256).
SessionsAgree ==
    /\ \A u \in Users : LET p == m.byUser[u] IN
           p # None => p \in m.world /\ sess[p].user = u
    /\ \A c \in Conns : LET p == m.byConn[c] IN
           p # None => p \in m.world /\ sess[p].conn = c /\ link[c]
    /\ \A p \in m.world : LET s == sess[p] IN
           /\ m.byUser[s.user] = p /\ p \in m.seats[s.arena]
           /\ s.conn # None => m.byConn[s.conn] = p
           /\ s.paused <=> s.conn = None
    /\ \A a \in Arenas : m.seats[a] \subseteq {p \in m.world : sess[p].arena = a}
    /\ m.open = {a \in Arenas : m.seats[a] # {}}

\* No arena has more humans than it may, those who are paused included, and no
\* mode more arenas (flock.manager.ts:1558-1577).
RoomKept ==
    /\ \A a \in Arenas : Cardinality(m.seats[a]) <= Cap[Mode[a]]
    /\ \A d \in Modes : Cardinality({a \in m.open : Mode[a] = d}) <= MaxArenas[d]

\* Who waits for their return is alive, unless a round of the circle began, and on
\* an arena without rounds or matches cannot be eaten either
\* (flock.manager.ts:1764, flock.engine.ts:699).
PausedIsSafe ==
    \A p \in {q \in m.world : sess[q].paused} :
        /\ Mode[sess[p].arena] # "circle" => sess[p].alive
        /\ Mode[sess[p].arena] = "normal" => sess[p].shield

\* The hooks hear of a life once, however often its player breaks off, returns or
\* changes sockets: it is paid for the first place once, and the statistics count
\* its end once, unless it was resumed after its end by a second socket
\* (flock.manager.ts:977-998, 1024-1034, 1609).
LifeCountedOnce ==
    \A p \in m.world : sess[p].prizes <= 1 /\ (sess[p].deaths > 1 => sess[p].recalled)

=============================================================================
