------------------------- MODULE FlockSessions_proofs -------------------------
(***************************************************************************)
(* What holds of FlockSessions for every set of users, sockets, bodies and *)
(* arenas, and every capacity.  Most operations make new maps out of the   *)
(* old ones by removing a session, seating one, or handing one to another  *)
(* socket: a lemma for each says that maps and sessions agree again.       *)
(***************************************************************************)
EXTENDS FlockSessions, FiniteSetTheorems, TLAPS

\* SessionsAgree and RoomKept, of any maps n and sessions t.
UsersAgree(n, t) == \A u \in Users :
    n.byUser[u] # None => n.byUser[u] \in n.world /\ t[n.byUser[u]].user = u
ConnsAgree(n, t) == \A c \in Conns :
    n.byConn[c] # None => n.byConn[c] \in n.world /\ t[n.byConn[c]].conn = c
WorldAgrees(n, t) == \A p \in n.world :
    /\ t[p].user \in Users /\ t[p].arena \in Arenas
    /\ n.byUser[t[p].user] = p /\ p \in n.seats[t[p].arena]
    /\ t[p].conn # None => n.byConn[t[p].conn] = p
    /\ t[p].paused <=> t[p].conn = None
SeatsAgree(n, t) == \A a \in Arenas : \A p \in n.seats[a] : p \in n.world /\ t[p].arena = a
OpenAgrees(n) == n.open = {a \in Arenas : n.seats[a] # {}}

Agree(n, t) == /\ UsersAgree(n, t) /\ ConnsAgree(n, t) /\ WorldAgrees(n, t)
               /\ SeatsAgree(n, t) /\ OpenAgrees(n)

Linked(n, l) == \A c \in Conns : n.byConn[c] # None => l[c]

Full(n) == /\ \A a \in Arenas : Cardinality(n.seats[a]) <= Cap[Mode[a]]
           /\ \A d \in Modes : Cardinality({a \in n.open : Mode[a] = d}) <= MaxArenas[d]

\* PausedIsSafe of a session, and LifeCountedOnce of it with what makes that
\* inductive: no prize before the mark that it was given, and only a session that
\* was resumed after its end has forgotten that its end was told.
Safe(s) == s.paused => /\ Mode[s.arena] # "circle" => s.alive
                       /\ Mode[s.arena] = "normal" => s.shield
Once(s) == /\ s.prizes <= 1
           /\ (Mode[s.arena] # "normal" \/ ~s.rewarded) => s.prizes = 0
           /\ s.deaths > 1 => s.recalled
           /\ (~s.deadSent /\ s.deaths > 0) => s.recalled
Fates(n, t) == \A p \in n.world : Safe(t[p]) /\ Once(t[p])

Rounds == \A a \in Arenas : round[a] # "none" => Mode[a] = "circle"

Asking == asks \in [Conns -> SUBSET Tokens]
Phases == /\ retired \subseteq Arenas
          /\ round \in [Arenas -> {"none", "warmup", "locked", "ended"}] /\ Rounds
Mapped(n, t) == /\ n \in Maps /\ Agree(n, t) /\ Full(n)

FInv == /\ link \in [Conns -> BOOLEAN] /\ Asking /\ Phases
        /\ sess \in [Bodies -> Sessions]
        /\ Mapped(m, sess) /\ Fates(m, sess) /\ Linked(m, link)

LEMMA Constants ==
    /\ Owner \in [Conns -> Users] /\ Mode \in [Arenas -> Modes]
    /\ \A d \in Modes : Cap[d] \in Nat /\ Cap[d] >= 1 /\ MaxArenas[d] \in Nat
    /\ IsFiniteSet(Bodies) /\ IsFiniteSet(Arenas)
    /\ None \notin Conns /\ None \notin Bodies /\ None \notin Users /\ None \notin Arenas
BY FlockAssumption DEF FlockAssumption

\* The fields of maps.
LEMMA Fields ==
    ASSUME NEW n \in Maps
    PROVE  /\ n.byConn \in [Conns -> Bodies \cup {None}]
           /\ n.byUser \in [Users -> Bodies \cup {None}]
           /\ n.seats \in [Arenas -> SUBSET Bodies]
           /\ n.world \subseteq Bodies /\ n.open \subseteq Arenas
BY DEF Maps

-----------------------------------------------------------------------------
(* Sessions. *)

LEMMA NobodyType == Nobody \in Sessions /\ ~Nobody.paused
BY DEF Nobody, Sessions

\* A new session of a user on an arena.
LEMMA NewSession ==
    ASSUME NEW u \in Users, NEW c \in Conns, NEW a \in Arenas
    PROVE  LET s == Born([Nobody EXCEPT !.user = u, !.conn = c, !.arena = a])
           IN  /\ s \in Sessions /\ s.user = u /\ s.conn = c /\ s.arena = a
               /\ ~s.paused /\ Safe(s) /\ Once(s)
<1> DEFINE n1 == [Nobody EXCEPT !.user = u]
           n2 == [n1 EXCEPT !.conn = c]
           n3 == [n2 EXCEPT !.arena = a]
<1>1. n1 \in Sessions /\ n1.user = u /\ ~n1.paused
  BY NobodyType DEF Sessions
<1> HIDE DEF n1
<1>2. n2 \in Sessions /\ n2.user = u /\ n2.conn = c /\ ~n2.paused
  BY <1>1 DEF Sessions
<1> HIDE DEF n2
<1>3. n3 \in Sessions /\ n3.user = u /\ n3.conn = c /\ n3.arena = a /\ ~n3.paused
  BY <1>2 DEF Sessions
<1>4. n3 = [Nobody EXCEPT !.user = u, !.conn = c, !.arena = a]
  BY DEF n1, n2, n3
<1> HIDE DEF n3
<1>5. /\ Born(n3) \in Sessions /\ Born(n3).user = u /\ Born(n3).conn = c
      /\ Born(n3).arena = a /\ ~Born(n3).paused /\ Safe(Born(n3)) /\ Once(Born(n3))
  BY <1>3 DEF Sessions, Born, Safe, Once
<1> QED BY <1>4, <1>5

\* Birth changes neither whose the session is nor where.
LEMMA BornSession ==
    ASSUME NEW s \in Sessions
    PROVE  /\ Born(s) \in Sessions /\ Born(s).user = s.user /\ Born(s).conn = s.conn
           /\ Born(s).arena = s.arena /\ Born(s).paused = s.paused /\ Once(Born(s))
           /\ Born(s).alive
BY DEF Sessions, Born, Once

LEMMA ResumedSession ==
    ASSUME NEW s \in Sessions, NEW c \in Conns
    PROVE  /\ Resumed(s, c) \in Sessions /\ Resumed(s, c).user = s.user
           /\ Resumed(s, c).conn = c /\ Resumed(s, c).arena = s.arena
           /\ ~Resumed(s, c).paused
           /\ Once(s) => Once(Resumed(s, c))
<1> DEFINE s1 == [s EXCEPT !.conn = c]
           s2 == [s1 EXCEPT !.paused = FALSE]
           s3 == [s2 EXCEPT !.shield = FALSE]
           s4 == [s3 EXCEPT !.deadSent = @ /\ s.alive]
           s5 == [s4 EXCEPT !.recalled = @ \/ (~s.alive /\ s.deadSent)]
           Same(t) == /\ t.user = s.user /\ t.arena = s.arena /\ t.alive = s.alive
                      /\ t.prizes = s.prizes /\ t.rewarded = s.rewarded
                      /\ t.deaths = s.deaths /\ t.conn = c
<1>1. s1 \in Sessions /\ Same(s1) /\ s1.deadSent = s.deadSent /\ s1.recalled = s.recalled
  BY DEF Sessions
<1> HIDE DEF s1
<1>2. /\ s2 \in Sessions /\ Same(s2) /\ ~s2.paused
      /\ s2.deadSent = s.deadSent /\ s2.recalled = s.recalled
  BY <1>1 DEF Sessions
<1> HIDE DEF s2
<1>3. /\ s3 \in Sessions /\ Same(s3) /\ ~s3.paused
      /\ s3.deadSent = s.deadSent /\ s3.recalled = s.recalled
  BY <1>2 DEF Sessions
<1> HIDE DEF s3
<1>4. /\ s4 \in Sessions /\ Same(s4) /\ ~s4.paused
      /\ s4.deadSent = (s.deadSent /\ s.alive) /\ s4.recalled = s.recalled
  BY <1>3 DEF Sessions
<1> HIDE DEF s4
<1>5. /\ s5 \in Sessions /\ Same(s5) /\ ~s5.paused
      /\ s5.deadSent = (s.deadSent /\ s.alive)
      /\ s5.recalled = (s.recalled \/ (~s.alive /\ s.deadSent))
  BY <1>4 DEF Sessions
<1>6. s5 = Resumed(s, c)
  BY DEF s1, s2, s3, s4, s5, Resumed
<1> HIDE DEF s5
<1>7. Once(s) => Once(s5)
  BY <1>5 DEF Once
<1> QED BY <1>5, <1>6, <1>7

\* Only whose a session is, where, and whether it is paused matters to the maps.
Alike(s, t) == /\ s.user = t.user /\ s.conn = t.conn /\ s.arena = t.arena
               /\ s.paused = t.paused

LEMMA AlikeAgree ==
    ASSUME NEW n \in Maps, NEW t, NEW v, Agree(n, t),
           \A p \in n.world : Alike(v[p], t[p])
    PROVE  Agree(n, v)
<1>1. UsersAgree(n, v)
  BY DEF Agree, UsersAgree, Alike
<1>2. ConnsAgree(n, v)
  BY DEF Agree, ConnsAgree, Alike
<1>3. WorldAgrees(n, v)
  BY Zenon DEF Agree, WorldAgrees, Alike
<1>4. SeatsAgree(n, v)
  BY Zenon DEF Agree, SeatsAgree, Alike
<1> QED BY <1>1, <1>2, <1>3, <1>4 DEF Agree

-----------------------------------------------------------------------------
(* Maps. *)

\* The removal of a session leaves maps that agree and are not fuller.
LEMMA RemoveAgrees ==
    ASSUME sess \in [Bodies -> Sessions], Mapped(m, sess), NEW p \in m.world
    PROVE  /\ Mapped(Remove(m, p), sess)
           /\ Remove(m, p).world = m.world \ {p}
           /\ Remove(m, p).byUser[sess[p].user] = None
           /\ \A u \in Users : m.byUser[u] = None => Remove(m, p).byUser[u] = None
           /\ \A c \in Conns : Remove(m, p).byConn[c] # None =>
                  Remove(m, p).byConn[c] = m.byConn[c]
<1> DEFINE n == Remove(m, p)
           u == sess[p].user
           k == sess[p].conn
           b == sess[p].arena
           left == {q \in m.seats[b] : sess[q].user # u}
<1>1. m \in Maps /\ p \in Bodies /\ Agree(m, sess) /\ Full(m)
  BY Fields DEF Mapped
<1>2. /\ m.byConn \in [Conns -> Bodies \cup {None}]
      /\ m.byUser \in [Users -> Bodies \cup {None}]
      /\ m.seats \in [Arenas -> SUBSET Bodies]
      /\ m.world \subseteq Bodies /\ m.open \subseteq Arenas
  BY <1>1, Fields
<1>3. /\ u \in Users /\ b \in Arenas /\ m.byUser[u] = p /\ p \in m.seats[b]
      /\ k # None => m.byConn[k] = p
  BY <1>1, Zenon DEF Agree, WorldAgrees
<1>4. \A q \in m.world : q # p => sess[q].user # u
  BY <1>1, <1>3 DEF Agree, WorldAgrees
<1>5. left = m.seats[b] \ {p}
  <2>1. \A q \in m.seats[b] : q \in m.world
    BY <1>1, <1>3, Zenon DEF Agree, SeatsAgree
  <2> QED BY <1>4, <2>1
<1>6. /\ n.byConn = [c \in Conns |-> IF c = k THEN None ELSE m.byConn[c]]
      /\ n.byUser = [m.byUser EXCEPT ![u] = None]
      /\ n.seats = [m.seats EXCEPT ![b] = left]
      /\ n.world = m.world \ {p}
      /\ n.open = IF left = {} THEN m.open \ {b} ELSE m.open
      /\ n = [byConn |-> n.byConn, byUser |-> n.byUser, seats |-> n.seats,
              world |-> n.world, open |-> n.open]
  BY DEF Remove
<1> HIDE DEF n
<1>7. n \in Maps
  <2>1. /\ n.byConn \in [Conns -> Bodies \cup {None}]
        /\ n.byUser \in [Users -> Bodies \cup {None}]
        /\ n.seats \in [Arenas -> SUBSET Bodies]
        /\ n.world \subseteq Bodies /\ n.open \subseteq Arenas
    BY <1>2, <1>3, <1>5, <1>6
  <2> QED BY <1>6, <2>1, Zenon DEF Maps
<1> HIDE DEF left
<1>8. /\ \A c \in Conns : n.byConn[c] = IF c = k THEN None ELSE m.byConn[c]
      /\ \A v \in Users : n.byUser[v] = IF v = u THEN None ELSE m.byUser[v]
      /\ \A a \in Arenas : n.seats[a] = m.seats[a] \ {p}
  <2>1. \A a \in Arenas : a # b => p \notin m.seats[a]
    BY <1>1, Zenon DEF Agree, SeatsAgree
  <2>2. \A a \in Arenas : n.seats[a] = IF a = b THEN left ELSE m.seats[a]
    BY <1>2, <1>3, <1>6
  <2>3. \A a \in Arenas : n.seats[a] = m.seats[a] \ {p}
    BY <1>5, <2>1, <2>2
  <2> QED BY <1>2, <1>6, <2>3
<1>9. UsersAgree(n, sess)
  BY <1>1, <1>3, <1>6, <1>8 DEF Agree, UsersAgree
<1>10. ConnsAgree(n, sess)
  <2>1. ASSUME NEW c \in Conns, n.byConn[c] # None
        PROVE  n.byConn[c] \in n.world /\ sess[n.byConn[c]].conn = c
    <3>1. c # k /\ n.byConn[c] = m.byConn[c]
      BY <1>8, <2>1, Zenon
    <3>2. m.byConn[c] \in m.world /\ sess[m.byConn[c]].conn = c
      BY <1>1, <2>1, <3>1, Zenon DEF Agree, ConnsAgree
    <3> QED BY <1>6, <3>1, <3>2
  <2> QED BY <2>1, Zenon DEF ConnsAgree
<1>11. WorldAgrees(n, sess)
  <2>1. ASSUME NEW q \in n.world
        PROVE  /\ sess[q].user \in Users /\ sess[q].arena \in Arenas
               /\ n.byUser[sess[q].user] = q /\ q \in n.seats[sess[q].arena]
               /\ sess[q].conn # None => n.byConn[sess[q].conn] = q
               /\ sess[q].paused <=> sess[q].conn = None
    <3>1. q \in m.world /\ q # p /\ q \in Bodies
      BY <1>2, <1>6
    <3>2. /\ sess[q].user \in Users /\ sess[q].arena \in Arenas
          /\ m.byUser[sess[q].user] = q /\ q \in m.seats[sess[q].arena]
          /\ sess[q].conn # None => m.byConn[sess[q].conn] = q
          /\ sess[q].paused <=> sess[q].conn = None
      BY <1>1, <3>1, Zenon DEF Agree, WorldAgrees
    <3>3. sess[q].user # u
      BY <1>4, <3>1
    <3>4. sess[q].conn # None => sess[q].conn # k /\ sess[q].conn \in Conns
      <4>1. sess[q] \in Sessions
        BY <3>1
      <4> QED BY <1>3, <3>1, <3>2, <4>1 DEF Sessions
    <3> QED BY <1>8, <3>1, <3>2, <3>3, <3>4
  <2> QED BY <2>1, Zenon DEF WorldAgrees
<1>12. SeatsAgree(n, sess)
  BY <1>1, <1>6, <1>8 DEF Agree, SeatsAgree
<1>13. OpenAgrees(n)
  <2>1. m.open = {a \in Arenas : m.seats[a] # {}}
    BY <1>1, Zenon DEF Agree, OpenAgrees
  <2>2. \A a \in Arenas : a # b => n.seats[a] = m.seats[a]
    BY <1>2, <1>6, <1>3
  <2>3. n.seats[b] = left
    BY <1>2, <1>6, <1>3
  <2> QED BY <1>3, <1>6, <2>1, <2>2, <2>3 DEF OpenAgrees
<1>14. Full(n)
  <2>1. \A a \in Arenas : Cardinality(n.seats[a]) <= Cap[Mode[a]]
    <3>1. ASSUME NEW a \in Arenas PROVE Cardinality(n.seats[a]) <= Cap[Mode[a]]
      <4>1. IsFiniteSet(m.seats[a]) /\ n.seats[a] \subseteq m.seats[a]
        BY <1>2, <1>8, Constants, FS_Subset
      <4>2. Cardinality(n.seats[a]) <= Cardinality(m.seats[a])
        BY <4>1, FS_Subset
      <4>3. Cardinality(m.seats[a]) <= Cap[Mode[a]] /\ Cap[Mode[a]] \in Nat
        BY <1>1, Constants DEF Full
      <4>4. Cardinality(n.seats[a]) \in Nat /\ Cardinality(m.seats[a]) \in Nat
        BY <4>1, FS_Subset, FS_CardinalityType
      <4> QED BY <4>2, <4>3, <4>4
    <3> QED BY <3>1
  <2>2. ASSUME NEW d \in Modes
        PROVE  Cardinality({a \in n.open : Mode[a] = d}) <= MaxArenas[d]
    <3> DEFINE x == {a \in n.open : Mode[a] = d}
               y == {a \in m.open : Mode[a] = d}
    <3>1. x \subseteq y /\ IsFiniteSet(y)
      <4>1. x \subseteq y /\ y \subseteq Arenas
        BY <1>2, <1>6
      <4> QED BY <4>1, Constants, FS_Subset
    <3>2. Cardinality(y) <= MaxArenas[d] /\ MaxArenas[d] \in Nat
      BY <1>1, Constants DEF Full
    <3> HIDE DEF x, y
    <3>3. Cardinality(x) <= Cardinality(y) /\ IsFiniteSet(x)
      BY <3>1, FS_Subset
    <3>4. Cardinality(x) \in Nat /\ Cardinality(y) \in Nat
      BY <3>1, <3>3, FS_CardinalityType
    <3>5. Cardinality(x) <= MaxArenas[d]
      BY <3>2, <3>3, <3>4
    <3> QED BY <3>5 DEF x
  <2> QED BY <2>1, <2>2 DEF Full
<1>15. Mapped(n, sess)
  BY <1>7, <1>9, <1>10, <1>11, <1>12, <1>13, <1>14 DEF Mapped, Agree
<1>16. n.byUser[u] = None /\ \A v \in Users : m.byUser[v] = None => n.byUser[v] = None
  BY <1>3, <1>8
<1>17. \A c \in Conns : n.byConn[c] # None => n.byConn[c] = m.byConn[c]
  BY <1>8, Zenon
<1> QED BY <1>6, <1>15, <1>16, <1>17 DEF n

\* A place that pickArena finds is not one too many, in its arena or its mode.
LEMMA PickedHasRoom ==
    ASSUME NEW n \in Maps, Full(n), OpenAgrees(n), NEW d \in Modes, NEW a \in Picks(n, d)
    PROVE  /\ a \in Arenas /\ Mode[a] = d
           /\ Cardinality(n.seats[a]) < Cap[d]
           /\ a \in n.open \/ Cardinality({b \in n.open : Mode[b] = d}) < MaxArenas[d]
<1> DEFINE same == {b \in n.open : Mode[b] = d}
           roomy == {b \in same : Cardinality(Seated(n, b)) < Cap[d]}
           fresh == roomy \ retired
<1>1. \/ a \in roomy
      \/ Cardinality(same) < MaxArenas[d] /\ a \in {b \in Arenas \ n.open : Mode[b] = d}
  BY Zenon DEF Picks
<1>2. n.open \subseteq Arenas /\ n.open = {b \in Arenas : n.seats[b] # {}}
  BY Fields DEF OpenAgrees
<1>3. CASE a \in roomy
  BY <1>2, <1>3 DEF Seated
<1>4. CASE Cardinality(same) < MaxArenas[d] /\ a \in {b \in Arenas \ n.open : Mode[b] = d}
  <2>1. n.seats[a] = {} /\ a \in Arenas /\ Mode[a] = d
    BY <1>2, <1>4
  <2>2. Cardinality(n.seats[a]) = 0 /\ 0 < Cap[d]
    <3>1. Cap[d] \in Nat /\ Cap[d] >= 1
      BY Constants
    <3> QED BY <2>1, <3>1, FS_EmptySet
  <2> QED BY <1>4, <2>1, <2>2
<1> QED BY <1>1, <1>3, <1>4

\* A new session in maps that agree, where its user and its socket have none.
LEMMA SeatAgrees ==
    ASSUME sess \in [Bodies -> Sessions],
           NEW n, Mapped(n, sess), NEW c \in Conns, NEW p \in Bodies \ n.world,
           n.byConn[c] = None, n.byUser[Owner[c]] = None,
           NEW d \in Modes, NEW a \in Picks(n, d),
           NEW t, t \in [Bodies -> Sessions],
           \A q \in Bodies \ {p} : t[q] = sess[q],
           t[p].user = Owner[c], t[p].conn = c, t[p].arena = a, ~t[p].paused
    PROVE  /\ Mapped(Seat(n, p, c, a), t)
           /\ Seat(n, p, c, a).world = n.world \cup {p}
           /\ Seat(n, p, c, a).byConn = [n.byConn EXCEPT ![c] = p]
<1> DEFINE w == Seat(n, p, c, a)
           u == Owner[c]
<1>1. n \in Maps /\ Agree(n, sess) /\ Full(n) /\ u \in Users
  BY Constants DEF Mapped
<1>2. /\ n.byConn \in [Conns -> Bodies \cup {None}]
      /\ n.byUser \in [Users -> Bodies \cup {None}]
      /\ n.seats \in [Arenas -> SUBSET Bodies]
      /\ n.world \subseteq Bodies /\ n.open \subseteq Arenas
  BY <1>1, Fields
<1>3. /\ a \in Arenas /\ Mode[a] = d /\ Cardinality(n.seats[a]) < Cap[d]
      /\ a \in n.open \/ Cardinality({b \in n.open : Mode[b] = d}) < MaxArenas[d]
  BY <1>1, PickedHasRoom DEF Agree
<1>4. \A q \in n.world : sess[q].user # u
  BY <1>1, Constants, <1>2 DEF Agree, WorldAgrees
<1>5. {q \in n.seats[a] : sess[q].user # u} = n.seats[a]
  <2>1. \A q \in n.seats[a] : q \in n.world
    BY <1>1, <1>3, Zenon DEF Agree, SeatsAgree
  <2> QED BY <1>4, <2>1
<1>6. /\ w.byConn = [n.byConn EXCEPT ![c] = p]
      /\ w.byUser = [n.byUser EXCEPT ![u] = p]
      /\ w.seats = [n.seats EXCEPT ![a] = {q \in @ : sess[q].user # u} \cup {p}]
      /\ w.world = n.world \cup {p} /\ w.open = n.open \cup {a}
      /\ w = [byConn |-> w.byConn, byUser |-> w.byUser, seats |-> w.seats,
              world |-> w.world, open |-> w.open]
  BY DEF Seat
<1> HIDE DEF w
<1>7. w.seats = [n.seats EXCEPT ![a] = n.seats[a] \cup {p}]
  BY <1>2, <1>3, <1>5, <1>6
<1>8. w \in Maps
  <2>1. /\ w.byConn \in [Conns -> Bodies \cup {None}]
        /\ w.byUser \in [Users -> Bodies \cup {None}]
        /\ w.seats \in [Arenas -> SUBSET Bodies]
        /\ w.world \subseteq Bodies /\ w.open \subseteq Arenas
    BY <1>1, <1>2, <1>3, <1>6, <1>7
  <2> QED BY <1>6, <2>1, Zenon DEF Maps
<1>9. /\ \A b \in Conns : w.byConn[b] = IF b = c THEN p ELSE n.byConn[b]
      /\ \A v \in Users : w.byUser[v] = IF v = u THEN p ELSE n.byUser[v]
      /\ \A b \in Arenas : w.seats[b] = IF b = a THEN n.seats[a] \cup {p} ELSE n.seats[b]
      /\ p \notin n.world /\ p # None
  <2>1. p \notin n.world /\ p # None
    BY Constants
  <2>2. \A b \in Conns : w.byConn[b] = IF b = c THEN p ELSE n.byConn[b]
    BY <1>2, <1>6
  <2>3. \A v \in Users : w.byUser[v] = IF v = u THEN p ELSE n.byUser[v]
    BY <1>1, <1>2, <1>6
  <2>4. \A b \in Arenas : w.seats[b] = IF b = a THEN n.seats[a] \cup {p} ELSE n.seats[b]
    BY <1>2, <1>3, <1>7
  <2> QED BY <2>1, <2>2, <2>3, <2>4
<1>10. \A q \in n.world : q # p /\ t[q] = sess[q]
  BY <1>2, <1>9
<1>11. UsersAgree(w, t)
  BY <1>1, <1>6, <1>9, <1>10 DEF Agree, UsersAgree
<1>12. ConnsAgree(w, t)
  BY <1>1, <1>6, <1>9, <1>10 DEF Agree, ConnsAgree
<1>13. WorldAgrees(w, t)
  <2>1. /\ t[p].user \in Users /\ t[p].arena \in Arenas
        /\ w.byUser[t[p].user] = p /\ p \in w.seats[t[p].arena]
        /\ t[p].conn # None => w.byConn[t[p].conn] = p
        /\ t[p].paused <=> t[p].conn = None
    BY <1>1, <1>3, <1>9, Constants
  <2>2. ASSUME NEW q \in n.world
        PROVE  /\ t[q].user \in Users /\ t[q].arena \in Arenas
               /\ w.byUser[t[q].user] = q /\ q \in w.seats[t[q].arena]
               /\ t[q].conn # None => w.byConn[t[q].conn] = q
               /\ t[q].paused <=> t[q].conn = None
    <3>1. /\ sess[q].user \in Users /\ sess[q].arena \in Arenas
          /\ n.byUser[sess[q].user] = q /\ q \in n.seats[sess[q].arena]
          /\ sess[q].conn # None => n.byConn[sess[q].conn] = q
          /\ sess[q].paused <=> sess[q].conn = None
      BY <1>1, Zenon DEF Agree, WorldAgrees
    <3>2. t[q] = sess[q] /\ sess[q].user # u /\ q \in Bodies
      BY <1>2, <1>4, <1>10
    <3>3. sess[q].conn # None => sess[q].conn \in Conns /\ sess[q].conn # c
      <4>1. sess[q] \in Sessions
        BY <3>2
      <4>2. q # None
        BY <3>2, Constants
      <4> QED BY <3>1, <4>1, <4>2 DEF Sessions
    <3> QED BY <1>9, <3>1, <3>2, <3>3
  <2> QED BY <1>6, <2>1, <2>2 DEF WorldAgrees
<1>14. SeatsAgree(w, t)
  BY <1>1, <1>6, <1>9, <1>10 DEF Agree, SeatsAgree
<1>15. OpenAgrees(w)
  <2>1. n.open = {b \in Arenas : n.seats[b] # {}}
    BY <1>1, Zenon DEF Agree, OpenAgrees
  <2>2. w.seats[a] # {} /\ \A b \in Arenas : b # a => w.seats[b] = n.seats[b]
    BY <1>3, <1>9
  <2>3. w.open = n.open \cup {a}
    BY <1>6
  <2>4. w.open = {b \in Arenas : w.seats[b] # {}}
    BY <1>3, <2>1, <2>2, <2>3
  <2> QED BY <2>4 DEF OpenAgrees
<1>16. Full(w)
  <2>1. ASSUME NEW b \in Arenas PROVE Cardinality(w.seats[b]) <= Cap[Mode[b]]
    <3>1. CASE b # a
      BY <1>1, <1>9, <3>1 DEF Full
    <3>2. CASE b = a
      <4>1. IsFiniteSet(n.seats[a])
        BY <1>2, <1>3, Constants, FS_Subset
      <4>2. Cardinality(n.seats[a] \cup {p}) <= Cardinality(n.seats[a]) + 1
        <5>1. Cardinality(n.seats[a]) \in Nat
          BY <4>1, FS_CardinalityType
        <5>2. \/ Cardinality(n.seats[a] \cup {p}) = Cardinality(n.seats[a])
              \/ Cardinality(n.seats[a] \cup {p}) = Cardinality(n.seats[a]) + 1
          BY <4>1, FS_AddElement, Zenon
        <5> QED BY <5>1, <5>2
      <4>3. Cardinality(n.seats[a]) \in Nat /\ Cap[d] \in Nat
        BY <4>1, FS_CardinalityType, Constants
      <4>4. Cardinality(n.seats[a] \cup {p}) \in Nat
        BY <4>1, FS_AddElement, FS_CardinalityType
      <4>5. Cardinality(n.seats[a] \cup {p}) <= Cap[d]
        BY <1>3, <4>2, <4>3, <4>4
      <4> QED BY <1>3, <1>9, <3>2, <4>5
    <3> QED BY <3>1, <3>2
  <2>2. ASSUME NEW e \in Modes
        PROVE  Cardinality({b \in w.open : Mode[b] = e}) <= MaxArenas[e]
    <3> DEFINE x == {b \in w.open : Mode[b] = e}
               y == {b \in n.open : Mode[b] = e}
    <3>1. Cardinality(y) <= MaxArenas[e] /\ MaxArenas[e] \in Nat
      BY <1>1, Constants DEF Full
    <3>2. IsFiniteSet(y)
      <4>1. y \subseteq Arenas
        BY <1>2
      <4> QED BY <4>1, Constants, FS_Subset
    <3>3. x = y \/ (x = y \cup {a} /\ e = d /\ Cardinality(y) < MaxArenas[e])
      <4>1. CASE a \in n.open \/ e # d
        BY <1>3, <1>6, <4>1
      <4>2. CASE a \notin n.open /\ e = d
        BY <1>3, <1>6, <4>2
      <4> QED BY <4>1, <4>2
    <3> HIDE DEF x, y
    <3>4. Cardinality(y) \in Nat
      BY <3>2, FS_CardinalityType
    <3>5. Cardinality(y \cup {a}) = Cardinality(y) \/ Cardinality(y \cup {a}) = Cardinality(y) + 1
      BY <3>2, FS_AddElement
    <3>6. Cardinality(x) <= MaxArenas[e]
      <4>1. CASE x = y
        BY <3>1, <4>1
      <4>2. CASE x = y \cup {a} /\ Cardinality(y) < MaxArenas[e]
        <5>1. Cardinality(x) = Cardinality(y) \/ Cardinality(x) = Cardinality(y) + 1
          BY <3>5, <4>2
        <5> QED BY <3>1, <3>4, <4>2, <5>1
      <4> QED BY <3>3, <4>1, <4>2
    <3> QED BY <3>6 DEF x
  <2> QED BY <2>1, <2>2 DEF Full
<1>17. Mapped(w, t)
  BY <1>8, <1>11, <1>12, <1>13, <1>14, <1>15, <1>16 DEF Mapped, Agree
<1> QED BY <1>6, <1>17 DEF w

\* What is said of the next maps and sessions is said of the maps and sessions next.
LEMMA Primed ==
    /\ Mapped(m', sess') => Mapped(m, sess)'
    /\ Fates(m', sess') => Fates(m, sess)'
BY DEF Mapped, Fates, Agree, Full, UsersAgree, ConnsAgree, WorldAgrees,
       SeatsAgree, OpenAgrees, Safe, Once

\* Whatever maps and sessions agree may become the manager's.
LEMMA BecomeKeeps ==
    ASSUME Phases, NEW n, NEW t, NEW us, NEW ask \in [Conns -> SUBSET Tokens],
           t \in [Bodies -> Sessions], Mapped(n, t), Fates(n, t), Become(n, t, us, ask)
    PROVE  /\ m' = n /\ Asking' /\ Phases' /\ sess' \in [Bodies -> Sessions]
           /\ Mapped(m, sess)' /\ Fates(m, sess)'
<1> DEFINE kept == {a \in Arenas : m.seats[a] \cap n.seats[a] # {}}
<1>1. /\ m' = n
      /\ sess' = [p \in Bodies |-> IF p \in n.world THEN t[p] ELSE Nobody]
      /\ retired' = retired \cap kept
      /\ round' = [a \in Arenas |->
             IF a \in kept THEN round[a]
             ELSE IF a \in n.open /\ Mode[a] = "circle" THEN "warmup" ELSE "none"]
      /\ asks' = [c \in Conns |->
             IF Owner[c] \in us /\ "current" \in ask[c]
             THEN (ask[c] \ {"current"}) \cup {"other"} ELSE ask[c]]
  BY Zenon DEF Become
<1> HIDE DEF kept
<1>2. n \in Maps /\ Agree(n, t) /\ Full(n) /\ n.world \subseteq Bodies
  BY Fields DEF Mapped
<1>3. sess' \in [Bodies -> Sessions] /\ \A p \in n.world : sess'[p] = t[p]
  BY <1>1, <1>2, NobodyType
<1>4. Agree(n, sess')
  BY <1>2, <1>3, AlikeAgree DEF Alike
<1>5. Asking'
  BY <1>1 DEF Asking, Tokens
<1>6. Phases'
  BY <1>1 DEF Phases, Rounds
<1>7. Mapped(m, sess)'
  <2>1. Mapped(m', sess')
    BY <1>1, <1>2, <1>4 DEF Mapped
  <2> QED BY <2>1, Primed
<1>8. Fates(m, sess)'
  <2>1. \A p \in n.world : Safe(sess'[p]) /\ Once(sess'[p])
    BY <1>3, Zenon DEF Fates
  <2>2. Fates(m', sess')
    BY <1>1, <2>1 DEF Fates
  <2> QED BY <2>2, Primed
<1> QED BY <1>1, <1>3, <1>5, <1>6, <1>7, <1>8

-----------------------------------------------------------------------------
(* The operations of the manager. *)

\* A session is dropped.
LEMMA DropKeeps ==
    ASSUME FInv, NEW p \in m.world, Drop(p)
    PROVE  /\ Asking' /\ Phases' /\ sess' \in [Bodies -> Sessions]
           /\ Mapped(m, sess)' /\ Fates(m, sess)' /\ Linked(m', link)
           /\ \A c \in Conns : m.byConn[c] = p => m'.byConn[c] = None
<1> DEFINE n == Remove(m, p)
<1>1. /\ Mapped(n, sess) /\ n.world = m.world \ {p}
      /\ \A c \in Conns : n.byConn[c] # None => n.byConn[c] = m.byConn[c]
  BY RemoveAgrees, Zenon DEF FInv
<1>2. Become(n, sess, {sess[p].user}, asks)
  BY Zenon DEF Drop
<1> HIDE DEF n
<1>3. Fates(n, sess)
  BY <1>1 DEF FInv, Fates
<1>4. Phases /\ asks \in [Conns -> SUBSET Tokens] /\ sess \in [Bodies -> Sessions]
  BY DEF FInv, Asking
<1>5. /\ m' = n /\ Asking' /\ Phases' /\ sess' \in [Bodies -> Sessions]
      /\ Mapped(m, sess)' /\ Fates(m, sess)'
  BY <1>1, <1>2, <1>3, <1>4, BecomeKeeps
<1>6. Linked(m', link)
  <2>1. Linked(m, link)
    BY DEF FInv
  <2> QED BY <1>1, <1>5, <2>1 DEF Linked
<1>7. ASSUME NEW c \in Conns, m.byConn[c] = p PROVE n.byConn[c] = None
  <2>1. m.world \subseteq Bodies /\ ConnsAgree(n, sess)
    BY <1>1, Fields DEF FInv, Mapped, Agree
  <2>2. n.byConn[c] # None => n.byConn[c] = p /\ p \in n.world
    BY <1>1, <1>7, <2>1 DEF ConnsAgree
  <2> QED BY <1>1, <2>2
<1> QED BY <1>5, <1>6, <1>7

\* Sessions that are changed where they are.
LEMMA ChangedSessions ==
    ASSUME FInv, NEW t, t \in [Bodies -> Sessions],
           \A p \in m.world : Alike(t[p], sess[p]) /\ Safe(t[p]) /\ Once(t[p])
    PROVE  Mapped(m, t) /\ Fates(m, t)
<1>1. m \in Maps /\ Agree(m, sess) /\ Full(m)
  BY DEF FInv, Mapped
<1>2. Agree(m, t)
  BY <1>1, AlikeAgree
<1> QED BY <1>1, <1>2 DEF Mapped, Fates

LEMMA AgainKeeps ==
    ASSUME FInv, NEW c \in Conns, NEW asked \in [Conns -> SUBSET Tokens], Again(c, asked)
    PROVE  /\ Asking' /\ Phases' /\ sess' \in [Bodies -> Sessions]
           /\ Mapped(m, sess)' /\ Fates(m, sess)' /\ Linked(m', link)
<1> DEFINE p == m.byConn[c]
           t == [sess EXCEPT ![p] = Born(@)]
<1>1. /\ p \in m.world /\ sess[p].conn = c /\ ~sess[p].paused
      /\ p \in Bodies /\ sess[p] \in Sessions
  <2>1. Agree(m, sess) /\ m.world \subseteq Bodies /\ p # None
    BY Fields DEF FInv, Mapped, Again
  <2>2. p \in m.world /\ sess[p].conn = c
    BY <2>1 DEF Agree, ConnsAgree
  <2>3. sess[p].paused <=> sess[p].conn = None
    BY <2>1, <2>2, Zenon DEF Agree, WorldAgrees
  <2>4. sess[p] \in Sessions
    BY <2>1, <2>2 DEF FInv
  <2>5. sess[p].paused \in BOOLEAN
    BY <2>4 DEF Sessions
  <2> QED BY <2>1, <2>2, <2>3, <2>4, <2>5, Constants
<1>2. Mapped(m, sess) /\ Fates(m, sess) /\ sess \in [Bodies -> Sessions] /\ Phases
  BY DEF FInv
<1>3. Mapped(m, t) /\ Fates(m, t) /\ t \in [Bodies -> Sessions]
  <2>1. t \in [Bodies -> Sessions]
    BY <1>1, <1>2, BornSession
  <2>2. \A q \in m.world : t[q] = IF q = p THEN Born(sess[p]) ELSE sess[q]
    BY <1>1, <1>2, Fields DEF Mapped
  <2>3. Alike(Born(sess[p]), sess[p]) /\ Safe(Born(sess[p])) /\ Once(Born(sess[p]))
    BY <1>1, BornSession DEF Alike, Safe
  <2>4. \A q \in m.world : Alike(sess[q], sess[q]) /\ Safe(sess[q]) /\ Once(sess[q])
    BY <1>2 DEF Fates, Alike
  <2>5. \A q \in m.world : Alike(t[q], sess[q]) /\ Safe(t[q]) /\ Once(t[q])
    BY <2>2, <2>3, <2>4, Zenon
  <2> HIDE DEF t
  <2> QED BY <2>1, <2>5, ChangedSessions
<1>4. \/ Become(m, t, {}, asked)
      \/ Become(m, sess, {}, asked)
  BY Zenon DEF Again
<1> HIDE DEF t, p
<1>5. /\ m' = m /\ Asking' /\ Phases' /\ sess' \in [Bodies -> Sessions]
      /\ Mapped(m, sess)' /\ Fates(m, sess)'
  BY <1>2, <1>3, <1>4, BecomeKeeps
<1> QED BY <1>5 DEF FInv

\* The session of a user is handed to a socket that has none.
LEMMA ResumeKeeps ==
    ASSUME FInv, NEW c \in Conns, link[c], NEW asked \in [Conns -> SUBSET Tokens],
           Resume(c, asked)
    PROVE  /\ Asking' /\ Phases' /\ sess' \in [Bodies -> Sessions]
           /\ Mapped(m, sess)' /\ Fates(m, sess)' /\ Linked(m', link)
<1> DEFINE p == m.byUser[Owner[c]]
           k == sess[p].conn
           others == [d \in Conns |-> IF d = k THEN None ELSE m.byConn[d]]
           after == [others EXCEPT ![c] = p]
           n == [m EXCEPT !.byConn = after]
           t == [sess EXCEPT ![p] = Resumed(@, c)]
<1>1. /\ m.byConn[c] = None /\ p # None /\ Become(n, t, {Owner[c]}, asked)
  BY Zenon DEF Resume
<1>2. /\ m \in Maps /\ Agree(m, sess) /\ Full(m) /\ Fates(m, sess) /\ Phases
      /\ sess \in [Bodies -> Sessions] /\ Linked(m, link)
  BY DEF FInv, Mapped
<1>3. /\ m.byConn \in [Conns -> Bodies \cup {None}]
      /\ m.byUser \in [Users -> Bodies \cup {None}]
      /\ m.seats \in [Arenas -> SUBSET Bodies]
      /\ m.world \subseteq Bodies /\ m.open \subseteq Arenas
  BY <1>2, Fields
<1>4. p \in m.world /\ p \in Bodies /\ sess[p] \in Sessions /\ p # None
  BY <1>1, <1>2, <1>3, Constants DEF Agree, UsersAgree
<1>5. /\ n.byConn = after /\ n.byUser = m.byUser /\ n.seats = m.seats
      /\ n.world = m.world /\ n.open = m.open /\ n \in Maps
  <2>1. after \in [Conns -> Bodies \cup {None}]
    BY <1>3, <1>4
  <2> HIDE DEF after
  <2> QED BY <1>2, <2>1 DEF Maps
<1>6. \A d \in Conns : n.byConn[d] = IF d = c THEN p ELSE IF d = k THEN None ELSE m.byConn[d]
  BY <1>5
<1>7. /\ t \in [Bodies -> Sessions]
      /\ \A q \in m.world : t[q] = IF q = p THEN Resumed(sess[p], c) ELSE sess[q]
  BY <1>2, <1>3, <1>4, ResumedSession
<1> HIDE DEF n, t, after, others
<1>8. /\ t[p].user = sess[p].user /\ t[p].arena = sess[p].arena /\ t[p].conn = c
      /\ t[p].paused = FALSE /\ Once(t[p])
  <2>1. /\ Resumed(sess[p], c).user = sess[p].user /\ Resumed(sess[p], c).conn = c
        /\ Resumed(sess[p], c).arena = sess[p].arena /\ ~Resumed(sess[p], c).paused
        /\ Resumed(sess[p], c) \in Sessions
        /\ Once(Resumed(sess[p], c))
    BY <1>2, <1>4, ResumedSession DEF Fates
  <2>2. Resumed(sess[p], c).paused \in BOOLEAN
    BY <2>1 DEF Sessions
  <2> QED BY <1>4, <1>7, <2>1, <2>2
<1>9. /\ sess[p].user \in Users /\ sess[p].arena \in Arenas
      /\ m.byUser[sess[p].user] = p /\ p \in m.seats[sess[p].arena]
      /\ k # None => m.byConn[k] = p
  BY <1>2, <1>4, Zenon DEF Agree, WorldAgrees
<1>10. UsersAgree(n, t)
  BY <1>2, <1>5, <1>7, <1>8 DEF Agree, UsersAgree
<1>11. ConnsAgree(n, t)
  <2>1. ASSUME NEW d \in Conns, n.byConn[d] # None
        PROVE  n.byConn[d] \in n.world /\ t[n.byConn[d]].conn = d
    <3>1. CASE d = c
      BY <1>4, <1>5, <1>6, <1>8, <3>1
    <3>2. CASE d # c
      <4>1. d # k /\ n.byConn[d] = m.byConn[d] /\ m.byConn[d] # None
        BY <1>6, <2>1, <3>2, Zenon
      <4>2. m.byConn[d] \in m.world /\ sess[m.byConn[d]].conn = d
        BY <1>2, <4>1, Zenon DEF Agree, ConnsAgree
      <4> QED BY <1>5, <1>7, <4>1, <4>2
    <3> QED BY <3>1, <3>2
  <2> QED BY <2>1, Zenon DEF ConnsAgree
<1>12. WorldAgrees(n, t)
  <2>1. ASSUME NEW q \in m.world, q # p
        PROVE  /\ t[q].user \in Users /\ t[q].arena \in Arenas
               /\ n.byUser[t[q].user] = q /\ q \in n.seats[t[q].arena]
               /\ t[q].conn # None => n.byConn[t[q].conn] = q
               /\ t[q].paused <=> t[q].conn = None
    <3>1. /\ sess[q].user \in Users /\ sess[q].arena \in Arenas
          /\ m.byUser[sess[q].user] = q /\ q \in m.seats[sess[q].arena]
          /\ sess[q].conn # None => m.byConn[sess[q].conn] = q
          /\ sess[q].paused <=> sess[q].conn = None
      BY <1>2, Zenon DEF Agree, WorldAgrees
    <3>2. t[q] = sess[q] /\ q \in Bodies /\ q # None
      BY <1>3, <1>7, <2>1, Constants
    <3>3. sess[q].conn # None => sess[q].conn \in Conns
      BY <1>2, <3>2 DEF Sessions
    <3>4. sess[q].conn # None => sess[q].conn # c /\ sess[q].conn # k
      BY <1>1, <1>9, <2>1, <3>1, <3>2
    <3> QED BY <1>5, <1>6, <3>1, <3>2, <3>3, <3>4
  <2>2. /\ t[p].user \in Users /\ t[p].arena \in Arenas
        /\ n.byUser[t[p].user] = p /\ p \in n.seats[t[p].arena]
        /\ t[p].conn # None => n.byConn[t[p].conn] = p
        /\ t[p].paused <=> t[p].conn = None
    BY <1>5, <1>6, <1>8, <1>9, Constants
  <2> QED BY <1>5, <2>1, <2>2 DEF WorldAgrees
<1>13. SeatsAgree(n, t)
  BY <1>2, <1>5, <1>7, <1>8 DEF Agree, SeatsAgree
<1>14. OpenAgrees(n) /\ Full(n)
  BY <1>2, <1>5 DEF Agree, OpenAgrees, Full
<1>15. Fates(n, t)
  <2>1. Safe(t[p]) /\ Once(t[p])
    BY <1>8 DEF Safe
  <2>2. \A q \in m.world : q # p => Safe(t[q]) /\ Once(t[q])
    BY <1>2, <1>7 DEF Fates
  <2> QED BY <1>5, <2>1, <2>2 DEF Fates
<1>16. Mapped(n, t)
  BY <1>5, <1>10, <1>11, <1>12, <1>13, <1>14 DEF Mapped, Agree
<1>17. /\ m' = n /\ Asking' /\ Phases' /\ sess' \in [Bodies -> Sessions]
       /\ Mapped(m, sess)' /\ Fates(m, sess)'
  BY <1>1, <1>2, <1>7, <1>15, <1>16, BecomeKeeps
<1>18. Linked(m', link)
  BY <1>2, <1>6, <1>17, Zenon DEF Linked
<1> QED BY <1>17, <1>18

\* A new session, after the one before was removed.
LEMMA EnterKeeps ==
    ASSUME FInv, NEW c \in Conns, link[c], NEW asked \in [Conns -> SUBSET Tokens],
           NEW d \in Modes, NEW refused, Enter(c, d, refused, asked)
    PROVE  /\ Asking' /\ Phases' /\ sess' \in [Bodies -> Sessions]
           /\ Mapped(m, sess)' /\ Fates(m, sess)' /\ Linked(m', link)
<1> DEFINE u == Owner[c]
           n == IF m.byUser[u] = None THEN m ELSE Remove(m, m.byUser[u])
           New(a) == Born([Nobody EXCEPT !.user = u, !.conn = c, !.arena = a])
           Now(p, a) == [sess EXCEPT ![p] = New(a)]
<1>1. /\ m.byConn[c] = None
      /\ \/ Become(n, sess, {u}, asked)
         \/ \E a \in Picks(n, d), p \in Bodies \ m.world :
                Become(Seat(n, p, c, a), Now(p, a), {u}, asked)
  BY Zenon DEF Enter
<1>2. /\ Mapped(m, sess) /\ Fates(m, sess) /\ Phases /\ Linked(m, link)
      /\ sess \in [Bodies -> Sessions] /\ u \in Users
  BY Constants DEF FInv
<1>3. /\ Mapped(n, sess) /\ n.world \subseteq m.world /\ n.byUser[u] = None
      /\ \A b \in Conns : n.byConn[b] # None => n.byConn[b] = m.byConn[b]
  <2>1. CASE m.byUser[u] = None
    BY <1>2, <2>1
  <2>2. CASE m.byUser[u] # None
    <3> DEFINE q == m.byUser[u]
    <3>1. q \in m.world /\ sess[q].user = u
      BY <1>2, <2>2, Zenon DEF Mapped, Agree, UsersAgree
    <3>2. n = Remove(m, q)
      BY <2>2, Zenon
    <3> HIDE DEF q, n
    <3> QED BY <1>2, <3>1, <3>2, RemoveAgrees
  <2> QED BY <2>1, <2>2
<1> HIDE DEF n
<1>4. n.byConn[c] = None /\ Fates(n, sess) /\ Linked(n, link)
  BY <1>1, <1>2, <1>3 DEF Fates, Linked
<1>5. CASE Become(n, sess, {u}, asked)
  <2>1. /\ m' = n /\ Asking' /\ Phases' /\ sess' \in [Bodies -> Sessions]
        /\ Mapped(m, sess)' /\ Fates(m, sess)'
    BY <1>2, <1>3, <1>4, <1>5, BecomeKeeps
  <2> QED BY <1>4, <2>1
<1>6. ASSUME NEW a \in Picks(n, d), NEW p \in Bodies \ m.world,
             Become(Seat(n, p, c, a), Now(p, a), {u}, asked)
      PROVE  /\ Asking' /\ Phases' /\ sess' \in [Bodies -> Sessions]
             /\ Mapped(m, sess)' /\ Fates(m, sess)' /\ Linked(m', link)
  <2> DEFINE s == New(a)
             t == Now(p, a)
             w == Seat(n, p, c, a)
  <2>1. a \in Arenas
    BY <1>3, PickedHasRoom DEF Mapped, Agree
  <2>2. /\ s \in Sessions /\ s.user = u /\ s.conn = c /\ s.arena = a
        /\ ~s.paused /\ Safe(s) /\ Once(s)
    BY <1>2, <2>1, NewSession, Zenon
  <2> HIDE DEF New
  <2>3. /\ t \in [Bodies -> Sessions] /\ t[p] = s
        /\ \A q \in Bodies \ {p} : t[q] = sess[q]
    BY <1>2, <2>2
  <2>4. Become(w, t, {u}, asked)
    BY <1>6, Zenon
  <2> HIDE DEF t, s, Now
  <2>5. p \in Bodies \ n.world
    BY <1>3
  <2>6. /\ Mapped(w, t) /\ w.world = n.world \cup {p}
        /\ w.byConn = [n.byConn EXCEPT ![c] = p]
    BY <1>2, <1>3, <1>4, <2>2, <2>3, <2>5, SeatAgrees
  <2> HIDE DEF w
  <2>7. Fates(w, t)
    <3>1. Safe(t[p]) /\ Once(t[p])
      BY <2>2, <2>3, Zenon
    <3>2. \A q \in n.world : q \in Bodies \ {p}
      BY <1>3, <2>5, Fields DEF Mapped
    <3>3. \A q \in n.world : Safe(t[q]) /\ Once(t[q])
      BY <1>4, <2>3, <3>2 DEF Fates
    <3> QED BY <2>6, <3>1, <3>3 DEF Fates
  <2>8. /\ m' = w /\ Asking' /\ Phases' /\ sess' \in [Bodies -> Sessions]
        /\ Mapped(m, sess)' /\ Fates(m, sess)'
    BY <1>2, <2>3, <2>4, <2>6, <2>7, BecomeKeeps
  <2>9. Linked(m', link)
    <3>1. n.byConn \in [Conns -> Bodies \cup {None}]
      BY <1>3, Fields DEF Mapped
    <3>2. \A b \in Conns : w.byConn[b] = IF b = c THEN p ELSE n.byConn[b]
      BY <2>6, <3>1
    <3> QED BY <1>4, <2>8, <3>2, Zenon DEF Linked
  <2> QED BY <2>8, <2>9
<1> QED BY <1>1, <1>5, <1>6, Zenon

LEMMA JoinKeeps ==
    ASSUME FInv, NEW c \in Conns, link[c], NEW asked \in [Conns -> SUBSET Tokens],
           NEW token, NEW modes \in SUBSET Modes, Join(c, token, modes, asked)
    PROVE  /\ Asking' /\ Phases' /\ sess' \in [Bodies -> Sessions]
           /\ Mapped(m, sess)' /\ Fates(m, sess)' /\ Linked(m', link)
<1>1. CASE Again(c, asked)
  BY <1>1, AgainKeeps
<1>2. CASE Resume(c, asked)
  BY <1>2, ResumeKeeps
<1>3. CASE Expired(c, asked)
  <2>1. /\ Become(m, sess, {}, asked) /\ Phases /\ sess \in [Bodies -> Sessions]
        /\ Mapped(m, sess) /\ Fates(m, sess)
    BY <1>3 DEF Expired, FInv
  <2>2. /\ m' = m /\ Asking' /\ Phases' /\ sess' \in [Bodies -> Sessions]
        /\ Mapped(m, sess)' /\ Fates(m, sess)'
    BY <2>1, BecomeKeeps
  <2> QED BY <2>2 DEF FInv
<1>4. ASSUME NEW d \in modes, NEW refused \in BOOLEAN, Enter(c, d, refused, asked)
      PROVE  /\ Asking' /\ Phases' /\ sess' \in [Bodies -> Sessions]
             /\ Mapped(m, sess)' /\ Fates(m, sess)' /\ Linked(m', link)
  <2>1. d \in Modes
    OBVIOUS
  <2> QED BY <1>4, <2>1, EnterKeeps, Zenon
<1> QED BY <1>1, <1>2, <1>3, <1>4, Zenon DEF Join

-----------------------------------------------------------------------------
(* The steps. *)

\* The maps of an empty manager agree with any sessions.
LEMMA EmptyAgrees ==
    ASSUME NEW t PROVE Mapped(Empty, t) /\ Fates(Empty, t)
<1>1. /\ Empty.byConn = [c \in Conns |-> None] /\ Empty.byUser = [u \in Users |-> None]
      /\ Empty.seats = [a \in Arenas |-> {}] /\ Empty.world = {} /\ Empty.open = {}
      /\ Empty \in Maps
  BY DEF Empty, Maps
<1>2. Full(Empty)
  <2>1. Cardinality({}) = 0
    BY FS_EmptySet
  <2>2. \A d \in Modes : {a \in Empty.open : Mode[a] = d} = {}
    BY <1>1
  <2>3. \A a \in Arenas : Mode[a] \in Modes /\ Empty.seats[a] = {}
    BY <1>1, Constants
  <2>4. \A d \in Modes : 0 <= Cap[d] /\ 0 <= MaxArenas[d]
    BY Constants
  <2> QED BY <2>1, <2>2, <2>3, <2>4 DEF Full
<1>3. Agree(Empty, t)
  BY <1>1 DEF Agree, UsersAgree, ConnsAgree, WorldAgrees, SeatsAgree, OpenAgrees
<1>4. Fates(Empty, t)
  BY <1>1 DEF Fates
<1> QED BY <1>1, <1>2, <1>3, <1>4 DEF Mapped

\* Before the first join every map is empty.
LEMMA InitInv == Init => FInv
<1> SUFFICES ASSUME Init PROVE FInv
  OBVIOUS
<1>1. m = Empty /\ Mapped(m, sess) /\ Fates(m, sess)
  BY EmptyAgrees DEF Init
<1>2. sess \in [Bodies -> Sessions]
  BY NobodyType DEF Init
<1>3. Linked(m, link)
  BY <1>1 DEF Empty, Linked
<1>4. Asking /\ Phases /\ link \in [Conns -> BOOLEAN]
  BY DEF Init, Asking, Tokens, Phases, Rounds
<1> QED BY <1>1, <1>2, <1>3, <1>4 DEF FInv

\* A step that only changes sessions where they are, or the phase of an arena.
LEMMA InPlace ==
    ASSUME FInv, UNCHANGED <<link, asks, m>>, Phases',
           sess' \in [Bodies -> Sessions],
           \A p \in m.world : Alike(sess'[p], sess[p]) /\ Safe(sess'[p]) /\ Once(sess'[p])
    PROVE  FInv'
<1>1. Mapped(m, sess') /\ Fates(m, sess')
  BY ChangedSessions
<1>2. Mapped(m, sess)' /\ Fates(m, sess)'
  <2>1. m' = m
    OBVIOUS
  <2>2. Mapped(m', sess') /\ Fates(m', sess')
    BY <1>1, <2>1
  <2> QED BY <2>2, Primed
<1> QED BY <1>2 DEF FInv, Asking, Linked

\* What a step has to show that leaves the sockets alone.
LEMMA SameLinks ==
    ASSUME FInv, UNCHANGED link, Asking', Phases', sess' \in [Bodies -> Sessions],
           Mapped(m, sess)', Fates(m, sess)', Linked(m', link)
    PROVE  FInv'
BY DEF FInv, Linked

LEMMA AnswerInv == ASSUME FInv, NEW c \in Conns, NEW k \in Tokens, Answer(c, k) PROVE FInv'
<1> DEFINE asked == [asks EXCEPT ![c] = @ \ {k}]
<1>1. asked \in [Conns -> SUBSET Tokens]
  BY DEF FInv, Asking
<1>2. /\ UNCHANGED link
      /\ IF Present(c) THEN Join(c, k, {"normal", "circle"}, asked)
         ELSE Become(m, sess, {}, asked)
  BY Zenon DEF Answer
<1> HIDE DEF asked
<1>3. CASE Present(c)
  <2>1. link[c] /\ Join(c, k, {"normal", "circle"}, asked)
    BY <1>2, <1>3 DEF Present
  <2>2. {"normal", "circle"} \in SUBSET Modes
    BY DEF Modes
  <2> QED BY <1>1, <1>2, <2>1, <2>2, JoinKeeps, SameLinks
<1>4. CASE ~Present(c)
  <2>1. Become(m, sess, {}, asked)
    BY <1>2, <1>4
  <2>2. Phases /\ sess \in [Bodies -> Sessions] /\ Mapped(m, sess) /\ Fates(m, sess)
    BY DEF FInv
  <2>3. /\ m' = m /\ Asking' /\ Phases' /\ sess' \in [Bodies -> Sessions]
        /\ Mapped(m, sess)' /\ Fates(m, sess)'
    BY <1>1, <2>1, <2>2, BecomeKeeps
  <2>4. Linked(m', link)
    BY <2>3 DEF FInv
  <2> QED BY <1>2, <2>3, <2>4, SameLinks
<1> QED BY <1>3, <1>4

LEMMA CastlesInv ==
    ASSUME FInv, NEW c \in Conns, NEW k \in Tokens, JoinCastles(c, k) PROVE FInv'
<1>1. link[c] /\ Join(c, k, {"castles"}, asks) /\ UNCHANGED link
  BY DEF JoinCastles, MayCarry
<1>2. {"castles"} \in SUBSET Modes /\ asks \in [Conns -> SUBSET Tokens]
  BY DEF Modes, FInv, Asking
<1> QED BY <1>1, <1>2, JoinKeeps, SameLinks

LEMMA LeaveInv == ASSUME FInv, NEW c \in Conns, Leave(c) PROVE FInv'
<1>1. m.byConn[c] \in m.world
  BY DEF FInv, Mapped, Agree, ConnsAgree, Leave
<1> QED BY <1>1, DropKeeps, SameLinks DEF Leave

LEMMA SweepInv == ASSUME FInv, NEW p \in Bodies, Sweep(p) PROVE FInv'
BY DropKeeps, SameLinks DEF Sweep

\* The socket of a session breaks: the session is dropped, or waits, alive and
\* behind its shield.
LEMMA DisconnectInv == ASSUME FInv, NEW c \in Conns, Disconnect(c) PROVE FInv'
<1> DEFINE p == m.byConn[c]
           after == [m.byConn EXCEPT ![c] = None]
           n == [m EXCEPT !.byConn = after]
           s1 == [sess[p] EXCEPT !.conn = None]
           s2 == [s1 EXCEPT !.paused = TRUE]
           s == [s2 EXCEPT !.shield = TRUE]
           t == [sess EXCEPT ![p] = s]
<1>1. /\ link' = [link EXCEPT ![c] = FALSE]
      /\ IF p = None THEN UNCHANGED <<asks, m, sess, retired, round>>
         ELSE IF ~Pauses(p) THEN Drop(p)
         ELSE Become([m EXCEPT !.byConn[c] = None],
                     [sess EXCEPT ![p].conn = None, ![p].paused = TRUE,
                                  ![p].shield = TRUE], {}, asks)
  BY Zenon DEF Disconnect
<1>2. /\ m \in Maps /\ Agree(m, sess) /\ Full(m) /\ Fates(m, sess) /\ Phases
      /\ sess \in [Bodies -> Sessions] /\ Linked(m, link) /\ Asking
      /\ link \in [Conns -> BOOLEAN] /\ Mapped(m, sess)
  BY DEF FInv, Mapped
<1>3. link' \in [Conns -> BOOLEAN] /\ \A d \in Conns : d # c => link'[d] = link[d]
  BY <1>1, <1>2
<1>4. CASE p = None
  <2>1. UNCHANGED <<asks, m, sess, retired, round>>
    BY <1>1, <1>4
  <2>2. Mapped(m, sess)' /\ Fates(m, sess)' /\ Asking' /\ Phases'
    BY <1>2, <2>1 DEF Mapped, Fates, Agree, Full, UsersAgree, ConnsAgree, WorldAgrees,
                      SeatsAgree, OpenAgrees, Safe, Once, Asking, Phases, Rounds
  <2>3. Linked(m', link')
    BY <1>2, <1>3, <1>4, <2>1 DEF Linked
  <2> QED BY <1>2, <1>3, <2>1, <2>2, <2>3 DEF FInv, Linked
<1>5. ASSUME p # None
      PROVE  /\ p \in m.world /\ p \in Bodies /\ sess[p] \in Sessions /\ sess[p].conn = c
             /\ sess[p].user \in Users /\ sess[p].arena \in Arenas
             /\ m.byUser[sess[p].user] = p /\ p \in m.seats[sess[p].arena]
  <2>1. p \in m.world /\ sess[p].conn = c
    BY <1>2, <1>5 DEF Agree, ConnsAgree
  <2>2. /\ sess[p].user \in Users /\ sess[p].arena \in Arenas
        /\ m.byUser[sess[p].user] = p /\ p \in m.seats[sess[p].arena]
    BY <1>2, <2>1, Zenon DEF Agree, WorldAgrees
  <2> QED BY <1>2, <2>1, <2>2, Fields
<1>6. CASE p # None /\ ~Pauses(p)
  <2>1. Drop(p) /\ p \in m.world
    BY <1>1, <1>5, <1>6
  <2>2. /\ Asking' /\ Phases' /\ sess' \in [Bodies -> Sessions]
        /\ Mapped(m, sess)' /\ Fates(m, sess)' /\ Linked(m', link)
        /\ m'.byConn[c] = None
    BY <2>1, DropKeeps
  <2>3. Linked(m, link)'
    BY <1>3, <2>2 DEF Linked
  <2> QED BY <1>3, <2>2, <2>3 DEF FInv
<1>7. CASE p # None /\ Pauses(p)
  <2>1. /\ p \in m.world /\ p \in Bodies /\ sess[p] \in Sessions /\ sess[p].conn = c
        /\ sess[p].user \in Users /\ sess[p].arena \in Arenas
        /\ m.byUser[sess[p].user] = p /\ p \in m.seats[sess[p].arena]
        /\ sess[p].alive
    BY <1>5, <1>7 DEF Pauses
  <2>2. /\ s1 \in Sessions /\ s1.user = sess[p].user /\ s1.arena = sess[p].arena
        /\ s1.conn = None /\ s1.alive = sess[p].alive /\ (Once(sess[p]) => Once(s1))
    BY <2>1 DEF Sessions, Once
  <2> HIDE DEF s1
  <2>3. /\ s2 \in Sessions /\ s2.user = sess[p].user /\ s2.arena = sess[p].arena
        /\ s2.conn = None /\ s2.alive = sess[p].alive /\ s2.paused
        /\ (Once(sess[p]) => Once(s2))
    BY <2>2 DEF Sessions, Once
  <2> HIDE DEF s2
  <2>4. /\ s \in Sessions /\ s.user = sess[p].user /\ s.arena = sess[p].arena
        /\ s.conn = None /\ s.alive = sess[p].alive /\ s.paused /\ s.shield
        /\ (Once(sess[p]) => Once(s))
    BY <2>3 DEF Sessions, Once
  <2> HIDE DEF s
  <2>5. /\ t \in [Bodies -> Sessions] /\ t[p] = s
        /\ \A q \in m.world : q # p => t[q] = sess[q]
    BY <1>2, <2>1, <2>4, Fields
  <2>6. [sess EXCEPT ![p].conn = None, ![p].paused = TRUE, ![p].shield = TRUE] = t
    BY <1>2, <2>1, Zenon DEF s, s1, s2
  <2>7. [m EXCEPT !.byConn[c] = None] = n
    BY Zenon
  <2>8. Become(n, t, {}, asks)
    BY <1>1, <1>7, <2>6, <2>7, Zenon
  <2>9. /\ n.byConn = after /\ n.byUser = m.byUser /\ n.seats = m.seats
        /\ n.world = m.world /\ n.open = m.open /\ n \in Maps
    <3>1. after \in [Conns -> Bodies \cup {None}]
      BY <1>2, Fields
    <3> HIDE DEF after
    <3> QED BY <1>2, <3>1 DEF Maps
  <2>10. \A d \in Conns : n.byConn[d] = IF d = c THEN None ELSE m.byConn[d]
    BY <1>2, <2>9, Fields
  <2> HIDE DEF n, t, after
  <2>11. UsersAgree(n, t)
    BY <1>2, <2>4, <2>5, <2>9 DEF Agree, UsersAgree
  <2>12. ConnsAgree(n, t)
    <3>1. ASSUME NEW d \in Conns, n.byConn[d] # None
          PROVE  n.byConn[d] \in n.world /\ t[n.byConn[d]].conn = d
      <4>1. d # c /\ n.byConn[d] = m.byConn[d]
        BY <2>10, <3>1, Zenon
      <4>2. m.byConn[d] \in m.world /\ sess[m.byConn[d]].conn = d
        BY <1>2, <3>1, <4>1, Zenon DEF Agree, ConnsAgree
      <4> QED BY <2>1, <2>5, <2>9, <4>1, <4>2
    <3> QED BY <3>1, Zenon DEF ConnsAgree
  <2>13. WorldAgrees(n, t)
    <3>1. ASSUME NEW q \in m.world, q # p
          PROVE  /\ t[q].user \in Users /\ t[q].arena \in Arenas
                 /\ n.byUser[t[q].user] = q /\ q \in n.seats[t[q].arena]
                 /\ t[q].conn # None => n.byConn[t[q].conn] = q
                 /\ t[q].paused <=> t[q].conn = None
      <4>1. /\ sess[q].user \in Users /\ sess[q].arena \in Arenas
            /\ m.byUser[sess[q].user] = q /\ q \in m.seats[sess[q].arena]
            /\ sess[q].conn # None => m.byConn[sess[q].conn] = q
            /\ sess[q].paused <=> sess[q].conn = None
        BY <1>2, Zenon DEF Agree, WorldAgrees
      <4>2. t[q] = sess[q] /\ q \in Bodies
        BY <1>2, <2>5, <3>1, Fields
      <4>3. sess[q].conn # None => sess[q].conn \in Conns /\ sess[q].conn # c
        BY <1>2, <3>1, <4>1, <4>2 DEF Sessions
      <4> QED BY <2>9, <2>10, <4>1, <4>2, <4>3
    <3>2. /\ t[p].user \in Users /\ t[p].arena \in Arenas
          /\ n.byUser[t[p].user] = p /\ p \in n.seats[t[p].arena]
          /\ t[p].conn # None => n.byConn[t[p].conn] = p
          /\ t[p].paused <=> t[p].conn = None
      BY <2>1, <2>4, <2>5, <2>9
    <3> QED BY <2>9, <3>1, <3>2 DEF WorldAgrees
  <2>14. SeatsAgree(n, t)
    BY <1>2, <2>4, <2>5, <2>9 DEF Agree, SeatsAgree
  <2>15. OpenAgrees(n) /\ Full(n)
    BY <1>2, <2>9 DEF Agree, OpenAgrees, Full
  <2>16. Mapped(n, t)
    BY <2>9, <2>11, <2>12, <2>13, <2>14, <2>15 DEF Mapped, Agree
  <2>17. Fates(n, t)
    <3>1. Safe(t[p]) /\ Once(t[p])
      BY <1>2, <2>1, <2>4, <2>5 DEF Safe, Fates
    <3>2. \A q \in m.world : q # p => Safe(t[q]) /\ Once(t[q])
      BY <1>2, <2>5 DEF Fates
    <3> QED BY <2>9, <3>1, <3>2 DEF Fates
  <2>18. /\ m' = n /\ Asking' /\ Phases' /\ sess' \in [Bodies -> Sessions]
         /\ Mapped(m, sess)' /\ Fates(m, sess)'
    <3>1. asks \in [Conns -> SUBSET Tokens]
      BY <1>2 DEF Asking
    <3> QED BY <1>2, <2>5, <2>8, <2>16, <2>17, <3>1, BecomeKeeps
  <2>19. Linked(m', link')
    <3>1. \A d \in Conns : m'.byConn[d] # None => d # c /\ m.byConn[d] # None
      BY <2>10, <2>18, Zenon
    <3> QED BY <1>2, <1>3, <3>1, Zenon DEF Linked
  <2> QED BY <1>3, <2>18, <2>19 DEF FInv, Linked
<1> QED BY <1>4, <1>6, <1>7

\* The sessions of the world are sessions, Safe and Once.
LEMMA InWorld ==
    ASSUME FInv, NEW p \in m.world
    PROVE  /\ p \in Bodies /\ sess[p] \in Sessions /\ Alike(sess[p], sess[p])
           /\ Safe(sess[p]) /\ Once(sess[p])
BY Fields DEF FInv, Mapped, Fates, Alike

\* Who is on an arena is in the world, with a session that names it.
LEMMA OnArena ==
    ASSUME FInv, NEW a \in Arenas, NEW p \in m.seats[a]
    PROVE  p \in m.world /\ sess[p].arena = a
BY Zenon DEF FInv, Mapped, Agree, SeatsAgree

LEMMA DieInv == ASSUME FInv, NEW p \in Bodies, Die(p) PROVE FInv'
<1> DEFINE s == [sess[p] EXCEPT !.alive = FALSE]
<1>1. /\ p \in m.world /\ sess[p].alive /\ ~sess[p].shield
      /\ Mode[sess[p].arena] # "castles"
      /\ sess' = [sess EXCEPT ![p].alive = FALSE]
      /\ UNCHANGED <<link, asks, m, retired, round>>
  BY Zenon DEF Die, OnlySess
<1>2. sess[p] \in Sessions /\ Safe(sess[p]) /\ Once(sess[p]) /\ sess[p].arena \in Arenas
  BY <1>1, InWorld, Zenon DEF FInv, Mapped, Agree, WorldAgrees
<1>3. Mode[sess[p].arena] = "normal" \/ Mode[sess[p].arena] = "circle"
  BY <1>1, <1>2, Constants DEF Modes
<1>4. s \in Sessions /\ Alike(s, sess[p]) /\ Safe(s) /\ Once(s)
  BY <1>1, <1>2, <1>3 DEF Sessions, Alike, Safe, Once
<1>5. sess' = [sess EXCEPT ![p] = s]
  BY <1>1, Zenon
<1> HIDE DEF s
<1>6. sess' \in [Bodies -> Sessions]
  BY <1>4, <1>5 DEF FInv
<1>7. ASSUME NEW q \in m.world
      PROVE  Alike(sess'[q], sess[q]) /\ Safe(sess'[q]) /\ Once(sess'[q])
  <2>1. q \in Bodies /\ sess'[q] = IF q = p THEN s ELSE sess[q]
    BY <1>5, InWorld DEF FInv
  <2> QED BY <1>4, <2>1, InWorld
<1>8. Phases'
  BY <1>1 DEF FInv, Phases, Rounds
<1> QED BY <1>1, <1>6, <1>7, <1>8, InPlace

\* The news of a death, and a prize.
LEMMA ToldSession ==
    ASSUME NEW s \in Sessions, ~s.alive, ~s.deadSent, Safe(s), Once(s)
    PROVE  Told(s) \in Sessions /\ Alike(Told(s), s) /\ Safe(Told(s)) /\ Once(Told(s))
<1> DEFINE s1 == [s EXCEPT !.deadSent = TRUE]
           s2 == [s1 EXCEPT !.deaths = More(@)]
<1>1. s.deaths \in 0..2 /\ More(s.deaths) \in 0..2
      /\ (s.deaths > 0 => s.recalled) /\ (More(s.deaths) > 1 => s.deaths > 0)
  BY DEF Sessions, Once, More
<1>2. /\ s1 \in Sessions /\ Alike(s1, s) /\ Safe(s1) /\ s1.deadSent /\ s1.deaths = s.deaths
      /\ s1.prizes = s.prizes /\ s1.rewarded = s.rewarded /\ s1.recalled = s.recalled
  BY DEF Sessions, Alike, Safe
<1> HIDE DEF s1
<1>3. /\ s2 \in Sessions /\ Alike(s2, s) /\ Safe(s2) /\ s2.deadSent
      /\ s2.deaths = More(s.deaths)
      /\ s2.prizes = s.prizes /\ s2.rewarded = s.rewarded /\ s2.recalled = s.recalled
  BY <1>1, <1>2 DEF Sessions, Alike, Safe
<1>4. Told(s) = s2
  BY Zenon DEF Told, s1
<1> HIDE DEF s2
<1>5. Once(s2)
  BY <1>1, <1>3 DEF Once, Alike
<1> QED BY <1>3, <1>4, <1>5

LEMMA PrizedSession ==
    ASSUME NEW s \in Sessions, ~s.rewarded, Mode[s.arena] = "normal", Safe(s), Once(s)
    PROVE  LET v == [s EXCEPT !.rewarded = TRUE, !.prizes = More(@)]
           IN  v \in Sessions /\ Alike(v, s) /\ Safe(v) /\ Once(v)
<1> DEFINE s1 == [s EXCEPT !.rewarded = TRUE]
           s2 == [s1 EXCEPT !.prizes = More(@)]
<1>1. s.prizes = 0 /\ More(s.prizes) = 1 /\ More(s.prizes) \in 0..2
  BY DEF Once, More
<1>2. /\ s1 \in Sessions /\ Alike(s1, s) /\ Safe(s1) /\ s1.deadSent = s.deadSent
      /\ s1.deaths = s.deaths /\ s1.prizes = s.prizes /\ s1.rewarded
      /\ s1.recalled = s.recalled
  BY DEF Sessions, Alike, Safe
<1> HIDE DEF s1
<1>3. /\ s2 \in Sessions /\ Alike(s2, s) /\ Safe(s2) /\ s2.deadSent = s.deadSent
      /\ s2.deaths = s.deaths /\ s2.prizes = 1 /\ s2.rewarded /\ s2.recalled = s.recalled
  BY <1>1, <1>2 DEF Sessions, Alike, Safe
<1>4. s2 = [s EXCEPT !.rewarded = TRUE, !.prizes = More(@)]
  BY Zenon DEF s1
<1> HIDE DEF s2
<1>5. Once(s2)
  BY <1>3 DEF Once, Alike
<1> QED BY <1>3, <1>4, <1>5

LEMMA BroadcastInv ==
    ASSUME FInv, NEW a \in Arenas, NEW first \in Bodies \cup {None}, Broadcast(a, first)
    PROVE  FInv'
<1> DEFINE hears == {p \in m.seats[a] : sess[p].conn # None}
           news == {p \in hears : ~sess[p].alive /\ ~sess[p].deadSent}
           prize == IF Mode[a] = "normal" /\ first \in hears /\ ~sess[first].rewarded
                    THEN {first} ELSE {}
           Prized(p) == [sess[p] EXCEPT !.rewarded = TRUE, !.prizes = More(@)]
           Then(p) == IF p \in news THEN Told(sess[p])
                      ELSE IF p \in prize THEN Prized(p) ELSE sess[p]
<1>1. /\ sess' = [p \in Bodies |-> Then(p)]
      /\ UNCHANGED <<link, asks, m, retired, round>>
  BY Zenon DEF Broadcast, OnlySess
<1>2. ASSUME NEW p \in Bodies
      PROVE  /\ Then(p) \in Sessions
             /\ p \in m.world => Alike(Then(p), sess[p]) /\ Safe(Then(p)) /\ Once(Then(p))
  <2>1. sess[p] \in Sessions
    BY DEF FInv
  <2>2. p \in m.seats[a] => p \in m.world /\ sess[p].arena = a
    BY OnArena
  <2>3. p \in m.world => Alike(sess[p], sess[p]) /\ Safe(sess[p]) /\ Once(sess[p])
    BY InWorld
  <2>4. CASE p \in news
    <3>1. p \in m.seats[a] /\ ~sess[p].alive /\ ~sess[p].deadSent
      BY <2>4
    <3> QED BY <2>1, <2>2, <2>3, <2>4, <3>1, ToldSession, Zenon
  <2>5. CASE p \notin news /\ p \in prize
    <3>1. p \in m.seats[a] /\ ~sess[p].rewarded /\ Mode[a] = "normal"
      BY <2>5
    <3>2. /\ Prized(p) \in Sessions /\ Alike(Prized(p), sess[p])
          /\ Safe(Prized(p)) /\ Once(Prized(p))
      BY <2>1, <2>2, <2>3, <3>1, PrizedSession, Zenon
    <3> QED BY <2>5, <3>2, Zenon
  <2>6. CASE p \notin news /\ p \notin prize
    BY <2>1, <2>3, <2>6, Zenon
  <2> QED BY <2>4, <2>5, <2>6
<1> HIDE DEF Then
<1>3. sess' \in [Bodies -> Sessions]
  BY <1>1, <1>2
<1>4. \A p \in m.world : Alike(sess'[p], sess[p]) /\ Safe(sess'[p]) /\ Once(sess'[p])
  <2>1. \A p \in m.world : p \in Bodies
    BY InWorld
  <2> QED BY <1>1, <1>2, <2>1
<1>5. Phases'
  BY <1>1 DEF FInv, Phases, Rounds
<1> QED BY <1>1, <1>3, <1>4, <1>5, InPlace

LEMMA ResetInv == ASSUME FInv, NEW a \in Arenas, ResetMatch(a) PROVE FInv'
<1> DEFINE Then(p) == [sess[p] EXCEPT !.shield = @ /\ p \notin m.seats[a]]
<1>1. /\ Mode[a] = "castles" /\ sess' = [p \in Bodies |-> Then(p)]
      /\ UNCHANGED <<link, asks, m, retired, round>>
  BY Zenon DEF ResetMatch, OnlySess
<1>2. ASSUME NEW p \in Bodies
      PROVE  /\ Then(p) \in Sessions
             /\ p \in m.world => Alike(Then(p), sess[p]) /\ Safe(Then(p)) /\ Once(Then(p))
  <2>1. sess[p] \in Sessions
    BY DEF FInv
  <2>2. p \in m.seats[a] => Mode[sess[p].arena] = "castles"
    BY <1>1, OnArena
  <2>3. p \in m.world => Safe(sess[p]) /\ Once(sess[p])
    BY InWorld
  <2>4. /\ Then(p) \in Sessions /\ Alike(Then(p), sess[p])
        /\ Once(sess[p]) => Once(Then(p))
    BY <2>1 DEF Sessions, Alike, Once
  <2>5. Safe(sess[p]) => Safe(Then(p))
    BY <2>1, <2>2 DEF Sessions, Safe
  <2> QED BY <2>3, <2>4, <2>5
<1> HIDE DEF Then
<1>3. sess' \in [Bodies -> Sessions]
  BY <1>1, <1>2
<1>4. \A p \in m.world : Alike(sess'[p], sess[p]) /\ Safe(sess'[p]) /\ Once(sess'[p])
  <2>1. \A p \in m.world : p \in Bodies
    BY InWorld
  <2> QED BY <1>1, <1>2, <2>1
<1>5. Phases'
  BY <1>1 DEF FInv, Phases, Rounds
<1> QED BY <1>1, <1>3, <1>4, <1>5, InPlace

\* A new round of the circle: only there may somebody who is paused be dead.
LEMMA StartRoundInv == ASSUME FInv, NEW a \in Arenas, StartRound(a) PROVE FInv'
<1> DEFINE Lives(p) == [Born(sess[p]) EXCEPT !.deadSent = sess[p].deadSent]
           Dead(p) == [sess[p] EXCEPT !.rewarded = FALSE]
           Then(p) == IF p \notin m.seats[a] THEN sess[p]
                      ELSE IF sess[p].alive THEN Lives(p) ELSE Dead(p)
<1>1. /\ round[a] = "ended" /\ round' = [round EXCEPT ![a] = "warmup"]
      /\ sess' = [p \in Bodies |-> Then(p)]
      /\ UNCHANGED <<link, asks, m, retired>>
  BY Zenon DEF StartRound
<1>2. Phases /\ Mode[a] = "circle"
  BY <1>1 DEF FInv, Phases, Rounds
<1>3. ASSUME NEW p \in Bodies
      PROVE  /\ Then(p) \in Sessions
             /\ p \in m.world => Alike(Then(p), sess[p]) /\ Safe(Then(p)) /\ Once(Then(p))
  <2>1. sess[p] \in Sessions
    BY DEF FInv
  <2>2. p \in m.seats[a] => Mode[sess[p].arena] = "circle"
    BY <1>2, OnArena
  <2>3. p \in m.world => Alike(sess[p], sess[p]) /\ Safe(sess[p]) /\ Once(sess[p])
    BY InWorld
  <2>4. /\ Dead(p) \in Sessions /\ Alike(Dead(p), sess[p])
        /\ Mode[sess[p].arena] = "circle" /\ Once(sess[p]) => Safe(Dead(p)) /\ Once(Dead(p))
    BY <2>1 DEF Sessions, Alike, Safe, Once
  <2>5. /\ Lives(p) \in Sessions /\ Alike(Lives(p), sess[p])
        /\ Mode[sess[p].arena] = "circle" => Safe(Lives(p)) /\ Once(Lives(p))
    <3> DEFINE b == Born(sess[p])
    <3>1. b \in Sessions /\ Alike(b, sess[p]) /\ b.prizes = 0 /\ b.deaths = 0
      BY <2>1, BornSession DEF Born, Alike
    <3>2. sess[p].deadSent \in BOOLEAN
      BY <2>1 DEF Sessions
    <3> HIDE DEF b
    <3>3. [b EXCEPT !.deadSent = sess[p].deadSent] \in Sessions
      BY <3>1, <3>2 DEF Sessions
    <3> DEFINE v == [b EXCEPT !.deadSent = sess[p].deadSent]
    <3>4. Alike(v, sess[p]) /\ v.prizes = 0 /\ v.deaths = 0
      BY <3>1 DEF Sessions, Alike
    <3>5. v = Lives(p)
      BY DEF b
    <3> HIDE DEF v
    <3>6. Mode[sess[p].arena] = "circle" => Safe(v) /\ Once(v)
      BY <3>4 DEF Alike, Safe, Once
    <3> QED BY <3>3, <3>4, <3>5, <3>6 DEF v
  <2> HIDE DEF Lives, Dead
  <2> QED BY <2>1, <2>2, <2>3, <2>4, <2>5
<1> HIDE DEF Then
<1>4. sess' \in [Bodies -> Sessions]
  BY <1>1, <1>3
<1>5. \A p \in m.world : Alike(sess'[p], sess[p]) /\ Safe(sess'[p]) /\ Once(sess'[p])
  <2>1. \A p \in m.world : p \in Bodies
    BY InWorld
  <2> QED BY <1>1, <1>3, <2>1
<1>6. Phases'
  BY <1>1, <1>2 DEF Phases, Rounds
<1> QED BY <1>1, <1>4, <1>5, <1>6, InPlace

LEMMA RestartInv == ASSUME FInv, Restart PROVE FInv'
<1>1. link' = [c \in Conns |-> FALSE] /\ Become(Empty, sess, Users, [c \in Conns |-> {}])
  BY DEF Restart
<1>2. Phases /\ sess \in [Bodies -> Sessions] /\ [c \in Conns |-> {}] \in [Conns -> SUBSET Tokens]
  BY DEF FInv
<1>3. /\ m' = Empty /\ Asking' /\ Phases' /\ sess' \in [Bodies -> Sessions]
      /\ Mapped(m, sess)' /\ Fates(m, sess)'
  BY <1>1, <1>2, EmptyAgrees, BecomeKeeps
<1>4. Linked(m', link')
  BY <1>3 DEF Linked, Empty
<1> QED BY <1>1, <1>3, <1>4 DEF FInv, Linked

\* The steps that leave the sessions as they are.
LEMMA OthersInv ==
    ASSUME FInv, NEW c, NEW k \in Tokens, NEW a,
           \/ Connect(c) \/ Ask(c, k) \/ NotTheirs(c, k) \/ Retire(a)
           \/ Round(a, "warmup", "locked") \/ Round(a, "locked", "ended")
           \/ UNCHANGED vars
    PROVE  FInv'
<1>1. m' = m /\ sess' = sess
  BY DEF Connect, Ask, NotTheirs, Retire, Round, vars
<1>2. Mapped(m, sess)' /\ Fates(m, sess)' /\ sess' \in [Bodies -> Sessions]
  BY <1>1 DEF FInv, Mapped, Fates, Agree, Full, UsersAgree, ConnsAgree, WorldAgrees,
              SeatsAgree, OpenAgrees, Safe, Once
<1>3. Asking'
  BY DEF Connect, Ask, NotTheirs, Retire, Round, vars, FInv, Asking
<1>4. Phases'
  <2>1. CASE UNCHANGED <<retired, round>>
    BY <2>1 DEF FInv, Phases, Rounds
  <2>2. CASE Retire(a)
    <3>1. m.open \subseteq Arenas
      BY Fields DEF FInv, Mapped
    <3> QED BY <2>2, <3>1 DEF Retire, FInv, Phases, Rounds
  <2>3. CASE Round(a, "warmup", "locked") \/ Round(a, "locked", "ended")
    BY <2>3 DEF Round, FInv, Phases, Rounds
  <2> QED BY <2>1, <2>2, <2>3 DEF Connect, Ask, NotTheirs, vars
<1>5. link' \in [Conns -> BOOLEAN] /\ \A d \in Conns : link[d] => link'[d]
  BY DEF Connect, Ask, NotTheirs, Retire, Round, vars, FInv
<1>6. Linked(m, link)'
  BY <1>1, <1>5 DEF FInv, Linked
<1> QED BY <1>2, <1>3, <1>4, <1>5, <1>6 DEF FInv

\* One lemma per action, each by what its operation does to the maps.
LEMMA NextInv == FInv /\ [Next]_vars => FInv'
<1> SUFFICES ASSUME FInv, [Next]_vars PROVE FInv'
  OBVIOUS
<1>1. ASSUME NEW c \in Conns, Connect(c) \/ Leave(c) \/ Disconnect(c) PROVE FInv'
  <2>1. "current" \in Tokens
    BY DEF Tokens
  <2> QED BY <1>1, <2>1, OthersInv, LeaveInv, DisconnectInv
<1>2. ASSUME NEW c \in Conns, NEW k \in Tokens,
             Ask(c, k) \/ Answer(c, k) \/ NotTheirs(c, k) \/ JoinCastles(c, k)
      PROVE  FInv'
  BY <1>2, OthersInv, AnswerInv, CastlesInv
<1>3. ASSUME NEW p \in Bodies, Sweep(p) \/ Die(p) PROVE FInv'
  BY <1>3, SweepInv, DieInv
<1>4. ASSUME NEW a \in Arenas, NEW first \in Bodies \cup {None}, Broadcast(a, first)
      PROVE  FInv'
  BY <1>4, BroadcastInv
<1>5. ASSUME NEW a \in Arenas,
             \/ Retire(a) \/ StartRound(a) \/ ResetMatch(a)
             \/ Round(a, "warmup", "locked") \/ Round(a, "locked", "ended")
      PROVE  FInv'
  <2>1. "current" \in Tokens
    BY DEF Tokens
  <2> QED BY <1>5, <2>1, OthersInv, StartRoundInv, ResetInv
<1>6. CASE Restart
  BY <1>6, RestartInv
<1>7. CASE UNCHANGED vars
  <2>1. "current" \in Tokens
    BY DEF Tokens
  <2> QED BY <1>7, <2>1, OthersInv
<1> QED BY <1>1, <1>2, <1>3, <1>4, <1>5, <1>6, <1>7, Zenon DEF Next

-----------------------------------------------------------------------------
(* The theorems. *)

\* Every map has its type, and so has every session.
THEOREM TypeCorrect == Spec => [](m \in Maps /\ sess \in [Bodies -> Sessions])
<1>1. FInv => m \in Maps /\ sess \in [Bodies -> Sessions]
  BY DEF FInv, Mapped
<1> QED BY <1>1, InitInv, NextInv, PTL DEF Spec

\* A user has one session, which every map knows alike, through joins that are
\* answered late, sockets that follow each other, breaks, sweeps and restarts.
THEOREM MapsAgree == Spec => []SessionsAgree
<1>1. ASSUME FInv PROVE SessionsAgree
  <2>1. Agree(m, sess) /\ Linked(m, link)
    BY <1>1 DEF FInv, Mapped
  <2>2. \A u \in Users : LET p == m.byUser[u] IN
           p # None => p \in m.world /\ sess[p].user = u
    BY <2>1, Zenon DEF Agree, UsersAgree
  <2>3. \A c \in Conns : LET p == m.byConn[c] IN
           p # None => p \in m.world /\ sess[p].conn = c /\ link[c]
    BY <2>1, Zenon DEF Agree, ConnsAgree, Linked
  <2>4. \A p \in m.world : LET s == sess[p] IN
           /\ m.byUser[s.user] = p /\ p \in m.seats[s.arena]
           /\ s.conn # None => m.byConn[s.conn] = p
           /\ s.paused <=> s.conn = None
    BY <2>1, Zenon DEF Agree, WorldAgrees
  <2>5. \A a \in Arenas : m.seats[a] \subseteq {p \in m.world : sess[p].arena = a}
    BY <2>1 DEF Agree, SeatsAgree
  <2>6. m.open = {a \in Arenas : m.seats[a] # {}}
    BY <2>1, Zenon DEF Agree, OpenAgrees
  <2> QED BY <2>2, <2>3, <2>4, <2>5, <2>6, Zenon DEF SessionsAgree
<1> QED BY <1>1, InitInv, NextInv, PTL DEF Spec

\* No arena holds more players than its mode allows, and no mode more arenas.
THEOREM RoomIsKept == Spec => []RoomKept
<1>1. FInv => RoomKept
  BY DEF FInv, Mapped, Full, RoomKept
<1> QED BY <1>1, InitInv, NextInv, PTL DEF Spec

\* Who is paused keeps the life they had, where there are no rounds.
THEOREM PausedAreSafe == Spec => []PausedIsSafe
<1>1. FInv => PausedIsSafe
  BY DEF FInv, Fates, Safe, PausedIsSafe
<1> QED BY <1>1, InitInv, NextInv, PTL DEF Spec

\* A life is paid once, and its end is told once unless it was resumed after it.
THEOREM LivesCountOnce == Spec => []LifeCountedOnce
<1>1. FInv => LifeCountedOnce
  BY DEF FInv, Fates, Once, LifeCountedOnce
<1> QED BY <1>1, InitInv, NextInv, PTL DEF Spec
=============================================================================
