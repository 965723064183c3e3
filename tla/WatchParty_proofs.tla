------------------------- MODULE WatchParty_proofs -------------------------
(***************************************************************************)
(* The watch party, for every set of members and sockets and every length  *)
(* of a history: the hall and its host (WatchHall), then the lines of the  *)
(* chat about who comes and goes (PresenceNotices).  Each part has one     *)
(* inductive invariant, and its theorems follow from it.                   *)
(***************************************************************************)
EXTENDS WatchHall, PresenceNotices, FiniteSetTheorems, SequenceTheorems,
        WellFoundedInduction, TLAPS

-----------------------------------------------------------------------------
(* The hall.  First who joined first, and what a step does to the types.   *)

\* A set of numbers has a least one: the ordering of a query has a first row.
LEMMA MinOfNat ==
    ASSUME NEW T, T \subseteq Nat, T # {}
    PROVE  \E x \in T : \A y \in T : x <= y
<1>1. IsWellFoundedOn(OpToRel(<, Nat), Nat)
  BY NatLessThanWellFounded
<1>2. \A x, y \in Nat : x < y => <<x, y>> \in OpToRel(<, Nat)
  BY DEF OpToRel
<1> DEFINE R == OpToRel(<, Nat)
<1>3. IsWellFoundedOn(R, Nat)
  BY <1>1
<1>4. \A x, y \in Nat : x < y => <<x, y>> \in R
  BY <1>2
<1> HIDE DEF R
<1>6. PICK x \in T : \A y \in T : ~(<<y, x>> \in R)
  BY <1>3, WFMin, ZenonT(30)
<1>5. ASSUME NEW y \in T PROVE x <= y
  <2>1. x \in Nat /\ y \in Nat /\ ~(y < x)
    BY <1>4, <1>6
  <2> QED BY <2>1
<1> QED BY <1>5

\* Among members there is one who joined first.
LEMMA FirstIsOne ==
    ASSUME NEW us, us \subseteq Users, us # {}, joinedAt \in [Users -> Nat]
    PROVE  First(us) \in us
<1> DEFINE T == {joinedAt[u] : u \in us}
<1>1. T \subseteq Nat /\ T # {}
  OBVIOUS
<1>2. PICK x \in T : \A y \in T : x <= y
  BY <1>1, MinOfNat
<1>3. PICK u \in us : x = joinedAt[u]
  BY <1>2
<1>4. \E w \in us : \A v \in us : joinedAt[w] <= joinedAt[v]
  BY <1>2, <1>3
<1> QED BY <1>4 DEF First

\* What onPresenceChanged does, whichever of its branches is taken.
LEMMA HallLookedAt ==
    ASSUME TypeOK, NEW r \in Runtimes \cup {None},
           NEW p \in [Users -> SUBSET Sockets], PresenceChanged(r, p)
    PROVE  /\ presence' = p
           /\ rt' \in Runtimes \cup {None}
           /\ r = None => rt' = None
           /\ rt' = None => r = None \/ p = Empty
           /\ rt' # None => /\ r # None /\ rt'.host = r.host
                            /\ rt'.away => r.away /\ r.host \notin Present(p)
                            /\ r.host \notin Present(p) => rt'.away \/ rt'.timer
           /\ \/ UNCHANGED <<writes, overlap>>
              \/ r # None /\ rt' = None /\ Save(r.host)
<1>1. CASE r = None
  BY <1>1 DEF PresenceChanged
<1>2. CASE r # None
  <2>1. r \in Runtimes /\ None \notin Runtimes
    BY <1>2, HallAssumption
  <2>2. r.host \in Users /\ r.away \in BOOLEAN /\ r.timer \in BOOLEAN
    BY <2>1 DEF Runtimes
  <2>3. CASE r.host \in Present(p)
    <3>1. rt' = [r EXCEPT !.timer = FALSE, !.away = FALSE]
      BY <1>2, <2>3 DEF PresenceChanged
    <3>2. rt' \in Runtimes /\ rt'.host = r.host /\ rt'.away = FALSE
      BY <2>1, <3>1 DEF Runtimes
    <3> QED BY <1>2, <2>1, <2>3, <3>2 DEF PresenceChanged
  <2>4. CASE r.host \notin Present(p) /\ r.away /\ Present(p) = {}
    <3>1. p = Empty
      BY <2>4 DEF Present, Empty
    <3> QED BY <1>2, <2>4, <3>1 DEF PresenceChanged
  <2>5. CASE r.host \notin Present(p) /\ ~(r.away /\ Present(p) = {})
    <3>1. rt' = [r EXCEPT !.timer = r.timer \/ ~r.away]
      BY <1>2, <2>5 DEF PresenceChanged
    <3>2. /\ rt' \in Runtimes /\ rt'.host = r.host /\ rt'.away = r.away
          /\ rt'.timer = (r.timer \/ ~r.away)
      BY <2>1, <2>2, <3>1 DEF Runtimes
    <3> QED BY <1>2, <2>1, <2>2, <2>5, <3>2 DEF PresenceChanged
  <2> QED BY <2>3, <2>4, <2>5
<1> QED BY <1>1, <1>2

\* A save is one more of its host, and nobody else's.
LEMMA SaveCounts ==
    ASSUME TypeOK, NEW h \in Users, Save(h)
    PROVE  /\ writes' \in [Users -> 0..MaxWrites]
           /\ overlap' = (overlap \/ Moved) /\ overlap' \in BOOLEAN
           /\ \A v \in Users : writes'[v] > 0 => writes[v] > 0 \/ v = h
<1>1. /\ writes \in [Users -> 0..MaxWrites] /\ MaxWrites \in Nat
      /\ overlap \in BOOLEAN
  BY HallAssumption DEF TypeOK
<1>2. writes' = [writes EXCEPT ![h] = IF writes[h] < MaxWrites
                                      THEN writes[h] + 1 ELSE writes[h]]
  BY DEF Save
<1>3. writes' \in [Users -> 0..MaxWrites]
  BY <1>1, <1>2
<1>4. \A v \in Users : writes'[v] > 0 => writes[v] > 0 \/ v = h
  BY <1>1, <1>2
<1> QED BY <1>1, <1>3, <1>4 DEF Save

\* The counters of the run are numbers.
LEMMA Bounds == /\ MaxOpens \in Nat /\ MaxMoves \in Nat
                /\ MaxWrites \in Nat /\ MaxFaults \in Nat
BY HallAssumption

\* The resolution that does not run is one.
LEMMA NoResolveTyped == NoResolve \in Resolves
BY DEF NoResolve, Resolves

\* The types hold when the service starts.
LEMMA TypeInit == Init => TypeOK
<1> SUFFICES ASSUME Init PROVE TypeOK
  OBVIOUS
<1>1. Cardinality(Users) \in Nat
  BY HallAssumption, FS_CardinalityType
<1>2. joinedAt \in [Users -> Nat]
  BY <1>1 DEF Init
<1>3. /\ writes \in [Users -> 0..MaxWrites]
      /\ opens \in 0..MaxOpens /\ moves \in 0..MaxMoves /\ faults \in 0..MaxFaults
  BY Bounds DEF Init
<1>4. /\ join \in [Sockets -> {"no", "member", "loading", "enter", "set", "tail"}]
      /\ leave \in [Users -> {"no", "member", "others", "set", "row", "drop"}]
      /\ setting \in [Setters -> HandOvers \cup {None}]
  BY DEF Init
<1>5. /\ presence \in [Users -> SUBSET Sockets]
      /\ \A u \in Users : \A s \in presence[u] : Owner[s] = u
  BY DEF Init, Empty
<1> QED BY <1>2, <1>3, <1>4, <1>5, NoResolveTyped DEF Init, TypeOK

\* The part of the types that onPresenceChanged touches.
HallTypes ==
    /\ rt' \in Runtimes \cup {None}
    /\ presence' \in [Users -> SUBSET Sockets]
    /\ \A u \in Users : \A s \in presence'[u] : Owner[s] = u
    /\ writes' \in [Users -> 0..MaxWrites] /\ overlap' \in BOOLEAN

\* onPresenceChanged keeps the types.
LEMMA HallTyped ==
    ASSUME TypeOK, NEW r \in Runtimes \cup {None},
           NEW p \in [Users -> SUBSET Sockets],
           \A u \in Users : \A s \in p[u] : Owner[s] = u,
           PresenceChanged(r, p)
    PROVE  HallTypes /\ presence' = p
<1>1. /\ presence' = p /\ rt' \in Runtimes \cup {None}
      /\ \/ UNCHANGED <<writes, overlap>>
         \/ r # None /\ rt' = None /\ Save(r.host)
  BY HallLookedAt
<1>2. r # None => r.host \in Users
  BY DEF Runtimes
<1>3. writes' \in [Users -> 0..MaxWrites] /\ overlap' \in BOOLEAN
  BY <1>1, <1>2, SaveCounts DEF TypeOK
<1> QED BY <1>1, <1>3 DEF HallTypes

\* So does leaveHall, whether or not the user is counted.
LEMMA LeaveTyped ==
    ASSUME TypeOK, NEW s \in Sockets, LeaveHall(s)
    PROVE  HallTypes
<1> DEFINE p == [presence EXCEPT ![Owner[s]] = @ \ {s}]
<1>1. /\ p \in [Users -> SUBSET Sockets]
      /\ \A u \in Users : \A x \in p[u] : Owner[x] = u
  BY DEF TypeOK
<1>2. CASE presence[Owner[s]] # {}
  <2>1. PresenceChanged(rt, p)
    BY <1>2 DEF LeaveHall
  <2> HIDE DEF p
  <2> QED BY <1>1, <2>1, HallTyped DEF TypeOK
<1>3. CASE presence[Owner[s]] = {}
  BY <1>3 DEF LeaveHall, TypeOK, HallTypes
<1> QED BY <1>2, <1>3

\* And the beginning of setHost.
LEMMA SetHostTyped ==
    ASSUME TypeOK, NEW t \in Setters, NEW u \in Users, SetHost(t, u)
    PROVE  setting' \in [Setters -> HandOvers \cup {None}]
<1>1. [step |-> "write", to |-> u] \in HandOvers
  BY DEF HandOvers
<1> QED BY <1>1 DEF SetHost, TypeOK

\* The part of the types that the end of a setHost touches.
TaskTypes ==
    /\ join' \in [Sockets -> {"no", "member", "loading", "enter", "set", "tail"}]
    /\ leave' \in [Users -> {"no", "member", "others", "set", "row", "drop"}]
    /\ resolve' \in Resolves
    /\ setting' \in [Setters -> HandOvers \cup {None}]
    /\ wants' \subseteq Sockets /\ rushed' \subseteq Sockets

\* A task whose query fails is gone, and its hand-over with it.
LEMMA AbortTyped ==
    ASSUME TypeOK, NEW t \in Setters, Abort(t)
    PROVE  TaskTypes
BY NoResolveTyped DEF TypeOK, Abort, TaskTypes

\* An eviction touches a resolution that waits for the members, and no other.
LEMMA OrphanedKeeps ==
    ASSUME TypeOK, Orphaned
    PROVE  /\ resolve' \in Resolves /\ resolve'.pc = resolve.pc
           /\ resolve.pc # "order" \/ rt' # None => resolve' = resolve
           /\ ~resolve'.live => resolve' = resolve \/ resolve'.host \in Users
           /\ resolve'.live => resolve' = resolve
           /\ resolve.live /\ resolve.pc = "order" /\ rt # None /\ rt' = None
                 => ~resolve'.live
<1>1. resolve \in Resolves /\ rt \in Runtimes \cup {None}
  BY DEF TypeOK
<1>2. CASE resolve' = resolve /\ ~(rt # None /\ rt' = None /\ resolve.pc = "order" /\ resolve.live)
  BY <1>1, <1>2
<1>3. CASE /\ rt # None /\ rt' = None /\ resolve.pc = "order" /\ resolve.live
           /\ resolve' = [resolve EXCEPT !.live = FALSE, !.host = rt.host]
  <2>1. rt.host \in Users
    BY <1>1, <1>3 DEF Runtimes
  <2>2. /\ resolve' \in Resolves /\ resolve'.pc = "order" /\ resolve'.live = FALSE
        /\ resolve'.host = rt.host
    BY <1>1, <1>3, <2>1 DEF Resolves
  <2> QED BY <1>3, <2>1, <2>2
<1> QED BY <1>2, <1>3 DEF Orphaned

\* No step breaks the types.
LEMMA TypeNext == TypeOK /\ [Next]_vars => TypeOK'
<1> SUFFICES ASSUME TypeOK, [Next]_vars PROVE TypeOK'
  OBVIOUS
<1> USE HallAssumption DEF TypeOK
<1>1. ASSUME NEW s \in Sockets, JoinAsk(s) PROVE TypeOK'
  BY <1>1, Bounds DEF JoinAsk
<1>2. ASSUME NEW s \in Sockets, JoinMember(s) PROVE TypeOK'
  BY <1>2 DEF JoinMember
<1>3. ASSUME NEW s \in Sockets, Enter(s) PROVE TypeOK'
  <2>1. Owner[s] \in Users /\ s \in Setters
    BY HallAssumption DEF Setters
  <2> DEFINE p == [presence EXCEPT ![Owner[s]] = @ \cup {s}]
  <2>2. /\ p \in [Users -> SUBSET Sockets]
        /\ \A u \in Users : \A x \in p[u] : Owner[x] = u
    BY <2>1
  <2>3. CASE rt # None /\ rt.away /\ Owner[s] # rt.host
    <3>1. presence' = p /\ SetHost(s, Owner[s]) /\ join' = [join EXCEPT ![s] = "set"]
      BY <1>3, <2>3 DEF Enter
    <3>2. setting' \in [Setters -> HandOvers \cup {None}]
      BY <2>1, <3>1 DEF SetHost, HandOvers
    <3> HIDE DEF p
    <3> QED BY <1>3, <2>2, <2>3, <3>1, <3>2 DEF Enter
  <2>4. CASE ~(rt # None /\ rt.away /\ Owner[s] # rt.host)
    <3>1. PresenceChanged(rt, p) /\ join' = [join EXCEPT ![s] = "tail"]
      BY <1>3, <2>4 DEF Enter
    <3> HIDE DEF p
    <3>2. HallTypes /\ presence' = p
      BY <2>2, <3>1, HallTyped
    <3> QED BY <1>3, <2>2, <2>4, <3>1, <3>2 DEF Enter, HallTypes
  <2> QED BY <2>3, <2>4
<1>4. ASSUME NEW s \in Sockets, Answer(s) PROVE TypeOK'
  BY <1>4 DEF Answer
<1>5. ASSUME NEW s \in Sockets, Leave(s) PROVE TypeOK'
  <2>1. HallTypes
    BY <1>5, LeaveTyped DEF Leave
  <2> QED BY <1>5, <2>1, OrphanedKeeps DEF Leave, HallTypes
<1>6. ASSUME NEW s \in Sockets, Disconnect(s) PROVE TypeOK'
  <2>1. HallTypes
    <3>1. CASE s \in watched
      BY <1>6, <3>1, LeaveTyped DEF Disconnect
    <3>2. CASE s \notin watched
      BY <1>6, <3>2 DEF Disconnect, HallTypes
    <3> QED BY <3>1, <3>2
  <2> QED BY <1>6, <2>1, OrphanedKeeps DEF Disconnect, HallTypes
<1>7. CASE LoadRead
  BY <1>7 DEF LoadRead, Loading
<1>8. CASE LoadDone
  <2>1. rt' \in Runtimes
    BY <1>8 DEF LoadDone, Runtimes
  <2> QED BY <1>8, <2>1 DEF LoadDone, Loading
<1>9. ASSUME NEW t \in Setters, SetHostWrite(t) PROVE TypeOK'
  <2>1. CASE db = NoUser
    BY <1>9, <2>1, AbortTyped DEF SetHostWrite, TaskTypes
  <2>2. CASE db # NoUser
    <3>1. setting[t] \in HandOvers
      BY <1>9 DEF SetHostWrite
    <3>2. setting[t].to \in Users
          /\ [setting[t] EXCEPT !.step = "return"] \in HandOvers
      BY <3>1 DEF HandOvers
    <3>3. setting' = [setting EXCEPT ![t] = [setting[t] EXCEPT !.step = "return"]]
      BY <1>9, <2>2 DEF SetHostWrite
    <3>4. setting' \in [Setters -> HandOvers \cup {None}]
      BY <3>2, <3>3
    <3> QED BY <1>9, <2>2, <3>2, <3>4 DEF SetHostWrite
  <2> QED BY <2>1, <2>2
<1>10. ASSUME NEW t \in Setters, SetHostReturn(t) PROVE TypeOK'
  <2>1. setting[t] \in HandOvers
    BY <1>10 DEF SetHostReturn
  <2> DEFINE r == [host |-> setting[t].to, away |-> FALSE, timer |-> FALSE]
  <2>2. r \in Runtimes
    BY <2>1 DEF HandOvers, Runtimes
  <2>3. HallTypes
    <3>1. CASE rt = None
      BY <1>10, <3>1 DEF SetHostReturn, HallTypes
    <3>2. CASE rt # None
      <4>1. PresenceChanged(r, presence)
        BY <1>10, <3>2 DEF SetHostReturn
      <4> HIDE DEF r
      <4> QED BY <2>2, <4>1, HallTyped
    <3> QED BY <3>1, <3>2
  <2>4. /\ join' \in [Sockets -> {"no", "member", "loading", "enter", "set", "tail"}]
        /\ leave' \in [Users -> {"no", "member", "others", "set", "row", "drop"}]
        /\ resolve' \in Resolves
    BY <1>10, NoResolveTyped DEF SetHostReturn, Continue
  <2>5. setting' \in [Setters -> HandOvers \cup {None}]
    BY <1>10 DEF SetHostReturn
  <2> QED BY <1>10, <2>3, <2>4, <2>5 DEF SetHostReturn, HallTypes
<1>11. ASSUME NEW t \in Setters, SetHostFails(t) PROVE TypeOK'
  BY <1>11, AbortTyped, Bounds DEF SetHostFails, TaskTypes
<1>12. ASSUME NEW u \in Users, NEW v \in Users, Transfer(u, v) PROVE TypeOK'
  <2>1. setting' \in [Setters -> HandOvers \cup {None}]
    BY <1>12, SetHostTyped DEF Transfer, Setters
  <2> QED BY <1>12, <2>1, Bounds DEF Transfer
<1>13. ASSUME NEW u \in Users, LeaveRoom(u) PROVE TypeOK'
  BY <1>13, Bounds DEF LeaveRoom
<1>14. ASSUME NEW u \in Users, LeaveOthers(u) PROVE TypeOK'
  <2> DEFINE others == Joined \ {u}
              near == Candidates(u, Present(presence))
              pick == IF near # {} THEN near ELSE others
  <2>1. CASE others = {}
    BY <1>14, <2>1 DEF LeaveOthers
  <2>2. CASE others # {}
    <3>1. pick \subseteq Users /\ pick # {}
      BY <2>2 DEF Candidates, Joined
    <3>2. SetHost(u, First(pick)) /\ leave' = [leave EXCEPT ![u] = "set"]
      BY <1>14, <2>2 DEF LeaveOthers
    <3> HIDE DEF pick
    <3>3. First(pick) \in Users
      BY <3>1, FirstIsOne
    <3>4. setting' \in [Setters -> HandOvers \cup {None}]
      BY <3>2, <3>3, SetHostTyped DEF Setters
    <3> QED BY <1>14, <3>2, <3>4 DEF LeaveOthers
  <2> QED BY <2>1, <2>2
<1>15. ASSUME NEW u \in Users, LeaveRow(u) PROVE TypeOK'
  <2>1. CASE u \notin Joined
    BY <1>15, <2>1, OrphanedKeeps DEF LeaveRow
  <2>2. CASE u \in Joined
    <3> DEFINE p == [presence EXCEPT ![u] = {}]
    <3>1. /\ p \in [Users -> SUBSET Sockets]
          /\ \A v \in Users : \A x \in p[v] : Owner[x] = v
      OBVIOUS
    <3>2. PresenceChanged(rt, p)
      BY <1>15, <2>2 DEF LeaveRow
    <3> HIDE DEF p
    <3>3. HallTypes
      BY <3>1, <3>2, HallTyped
    <3>4. joinedAt' \in [Users -> Nat]
      BY <1>15, <2>2 DEF LeaveRow
    <3> QED BY <1>15, <2>2, <3>3, <3>4, OrphanedKeeps DEF LeaveRow, HallTypes
  <2> QED BY <2>1, <2>2
<1>16. ASSUME NEW u \in Users, DeleteRoom(u) PROVE TypeOK'
  BY <1>16, Bounds DEF DeleteRoom
<1>17. ASSUME NEW u \in Users, Drop(u) PROVE TypeOK'
  <2>2. CASE db = NoUser
    BY <1>17, <2>2 DEF Drop
  <2>3. CASE db # NoUser
    <3>1. joinedAt' = [v \in Users |-> 0] /\ presence' = Empty
      BY <1>17, <2>3 DEF Drop
    <3>2. joinedAt' \in [Users -> Nat]
      BY <3>1
    <3>3. /\ presence' \in [Users -> SUBSET Sockets]
          /\ \A v \in Users : presence'[v] = {}
      BY <3>1 DEF Empty
    <3>4. resolve' \in Resolves
      BY <1>17, <2>3, OrphanedKeeps DEF Drop
    <3>5. wants' \subseteq Sockets /\ leave' = [leave EXCEPT ![u] = "no"]
      BY <1>17, <2>3 DEF Drop
    <3>6. rt' = None /\ db' = NoUser
          /\ UNCHANGED <<writes, load, watched, connected, join, setting, rushed,
                         stale, overlap, opens, moves, faults>>
      BY <1>17, <2>3 DEF Drop
    <3> QED BY <3>2, <3>3, <3>4, <3>5, <3>6
  <2> QED BY <2>2, <2>3
<1>18. ASSUME NEW u \in Users, AddMember(u) PROVE TypeOK'
  <2>1. moves' \in 0..MaxMoves /\ Cardinality(Users) \in Nat
    BY <1>18, Bounds, FS_CardinalityType DEF AddMember
  <2>2. Cardinality(Users) + moves' \in Nat
    BY <2>1, Bounds
  <2> QED BY <1>18, <2>1, <2>2 DEF AddMember
<1>19. ASSUME NEW u \in Users, Control(u) PROVE TypeOK'
  BY <1>19, SaveCounts DEF Control
<1>20. ASSUME NEW u \in Users, Saved(u) PROVE TypeOK'
  <2>1. writes' \in [Users -> 0..MaxWrites]
    BY <1>20, Bounds DEF Saved
  <2> QED BY <1>20, <2>1 DEF Saved
<1>21. CASE GraceFires
  <2>1. rt \in Runtimes
    BY <1>21 DEF GraceFires
  <2>2. [rt EXCEPT !.timer = FALSE] \in Runtimes
    BY <2>1 DEF Runtimes
  <2>3. /\ NoResolve \in Resolves
        /\ [NoResolve EXCEPT !.pc = "order", !.present = Present(presence)] \in Resolves
    BY DEF NoResolve, Resolves, Present
  <2> QED BY <1>21, <2>2, <2>3 DEF GraceFires
<1>22. CASE ResolveOrder
  <2> DEFINE next == Candidates(rt.host, resolve.present)
  <2>1. rt \in Runtimes
    BY <1>22 DEF ResolveOrder
  <2>2. CASE next # {}
    <3>1. next \subseteq Users
      BY DEF Candidates, Joined
    <3>2. /\ SetHost("resolve", First(next))
          /\ resolve' = [resolve EXCEPT !.pc = "set"]
          /\ UNCHANGED <<rt, overlap, stale>>
      BY <1>22, <2>2 DEF ResolveOrder
    <3> HIDE DEF next
    <3>3. setting' \in [Setters -> HandOvers \cup {None}]
      BY <2>2, <3>1, <3>2, FirstIsOne, SetHostTyped DEF Setters
    <3>4. resolve' \in Resolves
      BY <3>2 DEF Resolves
    <3> QED BY <1>22, <3>2, <3>3, <3>4 DEF ResolveOrder
  <2>3. CASE next = {}
    <3>2. /\ rt' = [rt EXCEPT !.away = TRUE]
          /\ resolve' = [resolve EXCEPT !.pc = "save", !.host = rt.host]
          /\ UNCHANGED setting
      BY <1>22, <2>3 DEF ResolveOrder
    <3>3. rt' \in Runtimes /\ resolve' \in Resolves
      BY <2>1, <3>2 DEF Runtimes, Resolves
    <3> QED BY <1>22, <2>3, <3>3 DEF ResolveOrder
  <2> QED BY <2>2, <2>3
<1>23. CASE ResolveFails
  BY <1>23, NoResolveTyped, Bounds DEF ResolveFails
<1>24. CASE ResolveSaved
  <2>1. resolve.host \in Users \cup {NoUser}
    BY DEF Resolves
  <2>2. CASE resolve.present = {} /\ rt # None
    <3>1. rt.host \in Users
      BY <2>2 DEF Runtimes
    <3>2. presence' = Empty /\ Save(rt.host) /\ rt' = None
      BY <1>24, <2>2 DEF ResolveSaved
    <3>3. writes' \in [Users -> 0..MaxWrites] /\ overlap' \in BOOLEAN
      BY <3>1, <3>2, SaveCounts
    <3> QED BY <1>24, <2>1, <2>2, <3>2, <3>3, NoResolveTyped DEF ResolveSaved,
               Empty
  <2>3. CASE ~(resolve.present = {} /\ rt # None)
    BY <1>24, <2>1, <2>3, NoResolveTyped DEF ResolveSaved
  <2> QED BY <2>2, <2>3
<1>25. CASE UNCHANGED vars
  BY <1>25 DEF vars
<1>26. ASSUME NEW s \in Sockets, AnswerFails(s) PROVE TypeOK'
  BY <1>26, Bounds DEF AnswerFails
<1>27. CASE ResolveOrphan
  <2> DEFINE next == Candidates(resolve.host, resolve.present)
  <2>1. CASE next # {}
    <3>1. next \subseteq Users
      BY DEF Candidates, Joined
    <3>2. /\ SetHost("resolve", First(next))
          /\ resolve' = [resolve EXCEPT !.pc = "set"]
          /\ UNCHANGED overlap
      BY <1>27, <2>1 DEF ResolveOrphan
    <3> HIDE DEF next
    <3>3. setting' \in [Setters -> HandOvers \cup {None}]
      BY <2>1, <3>1, <3>2, FirstIsOne, SetHostTyped DEF Setters
    <3>4. resolve' \in Resolves
      BY <3>2 DEF Resolves
    <3> QED BY <1>27, <3>2, <3>3, <3>4 DEF ResolveOrphan
  <2>2. CASE next = {}
    <3>1. /\ resolve' = [resolve EXCEPT !.pc = "save"] /\ overlap' = TRUE
          /\ UNCHANGED setting
      BY <1>27, <2>2 DEF ResolveOrphan
    <3>2. resolve' \in Resolves
      BY <3>1 DEF Resolves
    <3> QED BY <1>27, <3>1, <3>2 DEF ResolveOrphan
  <2> QED BY <2>1, <2>2
<1> QED BY <1>1, <1>2, <1>3, <1>4, <1>5, <1>6, <1>7, <1>8, <1>9, <1>10, <1>11,
       <1>12, <1>13, <1>14, <1>15, <1>16, <1>17, <1>18, <1>19, <1>20, <1>21,
       <1>22, <1>23, <1>24, <1>25, <1>26, <1>27
       DEF Next, Client, Faults, LoadStep, ResolveStep, JoinStep, SetHostStep,
           LeaveStep

\* SetHost touches the hand-over of its task alone.
LEMMA SetHostOnly ==
    ASSUME TypeOK, NEW t \in Setters, NEW u \in Users, SetHost(t, u)
    PROVE  /\ setting'[t] # None /\ setting'[t].step = "write"
           /\ \A o \in Setters \ {t} : setting'[o] = setting[o]
<1>1. [step |-> "write", to |-> u] \in HandOvers
  BY DEF HandOvers
<1>2. setting'[t] = [step |-> "write", to |-> u]
      /\ \A o \in Setters \ {t} : setting'[o] = setting[o]
  BY DEF SetHost, TypeOK
<1> QED BY <1>1, <1>2, HallAssumption

\* The write of the host in setHost: the row has the new host, and the memory will.
LEMMA HostWritten ==
    ASSUME TypeOK, NEW t \in Setters, SetHostWrite(t), db # NoUser
    PROVE  /\ setting'[t] # None /\ setting'[t].step = "return"
           /\ setting'[t].to = setting[t].to /\ db' = setting[t].to
           /\ setting[t].to \in Users
           /\ \A o \in Setters \ {t} : setting'[o] = setting[o]
<1>1. setting[t] \in HandOvers
  BY DEF TypeOK, SetHostWrite
<1>2. /\ [setting[t] EXCEPT !.step = "return"] \in HandOvers
      /\ [setting[t] EXCEPT !.step = "return"].to = setting[t].to
      /\ [setting[t] EXCEPT !.step = "return"].step = "return"
      /\ setting[t].to \in Users
  BY <1>1 DEF HandOvers
<1>3. /\ setting' = [setting EXCEPT ![t] = [setting[t] EXCEPT !.step = "return"]]
      /\ db' = setting[t].to
  BY DEF SetHostWrite
<1>4. /\ setting'[t] = [setting[t] EXCEPT !.step = "return"]
      /\ \A o \in Setters \ {t} : setting'[o] = setting[o]
  BY <1>3 DEF TypeOK
<1> QED BY <1>2, <1>3, <1>4, HallAssumption

\* A leaver who is not the last names one of the others.
LEMMA LeaverNames ==
    ASSUME TypeOK, NEW u \in Users, LeaveOthers(u), Joined \ {u} # {}
    PROVE  \E w \in Users : SetHost(u, w)
<1> DEFINE near == Candidates(u, Present(presence))
           pick == IF near # {} THEN near ELSE Joined \ {u}
<1>1. pick \subseteq Users /\ pick # {}
  BY DEF Candidates, Joined
<1>2. SetHost(u, First(pick))
  BY DEF LeaveOthers
<1> HIDE DEF pick
<1> QED BY <1>1, <1>2, FirstIsOne DEF TypeOK

\* resolveHostAbsence names one of those whom it saw present.
LEMMA ResolverNames ==
    ASSUME TypeOK, ResolveOrder, Candidates(rt.host, resolve.present) # {}
    PROVE  \E w \in Users : SetHost("resolve", w)
<1> DEFINE next == Candidates(rt.host, resolve.present)
<1>1. next \subseteq Users
  BY DEF Candidates, Joined
<1>2. SetHost("resolve", First(next)) /\ next # {}
  BY DEF ResolveOrder
<1> HIDE DEF next
<1> QED BY <1>1, <1>2, FirstIsOne DEF TypeOK

\* So it does for a runtime that has left the map.
LEMMA OrphanNames ==
    ASSUME TypeOK, ResolveOrphan, Candidates(resolve.host, resolve.present) # {}
    PROVE  \E w \in Users : SetHost("resolve", w)
<1> DEFINE next == Candidates(resolve.host, resolve.present)
<1>1. next \subseteq Users
  BY DEF Candidates, Joined
<1>2. SetHost("resolve", First(next)) /\ next # {}
  BY DEF ResolveOrphan
<1> HIDE DEF next
<1> QED BY <1>1, <1>2, FirstIsOne DEF TypeOK

-----------------------------------------------------------------------------
(* What is in flight: a hand-over belongs to one task.                     *)

\* A task awaits setHost exactly while there is a hand-over of its own.
Tasks ==
    /\ \A s \in Sockets : setting[s] # None <=> join[s] = "set"
    /\ \A u \in Users : setting[u] # None <=> leave[u] = "set"
    /\ setting["resolve"] # None <=> resolve.pc = "set"

\* A task that is aborted was in setHost, and is in it no more.
LEMMA Aborted ==
    ASSUME TypeOK, Tasks, NEW t \in Setters, Abort(t)
    PROVE  Tasks'
<1>1. Users \cap Sockets = {} /\ "resolve" \notin Users \cup Sockets
      /\ "transfer" \notin Users \cup Sockets
  BY HallAssumption
<1>2. /\ setting'[t] = None
      /\ \A o \in Setters \ {t} : setting'[o] = setting[o]
  BY DEF Abort, TypeOK
<1>3. ASSUME NEW s \in Sockets PROVE setting'[s] # None <=> join'[s] = "set"
  BY <1>1, <1>2 DEF Abort, TypeOK, Tasks, Setters
<1>4. ASSUME NEW u \in Users PROVE setting'[u] # None <=> leave'[u] = "set"
  BY <1>1, <1>2 DEF Abort, TypeOK, Tasks, Setters
<1>5. setting'["resolve"] # None <=> resolve'.pc = "set"
  BY <1>1, <1>2 DEF Abort, NoResolve, Tasks, Setters
<1> QED BY <1>3, <1>4, <1>5 DEF Tasks

\* No task runs when the service starts.
LEMMA TasksInit == Init => Tasks
BY HallAssumption DEF Init, Tasks, NoResolve, Setters

\* No step begins or ends a hand-over without its task.
LEMMA TasksNext == TypeOK /\ Tasks /\ [Next]_vars => Tasks'
<1> SUFFICES ASSUME TypeOK, Tasks, [Next]_vars PROVE Tasks'
  OBVIOUS
<1>a. /\ join \in [Sockets -> {"no", "member", "loading", "enter", "set", "tail"}]
      /\ leave \in [Users -> {"no", "member", "others", "set", "row", "drop"}]
      /\ setting \in [Setters -> HandOvers \cup {None}]
      /\ resolve \in Resolves
  BY DEF TypeOK
<1>b. Users \cap Sockets = {}
  BY HallAssumption
<1>c. "resolve" \notin Users \cup Sockets /\ "transfer" \notin Users \cup Sockets
  BY HallAssumption
<1> USE <1>a, <1>b, <1>c DEF Tasks, Setters, Resolves
<1>1. ASSUME NEW s \in Sockets, JoinAsk(s) PROVE Tasks'
  BY <1>1 DEF JoinAsk
<1>2. ASSUME NEW s \in Sockets, JoinMember(s) PROVE Tasks'
  BY <1>2 DEF JoinMember
<1>3. ASSUME NEW s \in Sockets, Enter(s) PROVE Tasks'
  <2>1. Owner[s] \in Users /\ s \in Setters /\ setting[s] = None
    BY <1>3, HallAssumption DEF Enter
  <2>2. CASE rt # None /\ rt.away /\ Owner[s] # rt.host
    <3>1. SetHost(s, Owner[s]) /\ join' = [join EXCEPT ![s] = "set"]
          /\ UNCHANGED <<leave, resolve>>
      BY <1>3, <2>2 DEF Enter
    <3>2. setting'[s] # None /\ \A o \in Setters \ {s} : setting'[o] = setting[o]
      BY <2>1, <3>1, SetHostOnly
    <3> QED BY <3>1, <3>2
  <2>3. CASE ~(rt # None /\ rt.away /\ Owner[s] # rt.host)
    BY <1>3, <2>1, <2>3 DEF Enter
  <2> QED BY <2>2, <2>3
<1>4. ASSUME NEW s \in Sockets, Answer(s) PROVE Tasks'
  BY <1>4 DEF Answer
<1>5. ASSUME NEW s \in Sockets, Leave(s) PROVE Tasks'
  BY <1>5, OrphanedKeeps DEF Leave
<1>6. ASSUME NEW s \in Sockets, Disconnect(s) PROVE Tasks'
  BY <1>6, OrphanedKeeps DEF Disconnect
<1>7. CASE LoadRead
  BY <1>7 DEF LoadRead, Loading
<1>8. CASE LoadDone
  BY <1>8 DEF LoadDone, Loading
<1>9. ASSUME NEW t \in Setters, SetHostWrite(t) PROVE Tasks'
  <2>1. CASE db = NoUser
    BY <1>9, <2>1, Aborted DEF SetHostWrite
  <2>2. CASE db # NoUser
    <3>1. setting'[t] # None /\ \A o \in Setters \ {t} : setting'[o] = setting[o]
      BY <1>9, <2>2, HostWritten
    <3> QED BY <1>9, <2>2, <3>1 DEF SetHostWrite
  <2> QED BY <2>1, <2>2
<1>10. ASSUME NEW t \in Setters, SetHostReturn(t) PROVE Tasks'
  BY <1>10 DEF SetHostReturn, Continue, NoResolve
<1>11. ASSUME NEW t \in Setters, SetHostFails(t) PROVE Tasks'
  BY <1>11, Aborted DEF SetHostFails
<1>12. ASSUME NEW u \in Users, NEW v \in Users, Transfer(u, v) PROVE Tasks'
  <2>1. \A o \in Setters \ {"transfer"} : setting'[o] = setting[o]
    BY <1>12, SetHostOnly DEF Transfer
  <2> QED BY <1>12, <2>1 DEF Transfer
<1>13. ASSUME NEW u \in Users, LeaveRoom(u) PROVE Tasks'
  BY <1>13 DEF LeaveRoom
<1>14. ASSUME NEW u \in Users, LeaveOthers(u) PROVE Tasks'
  <2>1. CASE Joined \ {u} = {}
    BY <1>14, <2>1 DEF LeaveOthers
  <2>2. CASE Joined \ {u} # {}
    <3>1. PICK w \in Users : SetHost(u, w)
      BY <1>14, <2>2, LeaverNames
    <3>2. setting'[u] # None /\ \A o \in Setters \ {u} : setting'[o] = setting[o]
      BY <3>1, SetHostOnly
    <3>3. leave' = [leave EXCEPT ![u] = "set"] /\ UNCHANGED <<join, resolve>>
      BY <1>14, <2>2 DEF LeaveOthers
    <3> QED BY <3>2, <3>3
  <2> QED BY <2>1, <2>2
<1>15. ASSUME NEW u \in Users, LeaveRow(u) PROVE Tasks'
  BY <1>15, OrphanedKeeps DEF LeaveRow
<1>16. ASSUME NEW u \in Users, DeleteRoom(u) PROVE Tasks'
  BY <1>16 DEF DeleteRoom
<1>17. ASSUME NEW u \in Users, Drop(u) PROVE Tasks'
  BY <1>17, OrphanedKeeps DEF Drop
<1>18. ASSUME NEW u \in Users, AddMember(u) PROVE Tasks'
  BY <1>18 DEF AddMember
<1>19. ASSUME NEW u \in Users, Control(u) PROVE Tasks'
  BY <1>19 DEF Control
<1>20. ASSUME NEW u \in Users, Saved(u) PROVE Tasks'
  BY <1>20 DEF Saved
<1>21. CASE GraceFires
  BY <1>21 DEF GraceFires, NoResolve
<1>22. CASE ResolveOrder
  <2>1. CASE Candidates(rt.host, resolve.present) # {}
    <3>1. PICK w \in Users : SetHost("resolve", w)
      BY <1>22, <2>1, ResolverNames
    <3>2. /\ setting'["resolve"] # None
          /\ \A o \in Setters \ {"resolve"} : setting'[o] = setting[o]
      BY <3>1, SetHostOnly
    <3>3. resolve' = [resolve EXCEPT !.pc = "set"] /\ UNCHANGED <<join, leave>>
      BY <1>22, <2>1 DEF ResolveOrder
    <3> QED BY <3>2, <3>3
  <2>2. CASE Candidates(rt.host, resolve.present) = {}
    <3>1. /\ resolve.pc = "order" /\ UNCHANGED <<setting, join, leave>>
          /\ resolve' = [resolve EXCEPT !.pc = "save", !.host = rt.host]
      BY <1>22, <2>2 DEF ResolveOrder
    <3>2. resolve'.pc = "save"
      BY <3>1
    <3> QED BY <3>1, <3>2
  <2> QED BY <2>1, <2>2
<1>23. CASE ResolveFails
  BY <1>23 DEF ResolveFails, NoResolve
<1>24. CASE ResolveSaved
  BY <1>24 DEF ResolveSaved, NoResolve
<1>25. CASE UNCHANGED vars
  BY <1>25 DEF vars
<1>26. ASSUME NEW s \in Sockets, AnswerFails(s) PROVE Tasks'
  BY <1>26 DEF AnswerFails
<1>27. CASE ResolveOrphan
  <2>1. CASE Candidates(resolve.host, resolve.present) # {}
    <3>1. PICK w \in Users : SetHost("resolve", w)
      BY <1>27, <2>1, OrphanNames
    <3>2. /\ setting'["resolve"] # None
          /\ \A o \in Setters \ {"resolve"} : setting'[o] = setting[o]
      BY <3>1, SetHostOnly
    <3>3. resolve' = [resolve EXCEPT !.pc = "set"] /\ UNCHANGED <<join, leave>>
      BY <1>27, <2>1 DEF ResolveOrphan
    <3> QED BY <3>2, <3>3
  <2>2. CASE Candidates(resolve.host, resolve.present) = {}
    <3>1. /\ resolve.pc = "order" /\ UNCHANGED <<setting, join, leave>>
          /\ resolve' = [resolve EXCEPT !.pc = "save"]
      BY <1>27, <2>2 DEF ResolveOrphan
    <3>2. resolve'.pc = "save"
      BY <3>1
    <3> QED BY <3>1, <3>2
  <2> QED BY <2>1, <2>2
<1> QED BY <1>1, <1>2, <1>3, <1>4, <1>5, <1>6, <1>7, <1>8, <1>9, <1>10, <1>11,
       <1>12, <1>13, <1>14, <1>15, <1>16, <1>17, <1>18, <1>19, <1>20, <1>21,
       <1>22, <1>23, <1>24, <1>25, <1>26, <1>27
       DEF Next, Client, Faults, LoadStep, ResolveStep, JoinStep, SetHostStep,
           LeaveStep

\* What HallLookedAt says of the step.
Looked(r, p) ==
    /\ presence' = p
    /\ rt' \in Runtimes \cup {None}
    /\ r = None => rt' = None
    /\ rt' = None => r = None \/ p = Empty
    /\ rt' # None => /\ r # None /\ rt'.host = r.host
                     /\ rt'.away => r.away /\ r.host \notin Present(p)
                     /\ r.host \notin Present(p) => rt'.away \/ rt'.timer
    /\ \/ UNCHANGED <<writes, overlap>>
       \/ r # None /\ rt' = None /\ Save(r.host)

\* A look at the hall, as one operator.
LEMMA HallLooked ==
    ASSUME TypeOK, NEW r \in Runtimes \cup {None},
           NEW p \in [Users -> SUBSET Sockets], PresenceChanged(r, p)
    PROVE  Looked(r, p)
BY HallLookedAt DEF Looked

\* The hall without the socket s, without the user u.
Without(s) == [presence EXCEPT ![Owner[s]] = @ \ {s}]
Emptied(u) == [presence EXCEPT ![u] = {}]

\* A socket that leaves, or is lost: the hall is looked at when it was counted.
LEMMA GoneLooked ==
    ASSUME TypeOK, NEW s \in Sockets, Leave(s) \/ Disconnect(s)
    PROVE  /\ \/ UNCHANGED <<rt, presence, writes, overlap>>
              \/ Looked(rt, Without(s))
           /\ presence = Empty => presence' = Empty
           /\ Leave(s) \/ s \in watched => presence' = Without(s)
<1>1. Owner[s] \in Users /\ presence \in [Users -> SUBSET Sockets]
  BY HallAssumption DEF TypeOK
<1>2. Without(s) \in [Users -> SUBSET Sockets]
  BY <1>1 DEF Without
<1>3. rt \in Runtimes \cup {None}
  BY DEF TypeOK
<1>4. \/ UNCHANGED <<rt, presence, writes, overlap>> /\ ~(Leave(s) \/ s \in watched)
      \/ LeaveHall(s)
  BY DEF Leave, Disconnect
<1>5. CASE UNCHANGED <<rt, presence, writes, overlap>> /\ ~(Leave(s) \/ s \in watched)
  BY <1>5
<1>6. CASE LeaveHall(s) /\ presence[Owner[s]] # {}
  <2>1. PresenceChanged(rt, Without(s))
    BY <1>6 DEF LeaveHall, Without
  <2>2. Looked(rt, Without(s))
    BY <1>2, <1>3, <2>1, HallLooked
  <2> QED BY <1>1, <1>6, <2>2 DEF Looked, Empty
<1>7. CASE LeaveHall(s) /\ presence[Owner[s]] = {}
  <2>1. UNCHANGED <<rt, presence, writes, overlap>>
    BY <1>7 DEF LeaveHall
  <2>2. Without(s) = presence
    BY <1>1, <1>7 DEF Without
  <2> QED BY <2>1, <2>2
<1> QED BY <1>4, <1>5, <1>6, <1>7

\* A member whose row is deleted: the hall is looked at without them.
LEMMA RowLooked ==
    ASSUME TypeOK, NEW u \in Users, LeaveRow(u), u \in Joined
    PROVE  /\ Looked(rt, Emptied(u)) /\ presence' = Emptied(u)
           /\ presence = Empty => presence' = Empty
<1>1. presence \in [Users -> SUBSET Sockets] /\ rt \in Runtimes \cup {None}
  BY DEF TypeOK
<1>2. Emptied(u) \in [Users -> SUBSET Sockets]
  BY <1>1 DEF Emptied
<1>3. PresenceChanged(rt, Emptied(u))
  BY DEF LeaveRow, Emptied
<1>4. Looked(rt, Emptied(u))
  BY <1>1, <1>2, <1>3, HallLooked
<1>5. presence' = Emptied(u)
  BY <1>4 DEF Looked
<1>6. presence = Empty => Emptied(u) = Empty
  BY DEF Emptied, Empty
<1> QED BY <1>4, <1>5, <1>6

\* The hall with the socket s.
With(s) == [presence EXCEPT ![Owner[s]] = @ \cup {s}]

\* joinHall counts the socket, and then calls setHost or looks at the hall.
LEMMA EnterLooked ==
    ASSUME TypeOK, NEW s \in Sockets, Enter(s)
    PROVE  /\ presence' = With(s) /\ s \in With(s)[Owner[s]]
           /\ \/ /\ rt # None /\ rt.away /\ Owner[s] # rt.host
                 /\ SetHost(s, Owner[s]) /\ join' = [join EXCEPT ![s] = "set"]
                 /\ UNCHANGED <<rt, writes, overlap>>
              \/ /\ Looked(rt, With(s)) /\ UNCHANGED setting
                 /\ UNCHANGED <<writes, overlap>> /\ (rt # None => rt' # None)
                 /\ rt # None /\ Owner[s] # rt.host => ~rt.away
                 /\ join' = [join EXCEPT ![s] = "tail"]
<1>1. presence \in [Users -> SUBSET Sockets] /\ rt \in Runtimes \cup {None}
      /\ Owner[s] \in Users
  BY HallAssumption DEF TypeOK
<1>2. With(s) \in [Users -> SUBSET Sockets] /\ s \in With(s)[Owner[s]]
  BY <1>1 DEF With
<1>3. CASE rt # None /\ rt.away /\ Owner[s] # rt.host
  BY <1>2, <1>3 DEF Enter, With
<1>4. CASE ~(rt # None /\ rt.away /\ Owner[s] # rt.host)
  <2>1. /\ PresenceChanged(rt, With(s)) /\ UNCHANGED setting
        /\ join' = [join EXCEPT ![s] = "tail"]
    BY <1>4 DEF Enter, With
  <2>2. Looked(rt, With(s))
    BY <1>1, <1>2, <2>1, HallLooked
  <2>3. With(s) # Empty
    BY <1>1, <1>2 DEF Empty
  <2>4. rt # None => rt' # None
    BY <2>2, <2>3 DEF Looked
  <2> QED BY <1>2, <1>4, <2>1, <2>2, <2>4 DEF Looked
<1> QED BY <1>3, <1>4

\* The runtime that setHost leaves is looked at.
Handed(t) == [host |-> setting[t].to, away |-> FALSE, timer |-> FALSE]

\* The second half of setHost: the runtime is looked at if it is still there.
LEMMA ReturnLooked ==
    ASSUME TypeOK, NEW t \in Setters, SetHostReturn(t)
    PROVE  /\ setting[t].to \in Users /\ Handed(t) \in Runtimes
           /\ presence' = presence /\ (rt' = None <=> rt = None)
           /\ UNCHANGED <<writes, overlap>>
           /\ rt # None => Looked(Handed(t), presence)
<1>1. /\ presence \in [Users -> SUBSET Sockets] /\ rt \in Runtimes \cup {None}
      /\ setting[t] \in HandOvers
  BY DEF TypeOK, SetHostReturn
<1>2. setting[t].to \in Users /\ Handed(t) \in Runtimes /\ Handed(t).away = FALSE
  BY <1>1 DEF HandOvers, Handed, Runtimes
<1>3. CASE rt = None
  BY <1>2, <1>3 DEF SetHostReturn
<1>4. CASE rt # None
  <2>1. PresenceChanged(Handed(t), presence)
    BY <1>4 DEF SetHostReturn, Handed
  <2>2. Looked(Handed(t), presence)
    BY <1>1, <1>2, <2>1, HallLooked
  <2>3. Handed(t) # None
    BY <1>2, HallAssumption
  <2>4. rt' # None /\ UNCHANGED <<writes, overlap>>
    <3>1. [Handed(t) EXCEPT !.timer = FALSE, !.away = FALSE] \in Runtimes
          /\ [Handed(t) EXCEPT !.timer = @ \/ ~Handed(t).away] \in Runtimes
      BY <1>2 DEF Runtimes
    <3> QED BY <1>2, <2>1, <2>3, <3>1, HallAssumption DEF PresenceChanged
  <2> QED BY <1>2, <1>4, <2>2, <2>4 DEF Looked
<1> QED BY <1>3, <1>4

-----------------------------------------------------------------------------
(* The row, the runtime, a load and a resolution.                          *)

\* What the row, the runtime, a load and a resolution say of one another.
Rooms ==
    /\ db = NoUser => Joined = {}
    /\ ~resolve.live => resolve.host \in Users
    /\ resolve.pc = "save" => resolve.host \in Users
    /\ rt = None => presence = Empty
    /\ \A s \in Sockets : join[s] = "enter" => rt # None
    /\ load # None => rt = None

\* Nothing is loaded when the service starts.
LEMMA RoomsInit == Init => Rooms
BY HallAssumption DEF Init, Rooms, NoResolve

\* No step breaks what they say of one another.
LEMMA RoomsNext == TypeOK /\ Rooms /\ [Next]_vars => Rooms'
<1> SUFFICES ASSUME TypeOK, Rooms, [Next]_vars PROVE Rooms'
  OBVIOUS
<1>a. /\ join \in [Sockets -> {"no", "member", "loading", "enter", "set", "tail"}]
      /\ resolve \in Resolves /\ db \in Users \cup {NoUser}
      /\ joinedAt \in [Users -> Nat] /\ presence \in [Users -> SUBSET Sockets]
      /\ rt \in Runtimes \cup {None}
      /\ load \in Users \cup {"asked", None}
  BY DEF TypeOK
<1> USE <1>a DEF Rooms, Resolves, Joined
<1>1. ASSUME NEW s \in Sockets, JoinAsk(s) PROVE Rooms'
  BY <1>1 DEF JoinAsk
<1>2. ASSUME NEW s \in Sockets, JoinMember(s) PROVE Rooms'
  BY <1>2 DEF JoinMember
<1>3. ASSUME NEW s \in Sockets, Enter(s) PROVE Rooms'
  <2>1. /\ UNCHANGED <<db, joinedAt, load, resolve>>
        /\ \A x \in Sockets : join'[x] = "enter" => join[x] = "enter"
        /\ join[s] = "enter"
    BY <1>3 DEF Enter
  <2>2. rt # None /\ rt' # None
    <3>1. CASE UNCHANGED rt
      BY <2>1, <3>1
    <3>2. CASE ~UNCHANGED rt
      BY <1>3, <2>1, <3>2, EnterLooked DEF Enter
    <3> QED BY <3>1, <3>2
  <2> QED BY <2>1, <2>2
<1>4. ASSUME NEW s \in Sockets, Answer(s) PROVE Rooms'
  BY <1>4 DEF Answer
<1>5. ASSUME NEW s \in Sockets, Leave(s) PROVE Rooms'
  <2>1. \/ UNCHANGED <<rt, presence>>
        \/ /\ rt' # None => rt # None
           /\ rt' = None => rt = None \/ presence' = Empty
           /\ presence = Empty => presence' = Empty
    BY <1>5, GoneLooked DEF Looked
  <2>2. /\ ~resolve'.live => resolve'.host \in Users
        /\ resolve'.pc = "save" => resolve'.host \in Users
    BY <1>5, OrphanedKeeps DEF Leave
  <2> QED BY <1>5, <2>1, <2>2 DEF Leave, Quiet
<1>6. ASSUME NEW s \in Sockets, Disconnect(s) PROVE Rooms'
  <2>1. \/ UNCHANGED <<rt, presence>>
        \/ /\ rt' # None => rt # None
           /\ rt' = None => rt = None \/ presence' = Empty
           /\ presence = Empty => presence' = Empty
    BY <1>6, GoneLooked DEF Looked
  <2>2. /\ ~resolve'.live => resolve'.host \in Users
        /\ resolve'.pc = "save" => resolve'.host \in Users
    BY <1>6, OrphanedKeeps DEF Disconnect
  <2> QED BY <1>6, <2>1, <2>2 DEF Disconnect, Quiet
<1>7. CASE LoadRead
  <2>1. /\ UNCHANGED <<db, joinedAt, rt, presence, resolve>> /\ load # None
        /\ \A s \in Sockets : join'[s] = "enter" => join[s] = "enter"
    BY <1>7, HallAssumption DEF LoadRead, Loading
  <2> QED BY <2>1
<1>8. CASE LoadDone
  <2>1. [host |-> load, away |-> FALSE, timer |-> FALSE] \in Runtimes
    BY <1>8 DEF LoadDone, Runtimes
  <2>2. /\ UNCHANGED <<db, joinedAt, presence, resolve>> /\ load' = None
        /\ rt' # None
    BY <1>8, <2>1, HallAssumption DEF LoadDone
  <2> QED BY <2>2
<1>9. ASSUME NEW t \in Setters, SetHostWrite(t) PROVE Rooms'
  <2>1. /\ UNCHANGED <<joinedAt, rt, presence, load>> /\ Quiet
        /\ db' = NoUser <=> db = NoUser
        /\ resolve' = resolve \/ (resolve'.live = TRUE /\ resolve'.pc = "no")
        /\ \A x \in Sockets : join'[x] = "enter" => join[x] = "enter"
    BY <1>9, HostWritten, HallAssumption DEF SetHostWrite, Abort, NoResolve
  <2> QED BY <2>1
<1>10. ASSUME NEW t \in Setters, SetHostReturn(t) PROVE Rooms'
  <2>1. /\ UNCHANGED <<db, joinedAt, load>> /\ Quiet
        /\ resolve' = resolve \/ (resolve'.live = TRUE /\ resolve'.pc = "no")
        /\ \A x \in Sockets : join'[x] = "enter" => join[x] = "enter"
    BY <1>10 DEF SetHostReturn, Continue, NoResolve
  <2>2. \/ UNCHANGED <<rt, presence>>
        \/ /\ rt # None
           /\ rt' = None => presence' = Empty
    BY <1>10, ReturnLooked DEF Looked
  <2> QED BY <2>1, <2>2 DEF Quiet
<1>11. ASSUME NEW t \in Setters, SetHostFails(t) PROVE Rooms'
  BY <1>11 DEF SetHostFails, Abort, NoResolve
<1>12. ASSUME NEW u \in Users, NEW v \in Users, Transfer(u, v) PROVE Rooms'
  BY <1>12 DEF Transfer
<1>13. ASSUME NEW u \in Users, LeaveRoom(u) PROVE Rooms'
  BY <1>13 DEF LeaveRoom
<1>14. ASSUME NEW u \in Users, LeaveOthers(u) PROVE Rooms'
  BY <1>14 DEF LeaveOthers, SetHost
<1>15. ASSUME NEW u \in Users, LeaveRow(u) PROVE Rooms'
  <2>3. /\ ~resolve'.live => resolve'.host \in Users
        /\ resolve'.pc = "save" => resolve'.host \in Users
    BY <1>15, OrphanedKeeps DEF LeaveRow
  <2>1. CASE u \notin Joined
    BY <1>15, <2>1, <2>3 DEF LeaveRow
  <2>2. CASE u \in Joined
    <3>1. /\ rt' # None => rt # None
          /\ rt' = None => rt = None \/ presence' = Empty
          /\ presence = Empty => presence' = Empty
      BY <1>15, <2>2, RowLooked DEF Looked
    <3>2. db # NoUser /\ UNCHANGED <<db, load, join>> /\ Quiet
      BY <1>15, <2>2 DEF LeaveRow
    <3> QED BY <2>3, <3>1, <3>2 DEF Quiet
  <2> QED BY <2>1, <2>2
<1>16. ASSUME NEW u \in Users, DeleteRoom(u) PROVE Rooms'
  BY <1>16 DEF DeleteRoom
<1>17. ASSUME NEW u \in Users, Drop(u) PROVE Rooms'
  <2>1. CASE db = NoUser
    BY <1>17, <2>1 DEF Drop
  <2>2. CASE db # NoUser
    <3>1. /\ db' = NoUser /\ joinedAt' = [v \in Users |-> 0]
          /\ rt' = None /\ presence' = Empty /\ UNCHANGED join
          /\ Quiet
      BY <1>17, <2>2 DEF Drop
    <3>2. Joined' = {}
      BY <3>1
    <3>3. /\ ~resolve'.live => resolve'.host \in Users
          /\ resolve'.pc = "save" => resolve'.host \in Users
      BY <1>17, <2>2, OrphanedKeeps DEF Drop
    <3> QED BY <3>1, <3>2, <3>3 DEF Quiet
  <2> QED BY <2>1, <2>2
<1>18. ASSUME NEW u \in Users, AddMember(u) PROVE Rooms'
  <2>1. db # NoUser /\ UNCHANGED <<db, rt, load, presence, join, resolve>>
    BY <1>18 DEF AddMember
  <2> QED BY <2>1
<1>19. ASSUME NEW u \in Users, Control(u) PROVE Rooms'
  BY <1>19 DEF Control
<1>20. ASSUME NEW u \in Users, Saved(u) PROVE Rooms'
  BY <1>20, HallAssumption DEF Saved
<1>21. CASE GraceFires
  <2>1. rt \in Runtimes /\ rt' = [rt EXCEPT !.timer = FALSE]
    BY <1>21 DEF GraceFires
  <2>2. rt' # None
    BY <2>1, HallAssumption DEF Runtimes
  <2> QED BY <1>21, <2>2 DEF GraceFires, NoResolve
<1>22. CASE ResolveOrder
  <2>1. UNCHANGED <<db, joinedAt, presence, load, join>> /\ rt' # None
        /\ rt \in Runtimes
    <3>1. rt \in Runtimes => [rt EXCEPT !.away = TRUE] \in Runtimes
      BY DEF Runtimes
    <3>2. rt \in Runtimes /\ rt # None
      BY <1>22 DEF ResolveOrder
    <3>3. /\ UNCHANGED <<db, joinedAt, presence, load, join>>
          /\ UNCHANGED rt \/ rt' = [rt EXCEPT !.away = TRUE]
      BY <1>22 DEF ResolveOrder
    <3> QED BY <3>1, <3>2, <3>3, HallAssumption
  <2>2. rt # None /\ resolve.live
    BY <1>22 DEF ResolveOrder
  <2>3. \/ resolve' = [resolve EXCEPT !.pc = "set"]
        \/ resolve' = [resolve EXCEPT !.pc = "save", !.host = rt.host]
    BY <1>22 DEF ResolveOrder
  <2>4. CASE resolve' = [resolve EXCEPT !.pc = "set"]
    <3>1. resolve'.live /\ resolve'.pc = "set"
      BY <2>2, <2>4
    <3> QED BY <2>1, <2>2, <3>1
  <2>5. CASE resolve' = [resolve EXCEPT !.pc = "save", !.host = rt.host]
    <3>1. resolve'.live /\ resolve'.host = rt.host
      BY <2>2, <2>5
    <3>2. rt.host \in Users
      BY <2>1 DEF Runtimes
    <3> QED BY <2>1, <2>2, <3>1, <3>2
  <2> QED BY <2>3, <2>4, <2>5
<1>23. CASE ResolveFails
  BY <1>23 DEF ResolveFails, NoResolve
<1>24. CASE ResolveSaved
  <2>1. resolve' = NoResolve /\ resolve.pc = "save" /\ Quiet
        /\ UNCHANGED <<joinedAt, load, join>>
        /\ db' = IF db = NoUser THEN NoUser ELSE resolve.host
    BY <1>24 DEF ResolveSaved
  <2>2. UNCHANGED <<rt, presence>> \/ (rt' = None /\ presence' = Empty)
    <3>1. CASE resolve.present = {} /\ rt # None
      BY <1>24, <3>1 DEF ResolveSaved
    <3>2. CASE ~(resolve.present = {} /\ rt # None)
      BY <1>24, <3>2 DEF ResolveSaved
    <3> QED BY <3>1, <3>2
  <2>3. resolve'.live = TRUE /\ resolve'.pc = "no"
    BY <2>1 DEF NoResolve
  <2>4. db' = NoUser <=> db = NoUser
    BY <2>1, HallAssumption
  <2> QED BY <2>1, <2>2, <2>3, <2>4 DEF Quiet
<1>25. CASE UNCHANGED vars
  BY <1>25 DEF vars
<1>26. ASSUME NEW s \in Sockets, AnswerFails(s) PROVE Rooms'
  BY <1>26 DEF AnswerFails
<1>27. CASE ResolveOrphan
  <2>1. UNCHANGED <<db, joinedAt, presence, load, join, rt>> /\ ~resolve.live
    BY <1>27 DEF ResolveOrphan
  <2>2. \/ resolve' = [resolve EXCEPT !.pc = "set"]
        \/ resolve' = [resolve EXCEPT !.pc = "save"]
    BY <1>27 DEF ResolveOrphan
  <2>3. resolve'.host = resolve.host
    BY <2>2
  <2> QED BY <2>1, <2>3
<1> QED BY <1>1, <1>2, <1>3, <1>4, <1>5, <1>6, <1>7, <1>8, <1>9, <1>10, <1>11,
       <1>12, <1>13, <1>14, <1>15, <1>16, <1>17, <1>18, <1>19, <1>20, <1>21,
       <1>22, <1>23, <1>24, <1>25, <1>26, <1>27
       DEF Next, Client, Faults, LoadStep, ResolveStep, JoinStep, SetHostStep,
           LeaveStep

\* A deleted room stays deleted.
LEMMA NeverUndeleted == TypeOK /\ [Next]_vars /\ db = NoUser => db' = NoUser
<1> SUFFICES ASSUME TypeOK, [Next]_vars, db = NoUser PROVE db' = NoUser
  OBVIOUS
<1>1. ASSUME NEW s \in Sockets, JoinAsk(s) PROVE db' = NoUser
  BY <1>1 DEF JoinAsk
<1>2. ASSUME NEW s \in Sockets, JoinMember(s) PROVE db' = NoUser
  BY <1>2 DEF JoinMember
<1>3. ASSUME NEW s \in Sockets, Enter(s) PROVE db' = NoUser
  BY <1>3 DEF Enter
<1>4. ASSUME NEW s \in Sockets, Answer(s) PROVE db' = NoUser
  BY <1>4 DEF Answer
<1>5. ASSUME NEW s \in Sockets, Leave(s) PROVE db' = NoUser
  BY <1>5 DEF Leave
<1>6. ASSUME NEW s \in Sockets, Disconnect(s) PROVE db' = NoUser
  BY <1>6 DEF Disconnect
<1>7. CASE LoadRead
  BY <1>7 DEF LoadRead
<1>8. CASE LoadDone
  BY <1>8 DEF LoadDone
<1>9. ASSUME NEW t \in Setters, SetHostWrite(t) PROVE db' = NoUser
  BY <1>9 DEF SetHostWrite
<1>10. ASSUME NEW t \in Setters, SetHostReturn(t) PROVE db' = NoUser
  BY <1>10 DEF SetHostReturn
<1>11. ASSUME NEW t \in Setters, SetHostFails(t) PROVE db' = NoUser
  BY <1>11 DEF SetHostFails
<1>12. ASSUME NEW u \in Users, NEW v \in Users, Transfer(u, v) PROVE db' = NoUser
  BY <1>12 DEF Transfer
<1>13. ASSUME NEW u \in Users, LeaveRoom(u) PROVE db' = NoUser
  BY <1>13 DEF LeaveRoom
<1>14. ASSUME NEW u \in Users, LeaveOthers(u) PROVE db' = NoUser
  BY <1>14 DEF LeaveOthers
<1>15. ASSUME NEW u \in Users, LeaveRow(u) PROVE db' = NoUser
  BY <1>15 DEF LeaveRow
<1>16. ASSUME NEW u \in Users, DeleteRoom(u) PROVE db' = NoUser
  BY <1>16 DEF DeleteRoom
<1>17. ASSUME NEW u \in Users, Drop(u) PROVE db' = NoUser
  BY <1>17 DEF Drop
<1>18. ASSUME NEW u \in Users, AddMember(u) PROVE db' = NoUser
  BY <1>18 DEF AddMember
<1>19. ASSUME NEW u \in Users, Control(u) PROVE db' = NoUser
  BY <1>19 DEF Control
<1>20. ASSUME NEW u \in Users, Saved(u) PROVE db' = NoUser
  BY <1>20 DEF Saved
<1>21. CASE GraceFires
  BY <1>21 DEF GraceFires
<1>22. CASE ResolveOrder
  BY <1>22 DEF ResolveOrder
<1>23. CASE ResolveFails
  BY <1>23 DEF ResolveFails
<1>24. CASE ResolveSaved
  BY <1>24 DEF ResolveSaved
<1>25. CASE UNCHANGED vars
  BY <1>25 DEF vars
<1>26. ASSUME NEW s \in Sockets, AnswerFails(s) PROVE db' = NoUser
  BY <1>26 DEF AnswerFails
<1>27. CASE ResolveOrphan
  BY <1>27 DEF ResolveOrphan
<1> QED BY <1>1, <1>2, <1>3, <1>4, <1>5, <1>6, <1>7, <1>8, <1>9, <1>10, <1>11,
       <1>12, <1>13, <1>14, <1>15, <1>16, <1>17, <1>18, <1>19, <1>20, <1>21,
       <1>22, <1>23, <1>24, <1>25, <1>26, <1>27
       DEF Next, Client, Faults, LoadStep, ResolveStep, JoinStep, SetHostStep,
           LeaveStep

\* Nobody but s, or the sockets of u, leaves the hall with them.
LEMMA WithoutOne ==
    ASSUME TypeOK, NEW s \in Sockets
    PROVE  /\ s \notin Without(s)[Owner[s]]
           /\ \A x \in Sockets \ {s} :
                 x \in Without(s)[Owner[x]] <=> x \in presence[Owner[x]]
           /\ \A x \in Sockets : x \in Without(s)[Owner[x]] => x \in presence[Owner[x]]
           /\ \A v \in Users : Without(s)[v] \subseteq presence[v]
BY HallAssumption DEF TypeOK, Without

-----------------------------------------------------------------------------
(* Who is counted as present.                                              *)

\* Where the sockets of the hall come from: see GhostOnlyByRace.
Ghosts ==
    db # NoUser =>
      \A s \in Sockets :
        /\ s \in presence[Owner[s]] => s \in wants \/ s \in rushed
        /\ join[s] # "no" => s \in wants \/ s \in rushed
        /\ s \in presence[Owner[s]] /\ join[s] = "no" /\ s \in connected
              => s \in watched \/ s \in rushed
        /\ s \in presence[Owner[s]] \/ join[s] \in {"loading", "enter", "set", "tail"}
              => Owner[s] \in Joined \/ s \in rushed

\* Nobody is counted when the service starts.
LEMMA GhostsInit == Init => Ghosts
BY HallAssumption DEF Init, Ghosts, Empty

\* No step counts a socket that did not ask, except in a race.
LEMMA GhostsNext == TypeOK /\ Tasks /\ Ghosts /\ [Next]_vars => Ghosts'
<1> SUFFICES ASSUME TypeOK, Tasks, Ghosts, [Next]_vars, db' # NoUser PROVE Ghosts'
  BY DEF Ghosts
<1>a. /\ join \in [Sockets -> {"no", "member", "loading", "enter", "set", "tail"}]
      /\ joinedAt \in [Users -> Nat]
  BY DEF TypeOK
<1>b. db # NoUser
  <2>1. db = NoUser => db' = NoUser
    BY NeverUndeleted
  <2> QED BY <2>1
<1> USE <1>a, <1>b DEF Ghosts, Joined
<1>1. ASSUME NEW s \in Sockets, JoinAsk(s) PROVE Ghosts'
  BY <1>1 DEF JoinAsk
<1>2. ASSUME NEW s \in Sockets, JoinMember(s) PROVE Ghosts'
  BY <1>2 DEF JoinMember
<1>3. ASSUME NEW s \in Sockets, Enter(s) PROVE Ghosts'
  <2>1. /\ UNCHANGED <<wants, watched, connected, joinedAt, rushed, db>>
        /\ join[s] = "enter" /\ Owner[s] \in Users
    BY <1>3, HallAssumption DEF Enter
  <2>2. /\ presence' = With(s)
        /\ join'[s] \in {"set", "tail"}
        /\ \A x \in Sockets \ {s} : join'[x] = join[x]
    BY <1>3, EnterLooked
  <2>3. \A x \in Sockets \ {s} : x \in presence'[Owner[x]] <=> x \in presence[Owner[x]]
    BY <2>1, <2>2, HallAssumption DEF With
  <2> QED BY <2>1, <2>2, <2>3
<1>4. ASSUME NEW s \in Sockets, Answer(s) PROVE Ghosts'
  BY <1>4 DEF Answer
<1>5. ASSUME NEW s \in Sockets, Leave(s) PROVE Ghosts'
  <2>1. /\ UNCHANGED <<connected, join, joinedAt, db>>
        /\ watched' = watched \ {s} /\ wants' = wants \ {s}
        /\ \A x \in Sockets \ {s} : x \in rushed' <=> x \in rushed
        /\ join[s] # "no" => s \in rushed'
    BY <1>5 DEF Leave
  <2>2. /\ s \notin presence'[Owner[s]]
        /\ \A x \in Sockets \ {s} : x \in presence'[Owner[x]] <=> x \in presence[Owner[x]]
    BY <1>5, GoneLooked, WithoutOne
  <2> QED BY <2>1, <2>2
<1>6. ASSUME NEW s \in Sockets, Disconnect(s) PROVE Ghosts'
  <2>1. /\ UNCHANGED <<watched, join, joinedAt, db>> /\ s \in connected
        /\ connected' = connected \ {s} /\ wants' = wants \ {s}
        /\ \A x \in Sockets \ {s} : x \in rushed' <=> x \in rushed
        /\ join[s] # "no" => s \in rushed'
        /\ s \in rushed => s \in rushed'
    BY <1>6 DEF Disconnect
  <2>2. /\ \A x \in Sockets : x \in presence'[Owner[x]] => x \in presence[Owner[x]]
        /\ s \in watched => s \notin presence'[Owner[s]]
    BY <1>6, WithoutOne, GoneLooked DEF Looked
  <2> QED BY <2>1, <2>2
<1>7. CASE LoadRead
  <2>1. UNCHANGED <<presence, wants, watched, connected, joinedAt, rushed, db, join>>
    BY <1>7 DEF LoadRead
  <2> QED BY <2>1
<1>8. CASE LoadDone
  <2>1. /\ UNCHANGED <<presence, wants, watched, connected, joinedAt, rushed, db>>
        /\ \A s \in Sockets : join'[s] = IF join[s] = "loading" THEN "enter" ELSE join[s]
    BY <1>8 DEF LoadDone, Loading
  <2> QED BY <2>1
<1>9. ASSUME NEW t \in Setters, SetHostWrite(t) PROVE Ghosts'
  <2>1. UNCHANGED <<presence, join, wants, watched, connected, joinedAt, rushed>>
    BY <1>9 DEF SetHostWrite
  <2> QED BY <2>1
<1>10. ASSUME NEW t \in Setters, SetHostReturn(t) PROVE Ghosts'
  <2>1. /\ UNCHANGED <<wants, watched, connected, joinedAt, rushed, db>>
        /\ setting[t] # None
        /\ join' = IF t \in Sockets THEN [join EXCEPT ![t] = "tail"] ELSE join
    BY <1>10 DEF SetHostReturn, Continue
  <2>2. presence' = presence
    BY <1>10, ReturnLooked
  <2>3. \A x \in Sockets : join'[x] = join[x] \/ (join[x] = "set" /\ join'[x] = "tail")
    BY <2>1 DEF Tasks
  <2> QED BY <2>1, <2>2, <2>3
<1>11. ASSUME NEW t \in Setters, SetHostFails(t) PROVE Ghosts'
  <2>1. /\ UNCHANGED <<presence, watched, connected, joinedAt, db>>
        /\ \A x \in Sockets \ {t} : /\ x \in wants' <=> x \in wants
                                    /\ x \in rushed' <=> x \in rushed
                                    /\ join'[x] = join[x]
        /\ t \in Sockets => t \in rushed' /\ join'[t] = "no"
    BY <1>11 DEF SetHostFails, Abort
  <2> QED BY <2>1
<1>12. ASSUME NEW u \in Users, NEW v \in Users, Transfer(u, v) PROVE Ghosts'
  <2>1. UNCHANGED <<presence, join, wants, watched, connected, joinedAt, rushed, db>>
    BY <1>12 DEF Transfer
  <2> QED BY <2>1
<1>13. ASSUME NEW u \in Users, LeaveRoom(u) PROVE Ghosts'
  <2>1. UNCHANGED <<presence, join, wants, watched, connected, joinedAt, rushed, db>>
    BY <1>13 DEF LeaveRoom
  <2> QED BY <2>1
<1>14. ASSUME NEW u \in Users, LeaveOthers(u) PROVE Ghosts'
  <2>1. UNCHANGED <<presence, join, wants, watched, connected, joinedAt, rushed, db>>
    BY <1>14 DEF LeaveOthers
  <2> QED BY <2>1
<1>15. ASSUME NEW u \in Users, LeaveRow(u) PROVE Ghosts'
  <2>1. CASE u \notin Joined
    BY <1>15, <2>1 DEF LeaveRow
  <2>2. CASE u \in Joined
    <3>1. /\ UNCHANGED <<watched, connected, join, db>>
          /\ joinedAt' = [joinedAt EXCEPT ![u] = 0]
          /\ \A x \in Sockets : Owner[x] # u => /\ x \in wants' <=> x \in wants
                                                /\ x \in rushed' <=> x \in rushed
          /\ \A x \in Sockets : Owner[x] = u => x \in rushed' \/ join[x] = "no"
      BY <1>15, <2>2 DEF LeaveRow
    <3>2. \A v \in Users \ {u} : v \in Joined' <=> v \in Joined
      BY <3>1 DEF Joined
    <3>3. \A x \in Sockets : /\ Owner[x] = u => x \notin presence'[Owner[x]]
                             /\ Owner[x] # u => presence'[Owner[x]] = presence[Owner[x]]
      <4>1. presence' = Emptied(u)
        BY <1>15, <2>2, RowLooked
      <4>2. presence \in [Users -> SUBSET Sockets]
        BY DEF TypeOK
      <4> QED BY <4>1, <4>2, HallAssumption DEF Emptied
    <3> QED BY <3>1, <3>2, <3>3, HallAssumption
  <2> QED BY <2>1, <2>2
<1>16. ASSUME NEW u \in Users, DeleteRoom(u) PROVE Ghosts'
  <2>1. UNCHANGED <<presence, join, wants, watched, connected, joinedAt, rushed, db>>
    BY <1>16 DEF DeleteRoom
  <2> QED BY <2>1
<1>17. ASSUME NEW u \in Users, Drop(u) PROVE Ghosts'
  <2>1. db' = NoUser
    BY <1>17 DEF Drop
  <2> QED BY <2>1
<1>18. ASSUME NEW u \in Users, AddMember(u) PROVE Ghosts'
  <2>1. UNCHANGED <<presence, join, wants, watched, connected, rushed, db>>
    BY <1>18 DEF AddMember
  <2>2. Joined \subseteq Joined'
    <3>1. joinedAt' = [joinedAt EXCEPT ![u] = Cardinality(Users) + moves'] /\ u \notin Joined
      BY <1>18 DEF AddMember
    <3> QED BY <3>1 DEF Joined
  <2> QED BY <2>1, <2>2
<1>19. ASSUME NEW u \in Users, Control(u) PROVE Ghosts'
  <2>1. UNCHANGED <<presence, join, wants, watched, connected, joinedAt, rushed, db>>
    BY <1>19 DEF Control
  <2> QED BY <2>1
<1>20. ASSUME NEW u \in Users, Saved(u) PROVE Ghosts'
  <2>1. /\ UNCHANGED <<presence, join, wants, watched, connected, joinedAt, rushed>>
        /\ db' # NoUser => db # NoUser
    BY <1>20 DEF Saved
  <2> QED BY <2>1
<1>21. CASE GraceFires
  <2>1. UNCHANGED <<presence, join, wants, watched, connected, joinedAt, rushed, db>>
    BY <1>21 DEF GraceFires
  <2> QED BY <2>1
<1>22. CASE ResolveOrder
  <2>1. UNCHANGED <<presence, join, wants, watched, connected, joinedAt, rushed, db>>
    BY <1>22 DEF ResolveOrder
  <2> QED BY <2>1
<1>23. CASE ResolveFails
  <2>1. UNCHANGED <<presence, join, wants, watched, connected, joinedAt, rushed, db>>
    BY <1>23 DEF ResolveFails
  <2> QED BY <2>1
<1>24. CASE ResolveSaved
  <2>1. /\ UNCHANGED <<join, wants, watched, connected, joinedAt, rushed>>
        /\ presence' = presence \/ presence' = Empty
        /\ db' # NoUser => db # NoUser
    BY <1>24 DEF ResolveSaved
  <2>2. \A x \in Sockets : x \in presence'[Owner[x]] => x \in presence[Owner[x]]
    BY <2>1, HallAssumption DEF Empty
  <2> QED BY <2>1, <2>2
<1>25. CASE UNCHANGED vars
  BY <1>25 DEF vars
<1>26. ASSUME NEW s \in Sockets, AnswerFails(s) PROVE Ghosts'
  <2>1. /\ UNCHANGED <<presence, watched, connected, joinedAt, db>>
        /\ \A x \in Sockets \ {s} : /\ x \in wants' <=> x \in wants
                                    /\ x \in rushed' <=> x \in rushed
                                    /\ join'[x] = join[x]
        /\ s \in rushed' /\ join'[s] = "no"
    BY <1>26 DEF AnswerFails
  <2> QED BY <2>1
<1>27. CASE ResolveOrphan
  <2>1. UNCHANGED <<presence, join, wants, watched, connected, joinedAt, rushed, db>>
    BY <1>27 DEF ResolveOrphan
  <2> QED BY <2>1
<1> QED BY <1>1, <1>2, <1>3, <1>4, <1>5, <1>6, <1>7, <1>8, <1>9, <1>10, <1>11,
       <1>12, <1>13, <1>14, <1>15, <1>16, <1>17, <1>18, <1>19, <1>20, <1>21,
       <1>22, <1>23, <1>24, <1>25, <1>26, <1>27
       DEF Next, Client, Faults, LoadStep, ResolveStep, JoinStep, SetHostStep,
           LeaveStep

\* Who has the hall open is in it: see PresentUnlessStale.
Presents ==
    db # NoUser =>
      \A s \in wants :
        /\ join[s] \in {"no", "set", "tail"} => s \in presence[Owner[s]] \/ stale
        /\ join[s] # "member" => Owner[s] \in Joined

\* Nobody has the hall open when the service starts.
LEMMA PresentsInit == Init => Presents
BY DEF Init, Presents

\* No step forgets a socket that has the hall open, except an eviction.
LEMMA PresentsNext == TypeOK /\ Tasks /\ Presents /\ [Next]_vars => Presents'
<1> SUFFICES ASSUME TypeOK, Tasks, Presents, [Next]_vars, db' # NoUser PROVE Presents'
  BY DEF Presents
<1>a. /\ join \in [Sockets -> {"no", "member", "loading", "enter", "set", "tail"}]
      /\ joinedAt \in [Users -> Nat] /\ wants \subseteq Sockets
  BY DEF TypeOK
<1>b. db # NoUser
  <2>1. db = NoUser => db' = NoUser
    BY NeverUndeleted
  <2> QED BY <2>1
<1>c. wants' \subseteq Sockets
  BY TypeNext DEF TypeOK
<1> USE <1>a, <1>b, <1>c DEF Presents, Joined
<1>1. ASSUME NEW s \in Sockets, JoinAsk(s) PROVE Presents'
  <2>1. /\ UNCHANGED <<presence, joinedAt, stale, db>>
        /\ join'[s] = "member" /\ \A x \in Sockets \ {s} : join'[x] = join[x]
        /\ wants' = wants \cup {s}
    BY <1>1 DEF JoinAsk
  <2> QED BY <2>1
<1>2. ASSUME NEW s \in Sockets, JoinMember(s) PROVE Presents'
  <2>1. /\ UNCHANGED <<presence, joinedAt, stale, db>>
        /\ \A x \in Sockets \ {s} : /\ join'[x] = join[x]
                                    /\ x \in wants' <=> x \in wants
        /\ \/ s \notin wants'
           \/ Owner[s] \in Joined /\ join'[s] \in {"enter", "loading"}
    BY <1>2 DEF JoinMember
  <2> QED BY <2>1
<1>3. ASSUME NEW s \in Sockets, Enter(s) PROVE Presents'
  <2>1. /\ UNCHANGED <<wants, joinedAt, stale, db>>
        /\ join[s] = "enter" /\ Owner[s] \in Users
    BY <1>3, HallAssumption DEF Enter
  <2>2. /\ presence' = With(s) /\ s \in With(s)[Owner[s]]
        /\ join'[s] \in {"set", "tail"}
        /\ \A x \in Sockets \ {s} : join'[x] = join[x]
    BY <1>3, EnterLooked
  <2>3. \A x \in Sockets : x \in presence[Owner[x]] => x \in presence'[Owner[x]]
    BY <2>1, <2>2, HallAssumption DEF With
  <2> QED BY <2>1, <2>2, <2>3
<1>4. ASSUME NEW s \in Sockets, Answer(s) PROVE Presents'
  <2>1. /\ UNCHANGED <<presence, wants, joinedAt, stale, db>>
        /\ join[s] = "tail" /\ join' = [join EXCEPT ![s] = "no"]
    BY <1>4 DEF Answer
  <2> QED BY <2>1
<1>5. ASSUME NEW s \in Sockets, Leave(s) PROVE Presents'
  <2>1. UNCHANGED <<join, joinedAt, stale, db>> /\ wants' = wants \ {s}
    BY <1>5 DEF Leave
  <2>2. \A x \in Sockets \ {s} : x \in presence[Owner[x]] => x \in presence'[Owner[x]]
    BY <1>5, WithoutOne, GoneLooked DEF Looked
  <2> QED BY <2>1, <2>2
<1>6. ASSUME NEW s \in Sockets, Disconnect(s) PROVE Presents'
  <2>1. UNCHANGED <<join, joinedAt, stale, db>> /\ wants' = wants \ {s}
    BY <1>6 DEF Disconnect
  <2>2. \A x \in Sockets \ {s} : x \in presence[Owner[x]] => x \in presence'[Owner[x]]
    BY <1>6, WithoutOne, GoneLooked DEF Looked
  <2> QED BY <2>1, <2>2
<1>7. CASE LoadRead
  <2>1. UNCHANGED <<presence, join, wants, joinedAt, stale, db>>
    BY <1>7 DEF LoadRead
  <2> QED BY <2>1
<1>8. CASE LoadDone
  <2>1. /\ UNCHANGED <<presence, wants, joinedAt, stale, db>>
        /\ \A s \in Sockets : join'[s] = IF join[s] = "loading" THEN "enter" ELSE join[s]
    BY <1>8 DEF LoadDone, Loading
  <2> QED BY <2>1
<1>9. ASSUME NEW t \in Setters, SetHostWrite(t) PROVE Presents'
  <2>1. UNCHANGED <<presence, join, wants, joinedAt, stale>>
    BY <1>9 DEF SetHostWrite
  <2> QED BY <2>1
<1>10. ASSUME NEW t \in Setters, SetHostReturn(t) PROVE Presents'
  <2>1. /\ UNCHANGED <<wants, joinedAt, stale, db>>
        /\ setting[t] # None
        /\ join' = IF t \in Sockets THEN [join EXCEPT ![t] = "tail"] ELSE join
    BY <1>10 DEF SetHostReturn, Continue
  <2>2. presence' = presence
    BY <1>10, ReturnLooked
  <2>3. \A x \in Sockets : join'[x] = join[x] \/ (join[x] = "set" /\ join'[x] = "tail")
    BY <2>1 DEF Tasks
  <2> QED BY <2>1, <2>2, <2>3
<1>11. ASSUME NEW t \in Setters, SetHostFails(t) PROVE Presents'
  <2>1. /\ UNCHANGED <<presence, joinedAt, stale, db>>
        /\ \A x \in Sockets \ {t} : /\ x \in wants' <=> x \in wants
                                    /\ join'[x] = join[x]
        /\ t \in Sockets => t \notin wants'
    BY <1>11 DEF SetHostFails, Abort
  <2> QED BY <2>1
<1>12. ASSUME NEW u \in Users, NEW v \in Users, Transfer(u, v) PROVE Presents'
  <2>1. UNCHANGED <<presence, join, wants, joinedAt, stale, db>>
    BY <1>12 DEF Transfer
  <2> QED BY <2>1
<1>13. ASSUME NEW u \in Users, LeaveRoom(u) PROVE Presents'
  <2>1. UNCHANGED <<presence, join, wants, joinedAt, stale, db>>
    BY <1>13 DEF LeaveRoom
  <2> QED BY <2>1
<1>14. ASSUME NEW u \in Users, LeaveOthers(u) PROVE Presents'
  <2>1. UNCHANGED <<presence, join, wants, joinedAt, stale, db>>
    BY <1>14 DEF LeaveOthers
  <2> QED BY <2>1
<1>15. ASSUME NEW u \in Users, LeaveRow(u) PROVE Presents'
  <2>1. CASE u \notin Joined
    BY <1>15, <2>1 DEF LeaveRow
  <2>2. CASE u \in Joined
    <3>1. /\ UNCHANGED <<join, stale, db>>
          /\ joinedAt' = [joinedAt EXCEPT ![u] = 0]
          /\ \A x \in Sockets : Owner[x] # u => (x \in wants' <=> x \in wants)
          /\ \A x \in Sockets : Owner[x] = u => x \notin wants'
      BY <1>15, <2>2 DEF LeaveRow
    <3>2. \A v \in Users \ {u} : v \in Joined' <=> v \in Joined
      BY <3>1 DEF Joined
    <3>3. \A x \in Sockets : Owner[x] # u => presence'[Owner[x]] = presence[Owner[x]]
      <4>1. presence' = Emptied(u)
        BY <1>15, <2>2, RowLooked
      <4>2. presence \in [Users -> SUBSET Sockets]
        BY DEF TypeOK
      <4> QED BY <4>1, <4>2, HallAssumption DEF Emptied
    <3> QED BY <3>1, <3>2, <3>3, HallAssumption
  <2> QED BY <2>1, <2>2
<1>16. ASSUME NEW u \in Users, DeleteRoom(u) PROVE Presents'
  <2>1. UNCHANGED <<presence, join, wants, joinedAt, stale, db>>
    BY <1>16 DEF DeleteRoom
  <2> QED BY <2>1
<1>17. ASSUME NEW u \in Users, Drop(u) PROVE Presents'
  <2>1. db' = NoUser
    BY <1>17 DEF Drop
  <2> QED BY <2>1
<1>18. ASSUME NEW u \in Users, AddMember(u) PROVE Presents'
  <2>1. UNCHANGED <<presence, join, wants, stale, db>>
    BY <1>18 DEF AddMember
  <2>2. Joined \subseteq Joined'
    <3>1. joinedAt' = [joinedAt EXCEPT ![u] = Cardinality(Users) + moves'] /\ u \notin Joined
      BY <1>18 DEF AddMember
    <3> QED BY <3>1 DEF Joined
  <2> QED BY <2>1, <2>2
<1>19. ASSUME NEW u \in Users, Control(u) PROVE Presents'
  <2>1. UNCHANGED <<presence, join, wants, joinedAt, stale, db>>
    BY <1>19 DEF Control
  <2> QED BY <2>1
<1>20. ASSUME NEW u \in Users, Saved(u) PROVE Presents'
  <2>1. UNCHANGED <<presence, join, wants, joinedAt, stale>>
    BY <1>20 DEF Saved
  <2> QED BY <2>1
<1>21. CASE GraceFires
  <2>1. UNCHANGED <<presence, join, wants, joinedAt, stale, db>>
    BY <1>21 DEF GraceFires
  <2> QED BY <2>1
<1>22. CASE ResolveOrder
  <2>1. /\ UNCHANGED <<presence, join, wants, joinedAt, db>>
        /\ stale => stale'
    BY <1>22 DEF ResolveOrder
  <2> QED BY <2>1
<1>23. CASE ResolveFails
  <2>1. UNCHANGED <<presence, join, wants, joinedAt, stale, db>>
    BY <1>23 DEF ResolveFails
  <2> QED BY <2>1
<1>24. CASE ResolveSaved
  <2>1. /\ UNCHANGED <<join, wants, joinedAt>>
        /\ stale => stale'
        /\ presence' = presence \/ (Watching # {} => stale')
    BY <1>24 DEF ResolveSaved
  <2>2. ASSUME NEW s \in wants, join[s] \in {"no", "set", "tail"}
        PROVE  s \in presence'[Owner[s]] \/ stale'
    <3>1. CASE s \in presence[Owner[s]]
      <4>1. Owner[s] \in Joined
        BY <2>2
      <4>2. Owner[s] \in Watching
        BY <2>2, <3>1, <4>1 DEF Watching
      <4> QED BY <2>1, <3>1, <4>2
    <3>2. CASE stale
      BY <2>1, <3>2
    <3> QED BY <2>2, <3>1, <3>2
  <2> QED BY <2>1, <2>2
<1>25. CASE UNCHANGED vars
  BY <1>25 DEF vars
<1>26. ASSUME NEW s \in Sockets, AnswerFails(s) PROVE Presents'
  <2>1. /\ UNCHANGED <<presence, joinedAt, stale, db>>
        /\ \A x \in Sockets \ {s} : /\ x \in wants' <=> x \in wants
                                    /\ join'[x] = join[x]
        /\ s \notin wants'
    BY <1>26 DEF AnswerFails
  <2> QED BY <2>1
<1>27. CASE ResolveOrphan
  <2>1. UNCHANGED <<presence, join, wants, joinedAt, stale, db>>
    BY <1>27 DEF ResolveOrphan
  <2> QED BY <2>1
<1> QED BY <1>1, <1>2, <1>3, <1>4, <1>5, <1>6, <1>7, <1>8, <1>9, <1>10, <1>11,
       <1>12, <1>13, <1>14, <1>15, <1>16, <1>17, <1>18, <1>19, <1>20, <1>21,
       <1>22, <1>23, <1>24, <1>25, <1>26, <1>27
       DEF Next, Client, Faults, LoadStep, ResolveStep, JoinStep, SetHostStep,
           LeaveStep

\* The sockets of the hall, by their users.
LEMMA InHall ==
    ASSUME TypeOK, NEW v \in Users, NEW x \in presence[v]
    PROVE  x \in Sockets /\ Owner[x] = v
BY DEF TypeOK

-----------------------------------------------------------------------------
(* Who is waited for.                                                      *)

\* A host marked away waits for nobody who has the hall open.
Away == rt # None /\ rt.away /\ Watching # {} => Writing \/ stale \/ faults > 0

\* The absence of the host of the runtime in the map is being resolved.
Ordering == resolve.pc = "order" /\ resolve.live

\* An absent host, not marked away, is waited for while anybody is present.
Absent ==
    /\ rt # None /\ ~rt.away /\ db # NoUser
    /\ rt.host \notin Present(presence) /\ Present(presence) # {}
    => rt.timer \/ Ordering \/ Writing \/ faults > 0

\* No host is marked away when the service starts.
LEMMA AwayInit == Init => Away
BY DEF Init, Away

\* Who comes into the hall of a host marked away becomes the host.
LEMMA AwayNext == TypeOK /\ Rooms /\ Presents /\ Away /\ [Next]_vars => Away'
<1> SUFFICES ASSUME TypeOK, Rooms, Presents, Away, [Next]_vars,
                    rt' # None, rt'.away, Watching' # {}, ~stale', ~(faults' > 0)
             PROVE  Writing'
  BY DEF Away
<1>a. /\ join \in [Sockets -> {"no", "member", "loading", "enter", "set", "tail"}]
      /\ joinedAt \in [Users -> Nat] /\ presence \in [Users -> SUBSET Sockets]
      /\ wants \subseteq Sockets /\ faults \in 0..MaxFaults
      /\ rt \in Runtimes \cup {None}
  BY DEF TypeOK
<1> USE <1>a DEF Away, Writing
<1>1. ASSUME NEW s \in Sockets, JoinAsk(s) PROVE Writing'
  <2>1. /\ UNCHANGED <<rt, presence, joinedAt, setting, stale, faults>>
        /\ wants' = wants \cup {s}
        /\ join'[s] = "member" /\ \A x \in Sockets \ {s} : join'[x] = join[x]
    BY <1>1 DEF JoinAsk
  <2>2. Watching' \subseteq Watching
    BY <2>1, InHall DEF Watching, Joined
  <2> QED BY <2>1, <2>2
<1>2. ASSUME NEW s \in Sockets, JoinMember(s) PROVE Writing'
  <2>1. /\ UNCHANGED <<rt, presence, joinedAt, setting, stale, faults>>
        /\ \A x \in Sockets \ {s} : /\ join'[x] = join[x]
                                    /\ x \in wants' => x \in wants
        /\ s \notin wants' \/ join'[s] \in {"enter", "loading"}
    BY <1>2 DEF JoinMember
  <2>2. Watching' \subseteq Watching
    BY <2>1, InHall DEF Watching, Joined
  <2> QED BY <2>1, <2>2
<1>3. ASSUME NEW s \in Sockets, Enter(s) PROVE Writing'
  <2>1. rt # None /\ Owner[s] \in Users /\ s \in Setters
    BY <1>3, HallAssumption DEF Enter, Rooms, Setters
  <2>2. \/ SetHost(s, Owner[s])
        \/ /\ Looked(rt, With(s)) /\ s \in With(s)[Owner[s]]
           /\ Owner[s] # rt.host => ~rt.away
    BY <1>3, <2>1, EnterLooked
  <2>3. CASE SetHost(s, Owner[s])
    BY <2>1, <2>3, SetHostOnly DEF Writing
  <2>4. CASE Looked(rt, With(s)) /\ s \in With(s)[Owner[s]]
             /\ (Owner[s] # rt.host => ~rt.away)
    <3>1. rt.away /\ rt.host \notin Present(With(s))
      BY <2>4 DEF Looked
    <3>2. Owner[s] \in Present(With(s))
      BY <2>1, <2>4 DEF Present
    <3> QED BY <2>4, <3>1, <3>2
  <2> QED BY <2>2, <2>3, <2>4
<1>4. ASSUME NEW s \in Sockets, Answer(s) PROVE Writing'
  <2>1. /\ UNCHANGED <<rt, presence, joinedAt, wants, setting, stale, faults>>
        /\ join[s] = "tail" /\ join' = [join EXCEPT ![s] = "no"]
    BY <1>4 DEF Answer
  <2>2. Watching' \subseteq Watching
    BY <2>1, InHall DEF Watching, Joined
  <2> QED BY <2>1, <2>2
<1>5. ASSUME NEW s \in Sockets, Leave(s) PROVE Writing'
  <2>1. UNCHANGED <<joinedAt, join, setting, stale, faults>> /\ wants' = wants \ {s}
    BY <1>5 DEF Leave
  <2>2. (UNCHANGED <<rt, presence>>) \/ Looked(rt, Without(s))
    BY <1>5, GoneLooked
  <2>3. /\ rt # None /\ rt.away
        /\ \A v \in Users : presence'[v] \subseteq presence[v]
    BY <2>2, WithoutOne DEF Looked
  <2>4. Watching' \subseteq Watching
    BY <2>1, <2>3 DEF Watching, Joined
  <2> QED BY <2>1, <2>3, <2>4
<1>6. ASSUME NEW s \in Sockets, Disconnect(s) PROVE Writing'
  <2>1. UNCHANGED <<joinedAt, join, setting, stale, faults>> /\ wants' = wants \ {s}
    BY <1>6 DEF Disconnect
  <2>2. (UNCHANGED <<rt, presence>>) \/ Looked(rt, Without(s))
    BY <1>6, GoneLooked
  <2>3. /\ rt # None /\ rt.away
        /\ \A v \in Users : presence'[v] \subseteq presence[v]
    BY <2>2, WithoutOne DEF Looked
  <2>4. Watching' \subseteq Watching
    BY <2>1, <2>3 DEF Watching, Joined
  <2> QED BY <2>1, <2>3, <2>4
<1>7. CASE LoadRead
  <2>1. load # None /\ rt' = rt
    BY <1>7, HallAssumption DEF LoadRead
  <2> QED BY <2>1 DEF Rooms
<1>8. CASE LoadDone
  <2>1. rt'.away = FALSE
    BY <1>8 DEF LoadDone
  <2> QED BY <2>1
<1>9. ASSUME NEW t \in Setters, SetHostWrite(t) PROVE Writing'
  <2>1. CASE db = NoUser
    <3>1. Joined = {} /\ UNCHANGED joinedAt
      BY <1>9, <2>1 DEF SetHostWrite, Rooms
    <3>2. Joined' = {}
      BY <3>1 DEF Joined
    <3> QED BY <3>2 DEF Watching
  <2>2. CASE db # NoUser
    BY <1>9, <2>2, HostWritten DEF Writing
  <2> QED BY <2>1, <2>2
<1>10. ASSUME NEW t \in Setters, SetHostReturn(t) PROVE Writing'
  <2>1. rt' # None /\ Looked(Handed(t), presence)
    BY <1>10, ReturnLooked
  <2> QED BY <2>1 DEF Looked, Handed
<1>11. ASSUME NEW t \in Setters, SetHostFails(t) PROVE Writing'
  <2>1. faults' = faults + 1
    BY <1>11 DEF SetHostFails
  <2> QED BY <2>1, Bounds
<1>12. ASSUME NEW u \in Users, NEW v \in Users, Transfer(u, v) PROVE Writing'
  <2>1. SetHost("transfer", v) /\ "transfer" \in Setters
    BY <1>12 DEF Transfer, Setters
  <2> QED BY <2>1, SetHostOnly DEF Writing
<1>13. ASSUME NEW u \in Users, LeaveRoom(u) PROVE Writing'
  <2>1. UNCHANGED <<rt, presence, joinedAt, wants, join, setting, stale, faults>>
    BY <1>13 DEF LeaveRoom
  <2> QED BY <2>1 DEF Watching, Joined
<1>14. ASSUME NEW u \in Users, LeaveOthers(u) PROVE Writing'
  <2>1. CASE Joined \ {u} = {}
    <3>1. UNCHANGED <<rt, presence, joinedAt, wants, join, setting, stale, faults>>
      BY <1>14, <2>1 DEF LeaveOthers
    <3> QED BY <3>1 DEF Watching, Joined
  <2>2. CASE Joined \ {u} # {}
    BY <1>14, <2>2, LeaverNames, SetHostOnly DEF Writing, Setters
  <2> QED BY <2>1, <2>2
<1>15. ASSUME NEW u \in Users, LeaveRow(u) PROVE Writing'
  <2>1. CASE u \notin Joined
    <3>1. UNCHANGED <<rt, presence, joinedAt, wants, join, setting, stale, faults>>
      BY <1>15, <2>1 DEF LeaveRow
    <3> QED BY <3>1 DEF Watching, Joined
  <2>2. CASE u \in Joined
    <3>1. /\ UNCHANGED <<join, setting, stale, faults>>
          /\ joinedAt' = [joinedAt EXCEPT ![u] = 0] /\ wants' \subseteq wants
      BY <1>15, <2>2 DEF LeaveRow
    <3>2. Looked(rt, Emptied(u)) /\ presence' = Emptied(u)
      BY <1>15, <2>2, RowLooked
    <3>3. \A v \in Users : presence'[v] \subseteq presence[v]
      BY <3>2 DEF Emptied
    <3>4. Joined' \subseteq Joined
      BY <3>1 DEF Joined
    <3>5. Watching' \subseteq Watching
      BY <3>1, <3>3, <3>4 DEF Watching, Joined
    <3>6. rt # None /\ rt.away
      BY <3>2 DEF Looked
    <3> QED BY <3>1, <3>5, <3>6
  <2> QED BY <2>1, <2>2
<1>16. ASSUME NEW u \in Users, DeleteRoom(u) PROVE Writing'
  <2>1. UNCHANGED <<rt, presence, joinedAt, wants, join, setting, stale, faults>>
    BY <1>16 DEF DeleteRoom
  <2> QED BY <2>1 DEF Watching, Joined
<1>17. ASSUME NEW u \in Users, Drop(u) PROVE Writing'
  <2>1. rt' = None \/ UNCHANGED <<rt, presence, joinedAt, wants, join, setting, stale, faults>>
    BY <1>17 DEF Drop
  <2> QED BY <2>1 DEF Watching, Joined
<1>18. ASSUME NEW u \in Users, AddMember(u) PROVE Writing'
  <2>1. UNCHANGED <<rt, presence, wants, join, setting, stale, faults, db>> /\ db # NoUser
    BY <1>18 DEF AddMember
  <2>2. \A v \in Users \ {u} : v \in Joined' => v \in Joined
    BY <1>18 DEF AddMember, Joined
  <2>3. ASSUME NEW v \in Watching' PROVE v \in Watching
    <3>1. v \in Users /\ v \in Joined'
      BY DEF Watching, Joined
    <3>2. PICK x \in presence[v] : x \in wants /\ join[x] \in {"no", "set", "tail"}
      BY <2>1, <2>3 DEF Watching
    <3>3. v \in Joined
      BY <2>1, <3>1, <3>2, InHall DEF Presents
    <3> QED BY <3>2, <3>3 DEF Watching
  <2> QED BY <2>1, <2>3
<1>19. ASSUME NEW u \in Users, Control(u) PROVE Writing'
  <2>1. UNCHANGED <<rt, presence, joinedAt, wants, join, setting, stale, faults>>
    BY <1>19 DEF Control
  <2> QED BY <2>1 DEF Watching, Joined
<1>20. ASSUME NEW u \in Users, Saved(u) PROVE Writing'
  <2>1. UNCHANGED <<rt, presence, joinedAt, wants, join, setting, stale, faults>>
    BY <1>20 DEF Saved
  <2> QED BY <2>1 DEF Watching, Joined
<1>21. CASE GraceFires
  <2>1. UNCHANGED <<presence, joinedAt, wants, join, setting, stale, faults>>
    BY <1>21 DEF GraceFires
  <2>2. rt \in Runtimes /\ rt # None /\ rt' = [rt EXCEPT !.timer = FALSE]
    BY <1>21 DEF GraceFires
  <2>3. rt'.away = rt.away
    BY <2>2 DEF Runtimes
  <2> QED BY <2>1, <2>2, <2>3 DEF Watching, Joined
<1>22. CASE ResolveOrder
  <2>1. CASE Candidates(rt.host, resolve.present) # {}
    BY <1>22, <2>1, ResolverNames, SetHostOnly DEF Writing, Setters
  <2>2. CASE Candidates(rt.host, resolve.present) = {}
    <3>1. /\ UNCHANGED <<presence, joinedAt, wants, join>>
          /\ stale' = (stale \/ Watching # {})
      BY <1>22, <2>2 DEF ResolveOrder
    <3>2. Watching' = Watching
      BY <3>1 DEF Watching, Joined
    <3> QED BY <3>1, <3>2
  <2> QED BY <2>1, <2>2
<1>23. CASE ResolveFails
  <2>1. faults' = faults + 1
    BY <1>23 DEF ResolveFails
  <2> QED BY <2>1, Bounds
<1>24. CASE ResolveSaved
  <2>1. CASE resolve.present = {} /\ rt # None
    BY <1>24, <2>1 DEF ResolveSaved
  <2>2. CASE ~(resolve.present = {} /\ rt # None)
    <3>1. UNCHANGED <<rt, presence, joinedAt, wants, join, setting, stale, faults>>
      BY <1>24, <2>2 DEF ResolveSaved
    <3> QED BY <3>1 DEF Watching, Joined
  <2> QED BY <2>1, <2>2
<1>25. CASE UNCHANGED vars
  BY <1>25 DEF vars, Watching, Joined
<1>26. ASSUME NEW s \in Sockets, AnswerFails(s) PROVE Writing'
  <2>1. faults' = faults + 1
    BY <1>26 DEF AnswerFails
  <2> QED BY <2>1, Bounds
<1>27. CASE ResolveOrphan
  <2>1. CASE Candidates(resolve.host, resolve.present) # {}
    BY <1>27, <2>1, OrphanNames, SetHostOnly DEF Writing, Setters
  <2>2. CASE Candidates(resolve.host, resolve.present) = {}
    <3>1. UNCHANGED <<rt, presence, joinedAt, wants, join, setting, stale, faults>>
      BY <1>27, <2>2 DEF ResolveOrphan
    <3> QED BY <3>1 DEF Watching, Joined
  <2> QED BY <2>1, <2>2
<1> QED BY <1>1, <1>2, <1>3, <1>4, <1>5, <1>6, <1>7, <1>8, <1>9, <1>10, <1>11,
       <1>12, <1>13, <1>14, <1>15, <1>16, <1>17, <1>18, <1>19, <1>20, <1>21,
       <1>22, <1>23, <1>24, <1>25, <1>26, <1>27
       DEF Next, Client, Faults, LoadStep, ResolveStep, JoinStep, SetHostStep,
           LeaveStep

\* No host is waited for when the service starts.
LEMMA AbsentInit == Init => Absent
BY DEF Init, Absent

\* Who leaves others behind, or lets them in, starts the timer or a hand-over.
LEMMA AbsentNext == TypeOK /\ Rooms /\ Absent /\ [Next]_vars => Absent'
<1> SUFFICES ASSUME TypeOK, Rooms, Absent, [Next]_vars,
                    rt' # None, ~rt'.away, db' # NoUser, ~(faults' > 0),
                    rt'.host \notin Present(presence'), Present(presence') # {}
             PROVE  rt'.timer \/ Ordering' \/ Writing'
  BY DEF Absent
<1>a. /\ presence \in [Users -> SUBSET Sockets] /\ faults \in 0..MaxFaults
      /\ rt \in Runtimes \cup {None}
  BY DEF TypeOK
<1>b. db # NoUser
  <2>1. db = NoUser => db' = NoUser
    BY NeverUndeleted
  <2> QED BY <2>1
<1> USE <1>a, <1>b DEF Absent, Writing, Ordering
<1>1. ASSUME NEW s \in Sockets, JoinAsk(s)
      PROVE  rt'.timer \/ Ordering' \/ Writing'
  <2>1. UNCHANGED <<rt, presence, resolve, setting, faults>>
    BY <1>1 DEF JoinAsk
  <2> QED BY <2>1 DEF Watching, Joined
<1>2. ASSUME NEW s \in Sockets, JoinMember(s)
      PROVE  rt'.timer \/ Ordering' \/ Writing'
  <2>1. UNCHANGED <<rt, presence, resolve, setting, faults>>
    BY <1>2 DEF JoinMember
  <2> QED BY <2>1 DEF Watching, Joined
<1>3. ASSUME NEW s \in Sockets, Enter(s)
      PROVE  rt'.timer \/ Ordering' \/ Writing'
  <2>1. rt # None /\ Owner[s] \in Users /\ s \in Setters
    BY <1>3, HallAssumption DEF Enter, Rooms, Setters
  <2>2. SetHost(s, Owner[s]) \/ Looked(rt, With(s))
    BY <1>3, <2>1, EnterLooked
  <2>3. CASE SetHost(s, Owner[s])
    BY <2>1, <2>3, SetHostOnly DEF Writing
  <2>4. CASE Looked(rt, With(s))
    BY <2>4 DEF Looked
  <2> QED BY <2>2, <2>3, <2>4
<1>4. ASSUME NEW s \in Sockets, Answer(s)
      PROVE  rt'.timer \/ Ordering' \/ Writing'
  <2>1. UNCHANGED <<rt, presence, resolve, setting, faults>>
    BY <1>4 DEF Answer
  <2> QED BY <2>1 DEF Watching, Joined
<1>5. ASSUME NEW s \in Sockets, Leave(s)
      PROVE  rt'.timer \/ Ordering' \/ Writing'
  <2>1. UNCHANGED <<setting, resolve, faults>>
    BY <1>5, OrphanedKeeps DEF Leave
  <2>2. (UNCHANGED <<rt, presence>>) \/ Looked(rt, Without(s))
    BY <1>5, GoneLooked
  <2>3. CASE UNCHANGED <<rt, presence>>
    BY <2>1, <2>3
  <2>4. CASE Looked(rt, Without(s))
    BY <2>4 DEF Looked
  <2> QED BY <2>2, <2>3, <2>4
<1>6. ASSUME NEW s \in Sockets, Disconnect(s)
      PROVE  rt'.timer \/ Ordering' \/ Writing'
  <2>1. UNCHANGED <<setting, resolve, faults>>
    BY <1>6, OrphanedKeeps DEF Disconnect
  <2>2. (UNCHANGED <<rt, presence>>) \/ Looked(rt, Without(s))
    BY <1>6, GoneLooked
  <2>3. CASE UNCHANGED <<rt, presence>>
    BY <2>1, <2>3
  <2>4. CASE Looked(rt, Without(s))
    BY <2>4 DEF Looked
  <2> QED BY <2>2, <2>3, <2>4
<1>7. CASE LoadRead
  <2>1. UNCHANGED <<rt, presence, resolve, setting, faults>>
    BY <1>7 DEF LoadRead
  <2> QED BY <2>1 DEF Watching, Joined
<1>8. CASE LoadDone
  <2>1. load # None /\ UNCHANGED presence
    BY <1>8, HallAssumption DEF LoadDone
  <2>2. presence = Empty
    BY <2>1 DEF Rooms
  <2> QED BY <2>1, <2>2 DEF Present, Empty
<1>9. ASSUME NEW t \in Setters, SetHostWrite(t)
      PROVE  rt'.timer \/ Ordering' \/ Writing'
  BY <1>9, HostWritten DEF Writing
<1>10. ASSUME NEW t \in Setters, SetHostReturn(t)
      PROVE  rt'.timer \/ Ordering' \/ Writing'
  <2>1. rt' # None /\ Looked(Handed(t), presence)
    BY <1>10, ReturnLooked
  <2> QED BY <2>1 DEF Looked
<1>11. ASSUME NEW t \in Setters, SetHostFails(t)
      PROVE  rt'.timer \/ Ordering' \/ Writing'
  <2>1. faults' = faults + 1
    BY <1>11 DEF SetHostFails
  <2> QED BY <2>1, Bounds
<1>12. ASSUME NEW u \in Users, NEW v \in Users, Transfer(u, v)
      PROVE  rt'.timer \/ Ordering' \/ Writing'
  <2>1. SetHost("transfer", v) /\ "transfer" \in Setters
    BY <1>12 DEF Transfer, Setters
  <2> QED BY <2>1, SetHostOnly DEF Writing
<1>13. ASSUME NEW u \in Users, LeaveRoom(u)
      PROVE  rt'.timer \/ Ordering' \/ Writing'
  <2>1. UNCHANGED <<rt, presence, resolve, setting, faults>>
    BY <1>13 DEF LeaveRoom
  <2> QED BY <2>1 DEF Watching, Joined
<1>14. ASSUME NEW u \in Users, LeaveOthers(u)
      PROVE  rt'.timer \/ Ordering' \/ Writing'
  <2>1. CASE Joined \ {u} = {}
    <3>1. UNCHANGED <<rt, presence, resolve, setting, faults>>
      BY <1>14, <2>1 DEF LeaveOthers
    <3> QED BY <3>1 DEF Watching, Joined
  <2>2. CASE Joined \ {u} # {}
    BY <1>14, <2>2, LeaverNames, SetHostOnly DEF Writing, Setters
  <2> QED BY <2>1, <2>2
<1>15. ASSUME NEW u \in Users, LeaveRow(u)
      PROVE  rt'.timer \/ Ordering' \/ Writing'
  <2>1. CASE u \notin Joined
    <3>1. UNCHANGED <<rt, presence, resolve, setting, faults>>
      BY <1>15, <2>1, OrphanedKeeps DEF LeaveRow
    <3> QED BY <3>1
  <2>2. CASE u \in Joined
    <3>1. Looked(rt, Emptied(u))
      BY <1>15, <2>2, RowLooked
    <3> QED BY <3>1 DEF Looked
  <2> QED BY <2>1, <2>2
<1>16. ASSUME NEW u \in Users, DeleteRoom(u)
      PROVE  rt'.timer \/ Ordering' \/ Writing'
  <2>1. UNCHANGED <<rt, presence, resolve, setting, faults>>
    BY <1>16 DEF DeleteRoom
  <2> QED BY <2>1 DEF Watching, Joined
<1>17. ASSUME NEW u \in Users, Drop(u)
      PROVE  rt'.timer \/ Ordering' \/ Writing'
  <2>1. UNCHANGED <<rt, presence, resolve, setting, faults>>
    BY <1>17 DEF Drop
  <2> QED BY <2>1
<1>18. ASSUME NEW u \in Users, AddMember(u)
      PROVE  rt'.timer \/ Ordering' \/ Writing'
  <2>1. UNCHANGED <<rt, presence, resolve, setting, faults>>
    BY <1>18 DEF AddMember
  <2> QED BY <2>1 DEF Watching, Joined
<1>19. ASSUME NEW u \in Users, Control(u)
      PROVE  rt'.timer \/ Ordering' \/ Writing'
  <2>1. UNCHANGED <<rt, presence, resolve, setting, faults>>
    BY <1>19 DEF Control
  <2> QED BY <2>1 DEF Watching, Joined
<1>20. ASSUME NEW u \in Users, Saved(u)
      PROVE  rt'.timer \/ Ordering' \/ Writing'
  <2>1. UNCHANGED <<rt, presence, resolve, setting, faults>>
    BY <1>20 DEF Saved
  <2> QED BY <2>1 DEF Watching, Joined
<1>21. CASE GraceFires
  <2>1. rt \in Runtimes /\ rt' = [rt EXCEPT !.timer = FALSE] /\ UNCHANGED presence
    BY <1>21 DEF GraceFires
  <2>2. rt'.host = rt.host
    BY <2>1 DEF Runtimes
  <2>3. resolve'.pc = "order" /\ resolve'.live
    BY <1>21, <2>1, <2>2 DEF GraceFires, NoResolve
  <2> QED BY <2>3
<1>22. CASE ResolveOrder
  <2>1. CASE Candidates(rt.host, resolve.present) # {}
    BY <1>22, <2>1, ResolverNames, SetHostOnly DEF Writing, Setters
  <2>2. CASE Candidates(rt.host, resolve.present) = {}
    <3>1. rt \in Runtimes /\ rt' = [rt EXCEPT !.away = TRUE]
      BY <1>22, <2>2 DEF ResolveOrder
    <3>2. rt'.away = TRUE
      BY <3>1 DEF Runtimes
    <3> QED BY <3>2
  <2> QED BY <2>1, <2>2
<1>23. CASE ResolveFails
  <2>1. faults' = faults + 1
    BY <1>23 DEF ResolveFails
  <2> QED BY <2>1, Bounds
<1>24. CASE ResolveSaved
  <2>1. CASE resolve.present = {} /\ rt # None
    BY <1>24, <2>1 DEF ResolveSaved
  <2>2. CASE ~(resolve.present = {} /\ rt # None)
    <3>1. UNCHANGED <<rt, presence, setting, faults>> /\ resolve.pc = "save"
      BY <1>24, <2>2 DEF ResolveSaved
    <3> QED BY <3>1
  <2> QED BY <2>1, <2>2
<1>25. CASE UNCHANGED vars
  BY <1>25 DEF vars
<1>26. ASSUME NEW s \in Sockets, AnswerFails(s)
       PROVE  rt'.timer \/ Ordering' \/ Writing'
  <2>1. faults' = faults + 1
    BY <1>26 DEF AnswerFails
  <2> QED BY <2>1, Bounds
<1>27. CASE ResolveOrphan
  <2>1. CASE Candidates(resolve.host, resolve.present) # {}
    BY <1>27, <2>1, OrphanNames, SetHostOnly DEF Writing, Setters
  <2>2. CASE Candidates(resolve.host, resolve.present) = {}
    <3>1. UNCHANGED <<rt, presence, setting, faults>> /\ ~resolve.live
      BY <1>27, <2>2 DEF ResolveOrphan
    <3> QED BY <3>1
  <2> QED BY <2>1, <2>2
<1> QED BY <1>1, <1>2, <1>3, <1>4, <1>5, <1>6, <1>7, <1>8, <1>9, <1>10, <1>11,
       <1>12, <1>13, <1>14, <1>15, <1>16, <1>17, <1>18, <1>19, <1>20, <1>21,
       <1>22, <1>23, <1>24, <1>25, <1>26, <1>27
       DEF Next, Client, Faults, LoadStep, ResolveStep, JoinStep, SetHostStep,
           LeaveStep

-----------------------------------------------------------------------------
(* Whose word counts: the host in memory and the host of the row.          *)

\* A history in which writes of the host crossed stays one.
LEMMA OverlapStays == TypeOK /\ [Next]_vars /\ overlap => overlap'
<1> SUFFICES ASSUME TypeOK, [Next]_vars, overlap PROVE overlap'
  OBVIOUS
<1>1. ASSUME NEW s \in Sockets, JoinAsk(s) PROVE overlap'
  BY <1>1 DEF JoinAsk
<1>2. ASSUME NEW s \in Sockets, JoinMember(s) PROVE overlap'
  BY <1>2 DEF JoinMember
<1>3. ASSUME NEW s \in Sockets, Enter(s) PROVE overlap'
  BY <1>3, EnterLooked
<1>4. ASSUME NEW s \in Sockets, Answer(s) PROVE overlap'
  BY <1>4 DEF Answer
<1>5. ASSUME NEW s \in Sockets, Leave(s) PROVE overlap'
  BY <1>5, GoneLooked DEF Looked, Save
<1>6. ASSUME NEW s \in Sockets, Disconnect(s) PROVE overlap'
  BY <1>6, GoneLooked DEF Looked, Save
<1>7. CASE LoadRead
  BY <1>7 DEF LoadRead
<1>8. CASE LoadDone
  BY <1>8 DEF LoadDone
<1>9. ASSUME NEW t \in Setters, SetHostWrite(t) PROVE overlap'
  BY <1>9 DEF SetHostWrite
<1>10. ASSUME NEW t \in Setters, SetHostReturn(t) PROVE overlap'
  BY <1>10, ReturnLooked
<1>11. ASSUME NEW t \in Setters, SetHostFails(t) PROVE overlap'
  BY <1>11 DEF SetHostFails
<1>12. ASSUME NEW u \in Users, NEW v \in Users, Transfer(u, v) PROVE overlap'
  BY <1>12 DEF Transfer
<1>13. ASSUME NEW u \in Users, LeaveRoom(u) PROVE overlap'
  BY <1>13 DEF LeaveRoom
<1>14. ASSUME NEW u \in Users, LeaveOthers(u) PROVE overlap'
  BY <1>14 DEF LeaveOthers
<1>15. ASSUME NEW u \in Users, LeaveRow(u) PROVE overlap'
  <2>1. CASE u \notin Joined
    BY <1>15, <2>1 DEF LeaveRow
  <2>2. CASE u \in Joined
    BY <1>15, <2>2, RowLooked DEF Looked, Save
  <2> QED BY <2>1, <2>2
<1>16. ASSUME NEW u \in Users, DeleteRoom(u) PROVE overlap'
  BY <1>16 DEF DeleteRoom
<1>17. ASSUME NEW u \in Users, Drop(u) PROVE overlap'
  BY <1>17 DEF Drop
<1>18. ASSUME NEW u \in Users, AddMember(u) PROVE overlap'
  BY <1>18 DEF AddMember
<1>19. ASSUME NEW u \in Users, Control(u) PROVE overlap'
  BY <1>19 DEF Control, Save
<1>20. ASSUME NEW u \in Users, Saved(u) PROVE overlap'
  BY <1>20 DEF Saved
<1>21. CASE GraceFires
  BY <1>21 DEF GraceFires
<1>22. CASE ResolveOrder
  BY <1>22 DEF ResolveOrder
<1>23. CASE ResolveFails
  BY <1>23 DEF ResolveFails
<1>24. CASE ResolveSaved
  BY <1>24 DEF ResolveSaved, Save
<1>25. CASE UNCHANGED vars
  BY <1>25 DEF vars
<1>26. ASSUME NEW s \in Sockets, AnswerFails(s) PROVE overlap'
  BY <1>26 DEF AnswerFails
<1>27. CASE ResolveOrphan
  BY <1>27 DEF ResolveOrphan
<1> QED BY <1>1, <1>2, <1>3, <1>4, <1>5, <1>6, <1>7, <1>8, <1>9, <1>10, <1>11,
       <1>12, <1>13, <1>14, <1>15, <1>16, <1>17, <1>18, <1>19, <1>20, <1>21,
       <1>22, <1>23, <1>24, <1>25, <1>26, <1>27
       DEF Next, Client, Faults, LoadStep, ResolveStep, JoinStep, SetHostStep,
           LeaveStep

\* Calling setHost moves no host yet.
LEMMA CalledOnly ==
    ASSUME TypeOK, NEW t \in Setters, NEW u \in Users, SetHost(t, u), setting[t] = None
    PROVE  /\ Moved' <=> Moved
           /\ \A o \in Setters : setting'[o] # None /\ setting'[o].step = "return"
                                    => setting'[o] = setting[o]
<1>1. /\ setting'[t] # None /\ setting'[t].step = "write"
      /\ \A o \in Setters \ {t} : setting'[o] = setting[o]
  BY SetHostOnly
<1> QED BY <1>1 DEF Moved

\* Every host in memory, or on its way, is the host of the row: see
\* HostSavedUnlessOverlap.
Hosts ==
    ~overlap /\ db # NoUser =>
      /\ \A u \in Users : writes[u] > 0 => u = db
      /\ resolve.pc = "save" => resolve.host = db
      /\ load \in Users => load = db
      /\ rt # None /\ ~Moved => rt.host = db
      /\ \A t \in Setters : setting[t] # None /\ setting[t].step = "return"
                               => setting[t].to = db

\* A look at the hall changes no host, and saves the one in memory.
LEMMA LookedKeepsHost ==
    ASSUME TypeOK, Hosts, NEW p, Looked(rt, p), ~overlap, ~overlap', db # NoUser
    PROVE  /\ rt' # None => rt # None /\ rt'.host = rt.host
           /\ \A u \in Users : writes'[u] > 0 => u = db
<1>1. rt' # None => rt # None /\ rt'.host = rt.host
  BY DEF Looked
<1>2. CASE UNCHANGED <<writes, overlap>>
  BY <1>1, <1>2 DEF Hosts
<1>3. CASE rt # None /\ Save(rt.host)
  <2>1. rt.host \in Users
    BY <1>3 DEF TypeOK, Runtimes
  <2>2. ~Moved /\ \A v \in Users : writes'[v] > 0 => writes[v] > 0 \/ v = rt.host
    BY <1>3, <2>1, SaveCounts
  <2> QED BY <1>1, <1>3, <2>2 DEF Hosts
<1> QED BY <1>2, <1>3 DEF Looked

\* The row has the only host when the service starts.
LEMMA HostsInit == Init => Hosts
BY HallAssumption DEF Init, Hosts, NoResolve

\* No step makes the memory and the row differ unless writes cross.
LEMMA HostsNext == TypeOK /\ Tasks /\ Hosts /\ [Next]_vars => Hosts'
<1> SUFFICES ASSUME TypeOK, Tasks, Hosts, [Next]_vars, ~overlap', db' # NoUser
             PROVE  Hosts'
  BY DEF Hosts
<1>a. /\ setting \in [Setters -> HandOvers \cup {None}] /\ rt \in Runtimes \cup {None}
      /\ load \in Users \cup {"asked", None}
  BY DEF TypeOK
<1>b. db # NoUser /\ ~overlap
  <2>1. db = NoUser => db' = NoUser
    BY NeverUndeleted
  <2>2. overlap => overlap'
    BY OverlapStays
  <2> QED BY <2>1, <2>2
<1>d. setting' = setting => (Moved' <=> Moved)
  BY DEF Moved
<1> USE <1>a, <1>b, <1>d DEF Hosts
<1>1. ASSUME NEW s \in Sockets, JoinAsk(s) PROVE Hosts'
  <2>1. UNCHANGED <<db, writes, rt, load, resolve, setting>>
    BY <1>1 DEF JoinAsk
  <2> QED BY <2>1
<1>2. ASSUME NEW s \in Sockets, JoinMember(s) PROVE Hosts'
  <2>1. UNCHANGED <<db, writes, rt, resolve, setting>> /\ (load' = load \/ load' = "asked")
    BY <1>2 DEF JoinMember
  <2> QED BY <2>1, HallAssumption
<1>3. ASSUME NEW s \in Sockets, Enter(s) PROVE Hosts'
  <2>1. /\ Owner[s] \in Users /\ s \in Setters /\ setting[s] = None
        /\ UNCHANGED <<db, load, resolve>>
    BY <1>3, HallAssumption DEF Enter, Setters, Tasks
  <2>2. \/ SetHost(s, Owner[s]) /\ UNCHANGED <<rt, writes>>
        \/ Looked(rt, With(s)) /\ UNCHANGED <<setting, writes>>
    BY <1>3, <2>1, EnterLooked
  <2>3. CASE SetHost(s, Owner[s]) /\ UNCHANGED <<rt, writes>>
    BY <2>1, <2>3, CalledOnly
  <2>4. CASE Looked(rt, With(s)) /\ UNCHANGED <<setting, writes>>
    BY <2>1, <2>4 DEF Looked
  <2> QED BY <2>2, <2>3, <2>4
<1>4. ASSUME NEW s \in Sockets, Answer(s) PROVE Hosts'
  <2>1. UNCHANGED <<db, writes, rt, load, resolve, setting>>
    BY <1>4 DEF Answer
  <2> QED BY <2>1
<1>5. ASSUME NEW s \in Sockets, Leave(s) PROVE Hosts'
  <2>1. /\ UNCHANGED <<db, load, setting>>
        /\ resolve'.pc = "save" => resolve' = resolve
    BY <1>5, OrphanedKeeps DEF Leave
  <2>2. (UNCHANGED <<rt, writes>>) \/ Looked(rt, Without(s))
    BY <1>5, GoneLooked
  <2>3. CASE UNCHANGED <<rt, writes>>
    BY <2>1, <2>3
  <2>4. CASE Looked(rt, Without(s))
    BY <2>1, <2>4, LookedKeepsHost
  <2> QED BY <2>2, <2>3, <2>4
<1>6. ASSUME NEW s \in Sockets, Disconnect(s) PROVE Hosts'
  <2>1. /\ UNCHANGED <<db, load, setting>>
        /\ resolve'.pc = "save" => resolve' = resolve
    BY <1>6, OrphanedKeeps DEF Disconnect
  <2>2. (UNCHANGED <<rt, writes>>) \/ Looked(rt, Without(s))
    BY <1>6, GoneLooked
  <2>3. CASE UNCHANGED <<rt, writes>>
    BY <2>1, <2>3
  <2>4. CASE Looked(rt, Without(s))
    BY <2>1, <2>4, LookedKeepsHost
  <2> QED BY <2>2, <2>3, <2>4
<1>7. CASE LoadRead
  <2>1. UNCHANGED <<db, writes, rt, resolve, setting>> /\ load' = db
    BY <1>7 DEF LoadRead
  <2> QED BY <2>1
<1>8. CASE LoadDone
  <2>1. /\ UNCHANGED <<db, writes, resolve, setting>> /\ load \in Users /\ load' = None
        /\ rt'.host = load
    BY <1>8 DEF LoadDone
  <2> QED BY <2>1, HallAssumption
<1>9. ASSUME NEW t \in Setters, SetHostWrite(t) PROVE Hosts'
  <2>1. /\ ~Moved /\ ~Saving /\ load \notin Users /\ resolve.pc # "save"
        /\ UNCHANGED <<writes, rt, load, resolve>>
    BY <1>9 DEF SetHostWrite
  <2>2. /\ setting'[t] # None /\ setting'[t].step = "return"
        /\ setting'[t].to = db'
        /\ \A o \in Setters \ {t} : setting'[o] = setting[o]
    BY <1>9, HostWritten
  <2>3. Moved'
    BY <2>2 DEF Moved
  <2>4. \A o \in Setters : setting'[o] # None /\ setting'[o].step = "return"
                              => setting'[o].to = db'
    BY <2>1, <2>2 DEF Moved
  <2>5. \A u \in Users : ~(writes'[u] > 0)
    BY <2>1 DEF Saving
  <2> QED BY <2>1, <2>3, <2>4, <2>5
<1>10. ASSUME NEW t \in Setters, SetHostReturn(t) PROVE Hosts'
  <2>1. /\ UNCHANGED <<db, load>> /\ setting' = [setting EXCEPT ![t] = None]
        /\ setting[t] # None /\ setting[t].step = "return"
        /\ resolve' = resolve \/ resolve'.pc = "no"
    BY <1>10 DEF SetHostReturn, Continue, NoResolve
  <2>2. setting[t].to = db
    BY <2>1
  <2>3. /\ UNCHANGED writes /\ (rt' = None <=> rt = None)
        /\ rt # None => Looked(Handed(t), presence)
    BY <1>10, ReturnLooked
  <2>4. rt' # None => rt'.host = db
    BY <2>2, <2>3 DEF Looked, Handed
  <2>5. \A o \in Setters : setting'[o] # None => setting'[o] = setting[o]
    BY <2>1
  <2> QED BY <2>1, <2>3, <2>4, <2>5
<1>11. ASSUME NEW t \in Setters, SetHostFails(t) PROVE Hosts'
  <2>1. /\ UNCHANGED <<db, writes, rt, load>> /\ setting' = [setting EXCEPT ![t] = None]
        /\ setting[t].step = "write"
        /\ resolve' = resolve \/ resolve'.pc = "no"
    BY <1>11 DEF SetHostFails, Abort, NoResolve
  <2>2. \A o \in Setters : setting'[o] # None => setting'[o] = setting[o]
    BY <2>1
  <2>3. Moved => Moved'
    BY <2>1 DEF Moved
  <2> QED BY <2>1, <2>2, <2>3
<1>12. ASSUME NEW u \in Users, NEW v \in Users, Transfer(u, v) PROVE Hosts'
  <2>1. /\ UNCHANGED <<db, writes, rt, load, resolve>> /\ SetHost("transfer", v)
        /\ setting["transfer"] = None /\ "transfer" \in Setters
    BY <1>12 DEF Transfer, Setters
  <2> QED BY <2>1, CalledOnly
<1>13. ASSUME NEW u \in Users, LeaveRoom(u) PROVE Hosts'
  <2>1. UNCHANGED <<db, writes, rt, load, resolve, setting>>
    BY <1>13 DEF LeaveRoom
  <2> QED BY <2>1
<1>14. ASSUME NEW u \in Users, LeaveOthers(u) PROVE Hosts'
  <2>1. /\ UNCHANGED <<db, writes, rt, load, resolve>> /\ u \in Setters
        /\ setting[u] = None
    BY <1>14 DEF LeaveOthers, Tasks, Setters
  <2>2. CASE Joined \ {u} = {}
    <3>1. UNCHANGED setting
      BY <1>14, <2>2 DEF LeaveOthers
    <3> QED BY <2>1, <3>1
  <2>3. CASE Joined \ {u} # {}
    BY <1>14, <2>1, <2>3, LeaverNames, CalledOnly
  <2> QED BY <2>2, <2>3
<1>15. ASSUME NEW u \in Users, LeaveRow(u) PROVE Hosts'
  <2>1. CASE u \notin Joined
    <3>1. /\ UNCHANGED <<db, writes, rt, load, setting>>
          /\ resolve'.pc = "save" => resolve' = resolve
      BY <1>15, <2>1, OrphanedKeeps DEF LeaveRow
    <3> QED BY <3>1
  <2>2. CASE u \in Joined
    <3>1. /\ UNCHANGED <<db, load, setting>>
          /\ resolve'.pc = "save" => resolve' = resolve
      BY <1>15, <2>2, OrphanedKeeps DEF LeaveRow
    <3>2. Looked(rt, Emptied(u))
      BY <1>15, <2>2, RowLooked
    <3> QED BY <3>1, <3>2, LookedKeepsHost
  <2> QED BY <2>1, <2>2
<1>16. ASSUME NEW u \in Users, DeleteRoom(u) PROVE Hosts'
  <2>1. UNCHANGED <<db, writes, rt, load, resolve, setting>>
    BY <1>16 DEF DeleteRoom
  <2> QED BY <2>1
<1>17. ASSUME NEW u \in Users, Drop(u) PROVE Hosts'
  BY <1>17 DEF Drop
<1>18. ASSUME NEW u \in Users, AddMember(u) PROVE Hosts'
  <2>1. UNCHANGED <<db, writes, rt, load, resolve, setting>>
    BY <1>18 DEF AddMember
  <2> QED BY <2>1
<1>19. ASSUME NEW u \in Users, Control(u) PROVE Hosts'
  <2>1. /\ UNCHANGED <<db, rt, load, resolve, setting>> /\ Save(u)
        /\ rt # None /\ rt.host = u
    BY <1>19 DEF Control
  <2>2. ~Moved /\ \A v \in Users : writes'[v] > 0 => writes[v] > 0 \/ v = u
    BY <2>1, SaveCounts
  <2> QED BY <2>1, <2>2
<1>20. ASSUME NEW u \in Users, Saved(u) PROVE Hosts'
  <2>1. /\ UNCHANGED <<rt, load, resolve, setting>> /\ db' = u /\ writes[u] > 0
        /\ writes' = [writes EXCEPT ![u] = @ - 1]
    BY <1>20 DEF Saved
  <2>2. db' = db
    BY <2>1
  <2>3. \A v \in Users : writes'[v] > 0 => writes[v] > 0
    BY <2>1, Bounds DEF TypeOK
  <2> QED BY <2>1, <2>2, <2>3
<1>21. CASE GraceFires
  <2>1. /\ UNCHANGED <<db, writes, load, setting>>
        /\ rt \in Runtimes /\ rt # None /\ rt' = [rt EXCEPT !.timer = FALSE]
        /\ resolve'.pc \in {"no", "order"}
    BY <1>21 DEF GraceFires, NoResolve
  <2>2. rt'.host = rt.host
    BY <2>1 DEF Runtimes
  <2> QED BY <2>1, <2>2
<1>22. CASE ResolveOrder
  <2>1. UNCHANGED <<db, writes, load>> /\ resolve.pc = "order" /\ rt # None
    BY <1>22 DEF ResolveOrder
  <2>2. CASE Candidates(rt.host, resolve.present) # {}
    <3>1. PICK w \in Users : SetHost("resolve", w)
      BY <1>22, <2>2, ResolverNames
    <3>2. UNCHANGED rt /\ resolve' = [resolve EXCEPT !.pc = "set"]
      BY <1>22, <2>2 DEF ResolveOrder
    <3>3. resolve'.pc = "set"
      BY <3>2 DEF TypeOK, Resolves
    <3>4. setting["resolve"] = None /\ "resolve" \in Setters
      BY <2>1 DEF Tasks, Setters
    <3> QED BY <2>1, <3>1, <3>2, <3>3, <3>4, CalledOnly
  <2>3. CASE Candidates(rt.host, resolve.present) = {}
    <3>1. /\ rt \in Runtimes /\ rt' = [rt EXCEPT !.away = TRUE]
          /\ resolve' = [resolve EXCEPT !.pc = "save", !.host = rt.host]
          /\ ~Moved /\ UNCHANGED setting
      BY <1>22, <2>3 DEF ResolveOrder
    <3>2. rt'.host = rt.host
      BY <3>1 DEF Runtimes
    <3>3. resolve'.host = rt.host
      BY <3>1 DEF TypeOK, Resolves
    <3> QED BY <2>1, <2>3, <3>1, <3>2, <3>3
  <2> QED BY <2>2, <2>3
<1>23. CASE ResolveFails
  <2>1. UNCHANGED <<db, writes, rt, load, setting>> /\ resolve'.pc = "no"
    BY <1>23 DEF ResolveFails, NoResolve
  <2> QED BY <2>1
<1>24. CASE ResolveSaved
  <2>1. /\ resolve.pc = "save" /\ db' = resolve.host
        /\ UNCHANGED <<load, setting>> /\ resolve'.pc = "no"
    BY <1>24 DEF ResolveSaved, NoResolve
  <2>2. db' = db
    BY <2>1
  <2>3. CASE resolve.present = {} /\ rt # None
    <3>1. Save(rt.host) /\ rt' = None /\ rt.host \in Users
      BY <1>24, <2>3 DEF ResolveSaved, Runtimes
    <3>2. ~Moved /\ \A v \in Users : writes'[v] > 0 => writes[v] > 0 \/ v = rt.host
      BY <3>1, SaveCounts
    <3> QED BY <2>1, <2>2, <2>3, <3>1, <3>2
  <2>4. CASE ~(resolve.present = {} /\ rt # None)
    <3>1. UNCHANGED <<rt, writes>>
      BY <1>24, <2>4 DEF ResolveSaved
    <3> QED BY <2>1, <2>2, <3>1
  <2> QED BY <2>3, <2>4
<1>25. CASE UNCHANGED vars
  BY <1>25 DEF vars
<1>26. ASSUME NEW s \in Sockets, AnswerFails(s) PROVE Hosts'
  <2>1. UNCHANGED <<db, writes, rt, load, resolve, setting>>
    BY <1>26 DEF AnswerFails
  <2> QED BY <2>1
<1>27. CASE ResolveOrphan
  <2>1. UNCHANGED <<db, writes, load, rt>> /\ resolve.pc = "order"
    BY <1>27 DEF ResolveOrphan
  <2>2. CASE Candidates(resolve.host, resolve.present) # {}
    <3>1. PICK w \in Users : SetHost("resolve", w)
      BY <1>27, <2>2, OrphanNames
    <3>2. resolve' = [resolve EXCEPT !.pc = "set"]
      BY <1>27, <2>2 DEF ResolveOrphan
    <3>3. resolve'.pc = "set"
      BY <3>2 DEF TypeOK, Resolves
    <3>4. setting["resolve"] = None /\ "resolve" \in Setters
      BY <2>1 DEF Tasks, Setters
    <3> QED BY <2>1, <3>1, <3>3, <3>4, CalledOnly
  <2>3. CASE Candidates(resolve.host, resolve.present) = {}
    BY <1>27, <2>3 DEF ResolveOrphan
  <2> QED BY <2>2, <2>3
<1> QED BY <1>1, <1>2, <1>3, <1>4, <1>5, <1>6, <1>7, <1>8, <1>9, <1>10, <1>11,
       <1>12, <1>13, <1>14, <1>15, <1>16, <1>17, <1>18, <1>19, <1>20, <1>21,
       <1>22, <1>23, <1>24, <1>25, <1>26, <1>27
       DEF Next, Client, Faults, LoadStep, ResolveStep, JoinStep, SetHostStep,
           LeaveStep

-----------------------------------------------------------------------------
(* All of it.                                                              *)

\* The inductive invariant: each part uses the ones before it.
IInv == TypeOK /\ Tasks /\ Rooms /\ Ghosts /\ Presents /\ Away /\ Absent /\ Hosts

\* It holds in every state.
LEMMA Invariant == Spec => []IInv
<1>1. Init => IInv
  BY TypeInit, TasksInit, RoomsInit, GhostsInit, PresentsInit, AwayInit,
     AbsentInit,
     HostsInit DEF IInv
<1>2. IInv /\ [Next]_vars => IInv'
  BY TypeNext, TasksNext, RoomsNext, GhostsNext, PresentsNext, AwayNext,
     AbsentNext,
     HostsNext DEF IInv
<1> QED BY <1>1, <1>2, PTL DEF Spec

\* In every state the runtime, the presence and every task in flight are of
\* the shapes that the service gives them, and a socket is counted only as its
\* owner (types.ts, HallRuntime; watch-party.service.ts).
THEOREM HallTypesHold == Spec => []TypeOK
<1>1. IInv => TypeOK
  BY DEF IInv
<1> QED BY <1>1, Invariant, PTL

\* Members who have the hall open never wait for an absent host that nothing
\* will replace: the grace timer runs, the resolution is under way or a hand-over
\* is, unless a query failed or a runtime was evicted on an old look at the
\* presence (onPresenceChanged, startHostGrace, resolveHostAbsence, joinHall).
THEOREM HandoverIsPending == Spec => []HandoverPending
<1>1. IInv => HandoverPending
  <2> SUFFICES ASSUME IInv, rt # None, rt.host \notin Present(presence), Watching # {},
                      ~Ordering, ~Writing, ~stale, ~(faults > 0)
               PROVE  rt.timer
    BY DEF HandoverPending, Ordering
  <2>1. Watching \subseteq Present(presence) /\ Watching \subseteq Joined
    BY DEF Watching, Present, Joined
  <2>2. db # NoUser
    BY <2>1 DEF IInv, Rooms
  <2>3. ~rt.away
    BY DEF IInv, Away
  <2> QED BY <2>1, <2>2, <2>3 DEF IInv, Absent
<1> QED BY <1>1, Invariant, PTL

\* A socket is counted as present only while its client has the hall open,
\* unless the client left, or the call failed, while its joinHall was running
\* (joinHall, leaveHall, handleDisconnect).
THEOREM GhostsComeOfRaces == Spec => []GhostOnlyByRace
<1>1. IInv => GhostOnlyByRace
  BY DEF IInv, Ghosts, GhostOnlyByRace
<1> QED BY <1>1, Invariant, PTL

\* A client who has the hall open and whose joinHall has counted its socket
\* stays counted, unless a runtime was evicted on an old look at the presence
\* (joinHall, evictRuntime).
THEOREM WhoWatchesIsPresent == Spec => []PresentUnlessStale
<1>1. IInv => PresentUnlessStale
  BY DEF IInv, Presents, PresentUnlessStale
<1> QED BY <1>1, Invariant, PTL

\* Outside the two halves of a hand-over the host in memory is the host of the
\* row, unless a hand-over crossed another write of the host or a load of the
\* room, or an evicted runtime was saved (setHost, persist, loadRuntime).
THEOREM HostIsSaved == Spec => []HostSavedUnlessOverlap
<1>1. IInv => HostSavedUnlessOverlap
  BY DEF IInv, Hosts, HostSavedUnlessOverlap
<1> QED BY <1>1, Invariant, PTL

-----------------------------------------------------------------------------
(* The lines of the chat.  First the types, step by step.                  *)

\* Where a call of the service awaits, and the lines of the chat.
Points == {"idle", "ask", "left", "wrote", "mark", "last", "joined"}
Lines == {"left", "joined", "back"}

\* The objects of a chat of n rows, and the calls when m objects are made.
PairStates(n) == [timer : BOOLEAN, away : BOOLEAN, left : 0..n,
                  recent : BOOLEAN, created : 0..MaxNotices]
CallStates(m, n) == [pc : Points, pair : 0..m, row : 0..n]

\* NoticesTypeOK in these words, and that a call is about some object.
NoticeTypes ==
    /\ room \in BOOLEAN /\ member \in BOOLEAN /\ here \in BOOLEAN
    /\ evicted \in BOOLEAN
    /\ quitting \in {"no", "present", "absent"}
    /\ made \in 0..MaxPairs /\ cur \in 0..made
    /\ pair \in [Pairs -> PairStates(Len(rows))]
    /\ call \in [Slots -> CallStates(made, Len(rows))]
    /\ \A c \in Slots : call[c].pc # "idle" => call[c].pair \in Pairs
    /\ rows \in Seq(Lines)
    /\ crossed \in BOOLEAN /\ refused \in BOOLEAN
    /\ turns \in 0..MaxTurns /\ failures \in 0..MaxFailures

\* They say what the runs check.
LEMMA NoticeTypesOK == NoticeTypes => NoticesTypeOK
BY DEF NoticeTypes, NoticesTypeOK, PairStates, CallStates, Points, Lines

\* They hold when the service starts.
LEMMA NoticesStart == NoticesInit => NoticeTypes
<1> SUFFICES ASSUME NoticesInit PROVE NoticeTypes
  OBVIOUS
<1>1. Len(rows) = 0 /\ rows \in Seq(Lines)
  BY DEF NoticesInit
<1>2. Fresh \in PairStates(0)
  BY NoticesAssumption DEF Fresh, PairStates
<1>3. Idle \in CallStates(0, 0)
  BY DEF Idle, CallStates, Points
<1>4. call \in [Slots -> CallStates(0, 0)] /\ pair \in [Pairs -> PairStates(0)]
  BY <1>2, <1>3 DEF NoticesInit
<1>5. \A c \in Slots : call[c].pc = "idle"
  BY DEF NoticesInit, Idle
<1>6. made = 0 /\ cur = 0 /\ turns \in 0..MaxTurns /\ failures \in 0..MaxFailures
      /\ made \in 0..MaxPairs
  BY NoticesAssumption DEF NoticesInit
<1>7. /\ pair \in [Pairs -> PairStates(Len(rows))]
      /\ call \in [Slots -> CallStates(made, Len(rows))]
  BY <1>1, <1>4, <1>6
<1>8. cur \in 0..made
  BY <1>6
<1>9. /\ room \in BOOLEAN /\ member \in BOOLEAN /\ here \in BOOLEAN
      /\ evicted \in BOOLEAN
      /\ crossed \in BOOLEAN /\ refused \in BOOLEAN
      /\ quitting \in {"no", "present", "absent"}
  BY DEF NoticesInit
<1> HIDE DEF NoticesInit
<1> QED BY <1>1, <1>5, <1>6, <1>7, <1>8, <1>9 DEF NoticeTypes

-----------------------------------------------------------------------------
(* What a step writes. *)

LEMMA PairStatesGrow == ASSUME NEW n \in Nat, NEW m \in Nat, n <= m
                        PROVE  PairStates(n) \subseteq PairStates(m)
<1>1. 0..n \subseteq 0..m
  OBVIOUS
<1> QED BY <1>1 DEF PairStates

\* With more objects or rows there are more calls.
LEMMA CallStatesGrow ==
    ASSUME NEW m \in Nat, NEW k \in Nat, NEW n \in Nat, NEW l \in Nat,
           m <= k, n <= l
    PROVE  CallStates(m, n) \subseteq CallStates(k, l)
<1>1. 0..m \subseteq 0..k /\ 0..n \subseteq 0..l
  OBVIOUS
<1> QED BY <1>1 DEF CallStates

\* One call is made, or ends; the others stay.
LEMMA Called ==
    ASSUME NoticeTypes, NEW c \in Slots, NEW pc \in Points \ {"idle"},
           NEW m \in 0..MaxPairs, made <= m, NEW p \in 1..m,
           NEW row \in 0..Len(rows), call' = At(c, pc, p, row)
    PROVE  /\ call' \in [Slots -> CallStates(m, Len(rows))]
           /\ \A d \in Slots : call'[d].pc # "idle" => call'[d].pair \in Pairs
<1>1. CallStates(made, Len(rows)) \subseteq CallStates(m, Len(rows))
  BY CallStatesGrow, NoticesAssumption DEF NoticeTypes
<1>2. call \in [Slots -> CallStates(m, Len(rows))]
  BY <1>1 DEF NoticeTypes
<1>3. [pc |-> pc, pair |-> p, row |-> row] \in CallStates(m, Len(rows))
  BY DEF CallStates
<1>4. p \in Pairs
  BY NoticesAssumption DEF Pairs
<1>5. /\ call'[c] = [pc |-> pc, pair |-> p, row |-> row]
      /\ \A d \in Slots \ {c} : call'[d] = call[d]
  BY <1>2 DEF At
<1>6. call' \in [Slots -> CallStates(m, Len(rows))]
  BY <1>2, <1>3 DEF At
<1>7. ASSUME NEW d \in Slots, call'[d].pc # "idle"
      PROVE  call'[d].pair \in Pairs
  BY <1>4, <1>5, <1>7 DEF NoticeTypes
<1> QED BY <1>6, <1>7

\* One call ends; the others stay.
LEMMA Ended ==
    ASSUME NoticeTypes, NEW c \in Slots, call' = Ends(c)
    PROVE  /\ call' \in [Slots -> CallStates(made, Len(rows))]
           /\ \A d \in Slots : call'[d].pc # "idle" => call'[d].pair \in Pairs
<1>1. Idle \in CallStates(made, Len(rows))
  BY DEF Idle, CallStates, Points, NoticeTypes
<1>2. call' \in [Slots -> CallStates(made, Len(rows))]
  BY <1>1 DEF Ends, NoticeTypes
<1>3. /\ call'[c].pc = "idle"
      /\ \A d \in Slots \ {c} : call'[d] = call[d]
  BY DEF Ends, Idle, NoticeTypes
<1>4. ASSUME NEW d \in Slots, call'[d].pc # "idle"
      PROVE  call'[d].pair \in Pairs
  BY <1>3, <1>4 DEF NoticeTypes
<1> QED BY <1>2, <1>4

\* The object of the pair, found or made.
LEMMA OwnIsPair ==
    ASSUME NoticeTypes, Make
    PROVE  /\ Own \in Pairs /\ OwnState \in PairStates(Len(rows))
           /\ cur' = Own /\ made' \in 0..MaxPairs /\ made <= made'
           /\ Own \in 1..made'
<1>1. Fresh \in PairStates(Len(rows))
  BY NoticesAssumption DEF Fresh, PairStates, NoticeTypes
<1>2. CASE cur = 0
  BY <1>1, <1>2, NoticesAssumption DEF Make, Own, OwnState, NoticeTypes, Pairs
<1>3. CASE cur # 0
  BY <1>3, NoticesAssumption DEF Make, Own, OwnState, NoticeTypes, Pairs
<1> QED BY <1>2, <1>3

\* allowCreate counts no more rows than it allows.
LEMMA CountedIsPair ==
    ASSUME NEW n, NEW q \in PairStates(n), AllowCreate(q)
    PROVE  Counted(q) \in PairStates(n)
BY NoticesAssumption DEF PairStates, AllowCreate, Counted

\* publishLeft and handleArrival leave an object, and a call or none.
LEMMA DecideTypes ==
    ASSUME NoticeTypes, NEW c \in Slots, NEW m \in 0..MaxPairs, made <= m,
           NEW p \in 1..m, NEW q \in PairStates(Len(rows)), Decide(c, p, q)
    PROVE  /\ pair' \in [Pairs -> PairStates(Len(rows))]
           /\ call' \in [Slots -> CallStates(m, Len(rows))]
           /\ \A d \in Slots : call'[d].pc # "idle" => call'[d].pair \in Pairs
           /\ refused' \in BOOLEAN
<1>1. Len(rows) \in Nat /\ 0 \in 0..Len(rows) /\ made \in Nat /\ m \in Nat
  BY NoticesAssumption DEF NoticeTypes
<1>2. CASE q.away /\ AllowCreate(q)
  <2>1. Counted(q) \in PairStates(Len(rows))
    BY <1>2, CountedIsPair
  <2>2. pair' = [pair EXCEPT ![p] = Counted(q)] /\ call' = At(c, "left", p, 0)
        /\ refused' = refused
    BY <1>2 DEF Decide
  <2>3. "left" \in Points \ {"idle"}
    BY DEF Points
  <2>4. /\ call' \in [Slots -> CallStates(m, Len(rows))]
        /\ \A d \in Slots : call'[d].pc # "idle" => call'[d].pair \in Pairs
    BY <1>1, <2>2, <2>3, Called
  <2> QED BY <2>1, <2>2, <2>4 DEF NoticeTypes
<1>3. CASE ~(q.away /\ AllowCreate(q))
  <2>1. pair' = [pair EXCEPT ![p] = q] /\ call' = Ends(c)
        /\ refused' = (refused \/ q.away)
    BY <1>3 DEF Decide
  <2>2. CallStates(made, Len(rows)) \subseteq CallStates(m, Len(rows))
    BY <1>1, CallStatesGrow
  <2>3. /\ call' \in [Slots -> CallStates(m, Len(rows))]
        /\ \A d \in Slots : call'[d].pc # "idle" => call'[d].pair \in Pairs
    BY <2>1, <2>2, Ended
  <2>4. q.away \in BOOLEAN
    BY DEF PairStates
  <2> QED BY <2>1, <2>3, <2>4 DEF NoticeTypes
<1> QED BY <1>2, <1>3

\* announce leaves an object, and a call or none.
LEMMA AnnounceTypes ==
    ASSUME NoticeTypes, NEW c \in Slots, NEW m \in 0..MaxPairs, made <= m,
           NEW p \in 1..m, NEW q \in PairStates(Len(rows)), Announce(c, p, q)
    PROVE  /\ pair' \in [Pairs -> PairStates(Len(rows))]
           /\ call' \in [Slots -> CallStates(m, Len(rows))]
           /\ \A d \in Slots : call'[d].pc # "idle" => call'[d].pair \in Pairs
           /\ refused' \in BOOLEAN
<1>1. Len(rows) \in Nat /\ 0 \in 0..Len(rows) /\ made \in Nat /\ m \in Nat
  BY NoticesAssumption DEF NoticeTypes
<1>2. refused' \in BOOLEAN
  BY DEF Announce, AllowCreate, NoticeTypes
<1>3. CASE AllowCreate(q)
  <2>1. Counted(q) \in PairStates(Len(rows))
    BY <1>3, CountedIsPair
  <2>2. pair' = [pair EXCEPT ![p] = Counted(q)] /\ call' = At(c, "joined", p, 0)
    BY <1>3 DEF Announce
  <2>3. "joined" \in Points \ {"idle"}
    BY DEF Points
  <2>4. /\ call' \in [Slots -> CallStates(m, Len(rows))]
        /\ \A d \in Slots : call'[d].pc # "idle" => call'[d].pair \in Pairs
    BY <1>1, <2>2, <2>3, Called
  <2> QED BY <1>2, <2>1, <2>2, <2>4 DEF NoticeTypes
<1>4. CASE ~AllowCreate(q)
  <2>1. pair' = [pair EXCEPT ![p] = q] /\ call' = Ends(c)
    BY <1>4 DEF Announce
  <2>2. CallStates(made, Len(rows)) \subseteq CallStates(m, Len(rows))
    BY <1>1, CallStatesGrow
  <2>3. /\ call' \in [Slots -> CallStates(m, Len(rows))]
        /\ \A d \in Slots : call'[d].pc # "idle" => call'[d].pair \in Pairs
    BY <2>1, <2>2, Ended
  <2> QED BY <1>2, <2>1, <2>3 DEF NoticeTypes
<1> QED BY <1>3, <1>4

\* What a call of departed or arrived must leave for the types to hold.
Kept == /\ pair' \in [Pairs -> PairStates(Len(rows))]
        /\ call' \in [Slots -> CallStates(made', Len(rows))]
        /\ \A d \in Slots : call'[d].pc # "idle" => call'[d].pair \in Pairs
        /\ made' \in 0..MaxPairs /\ cur' \in 0..made'
        /\ crossed' \in BOOLEAN /\ refused' \in BOOLEAN

\* No call changes.
LEMMA CallsStay ==
    ASSUME NoticeTypes, NEW m \in 0..MaxPairs, made <= m, call' = call
    PROVE  /\ call' \in [Slots -> CallStates(m, Len(rows))]
           /\ \A d \in Slots : call'[d].pc # "idle" => call'[d].pair \in Pairs
<1>1. CallStates(made, Len(rows)) \subseteq CallStates(m, Len(rows))
  BY CallStatesGrow, NoticesAssumption DEF NoticeTypes
<1> QED BY <1>1 DEF NoticeTypes

\* A departure keeps the types.
LEMMA DepartedTypes ==
    ASSUME NoticeTypes, NEW c \in Slots,
           NEW kind \in {"lost", "left", "host", "quit"}, Departed(c, kind)
    PROVE  Kept
<1> DEFINE silent == \/ OwnState.away /\ OwnState.left # 0
                     \/ OwnState.timer /\ kind = "lost"
           q == [OwnState EXCEPT !.away = TRUE, !.timer = FALSE]
<1>1. Depart(c, kind, silent)
  BY DEF Departed
<1>2. /\ Own \in Pairs /\ OwnState \in PairStates(Len(rows))
      /\ cur' = Own /\ made' \in 0..MaxPairs /\ made <= made' /\ Own \in 1..made'
  BY <1>1, OwnIsPair DEF Depart
<1>3. q \in PairStates(Len(rows)) /\ [q EXCEPT !.timer = TRUE] \in PairStates(Len(rows))
  BY <1>2 DEF PairStates
<1>4. crossed' \in BOOLEAN
  BY <1>1 DEF Depart, Crosses, NoticeTypes
<1>5. cur' \in 0..made'
  BY <1>2
<1>6. CASE silent
  <2>1. pair' = [pair EXCEPT ![Own] = OwnState] /\ UNCHANGED <<call, refused>>
    BY <1>1, <1>6 DEF Depart
  <2>2. /\ call' \in [Slots -> CallStates(made', Len(rows))]
        /\ \A d \in Slots : call'[d].pc # "idle" => call'[d].pair \in Pairs
    BY <1>2, <2>1, CallsStay
  <2>3. pair' \in [Pairs -> PairStates(Len(rows))]
    BY <1>2, <2>1 DEF NoticeTypes
  <2> QED BY <1>2, <1>4, <1>5, <2>1, <2>2, <2>3 DEF Kept, NoticeTypes
<1>7. CASE ~silent /\ kind \in {"lost", "host"}
  <2>1. pair' = [pair EXCEPT ![Own] = [q EXCEPT !.timer = TRUE]]
        /\ UNCHANGED <<call, refused>>
    BY <1>1, <1>7 DEF Depart
  <2>2. /\ call' \in [Slots -> CallStates(made', Len(rows))]
        /\ \A d \in Slots : call'[d].pc # "idle" => call'[d].pair \in Pairs
    BY <1>2, <2>1, CallsStay
  <2>3. pair' \in [Pairs -> PairStates(Len(rows))]
    BY <1>2, <1>3, <2>1 DEF NoticeTypes
  <2> QED BY <1>2, <1>4, <1>5, <2>1, <2>2, <2>3 DEF Kept, NoticeTypes
<1>8. CASE ~silent /\ kind = "left"
  <2>1. pair' = [pair EXCEPT ![Own] = q] /\ call' = At(c, "ask", Own, 0)
        /\ UNCHANGED refused
    BY <1>1, <1>8 DEF Depart
  <2>2. "ask" \in Points \ {"idle"} /\ Len(rows) \in Nat /\ 0 \in 0..Len(rows)
    BY DEF Points, NoticeTypes
  <2>3. /\ call' \in [Slots -> CallStates(made', Len(rows))]
        /\ \A d \in Slots : call'[d].pc # "idle" => call'[d].pair \in Pairs
    BY <1>2, <2>1, <2>2, Called
  <2>4. pair' \in [Pairs -> PairStates(Len(rows))]
    BY <1>2, <1>3, <2>1 DEF NoticeTypes
  <2> QED BY <1>2, <1>4, <1>5, <2>1, <2>3, <2>4 DEF Kept, NoticeTypes
<1>9. CASE ~silent /\ kind = "quit"
  <2>1. Decide(c, Own, q)
    BY <1>1, <1>9 DEF Depart
  <2> QED BY <1>2, <1>3, <1>4, <1>5, <2>1, DecideTypes DEF Kept
<1> QED BY <1>6, <1>7, <1>8, <1>9

\* An arrival keeps the types.
LEMMA ArriveTypes ==
    ASSUME NoticeTypes, NEW c \in Slots, Arrive(c)
    PROVE  Kept
<1> DEFINE q == [OwnState EXCEPT !.away = FALSE, !.timer = FALSE]
           away == [q EXCEPT !.left = 0]
<1>1. /\ Own \in Pairs /\ OwnState \in PairStates(Len(rows))
      /\ cur' = Own /\ made' \in 0..MaxPairs /\ made <= made' /\ Own \in 1..made'
  BY OwnIsPair DEF Arrive, Arrival
<1>2. /\ q \in PairStates(Len(rows)) /\ away \in PairStates(Len(rows))
      /\ OwnState.left \in 0..Len(rows) /\ Fresh \in PairStates(Len(rows))
  <2>1. Len(rows) \in Nat /\ 0 \in 0..Len(rows) /\ 0 \in 0..MaxNotices
    BY NoticesAssumption DEF NoticeTypes
  <2>2. q \in PairStates(Len(rows)) /\ OwnState.left \in 0..Len(rows)
    BY <1>1 DEF PairStates
  <2>3. away \in PairStates(Len(rows))
    BY <2>1, <2>2 DEF PairStates
  <2>4. Fresh \in PairStates(Len(rows))
    BY <2>1 DEF PairStates, Fresh
  <2> QED BY <2>2, <2>3, <2>4
<1>3. crossed' \in BOOLEAN
  BY DEF Arrive, Arrival, Crosses, NoticeTypes
<1>4. cur' \in 0..made'
  BY <1>1
<1>5. Len(rows) \in Nat /\ 0 \in 0..Len(rows) /\ "last" \in Points \ {"idle"}
      /\ "mark" \in Points \ {"idle"}
  BY DEF Points, NoticeTypes
<1>6. CASE cur = 0
  <2>1. pair' = [pair EXCEPT ![Own] = Fresh] /\ call' = At(c, "last", Own, 0)
        /\ UNCHANGED refused
    BY <1>6 DEF Arrive, Arrival
  <2>2. /\ call' \in [Slots -> CallStates(made', Len(rows))]
        /\ \A d \in Slots : call'[d].pc # "idle" => call'[d].pair \in Pairs
    BY <1>1, <1>5, <2>1, Called
  <2>3. pair' \in [Pairs -> PairStates(Len(rows))]
    BY <1>1, <1>2, <2>1 DEF NoticeTypes
  <2> QED BY <1>1, <1>3, <1>4, <2>1, <2>2, <2>3 DEF Kept, NoticeTypes
<1>7. CASE cur # 0 /\ (OwnState.timer \/ ~OwnState.away \/ OwnState.left = 0)
  <2>1. pair' = [pair EXCEPT ![cur] = q] /\ UNCHANGED <<call, refused>>
    BY <1>7 DEF Arrive, Arrival
  <2>2. /\ call' \in [Slots -> CallStates(made', Len(rows))]
        /\ \A d \in Slots : call'[d].pc # "idle" => call'[d].pair \in Pairs
    BY <1>1, <2>1, CallsStay
  <2>3. pair' \in [Pairs -> PairStates(Len(rows))]
    BY <1>1, <1>2, <2>1 DEF NoticeTypes
  <2> QED BY <1>1, <1>3, <1>4, <2>1, <2>2, <2>3 DEF Kept, NoticeTypes
<1>8. CASE cur # 0 /\ ~(OwnState.timer \/ ~OwnState.away \/ OwnState.left = 0)
  <2>1. Own = cur
    BY <1>8 DEF Own
  <2>2. CASE OwnState.recent
    <3>1. pair' = [pair EXCEPT ![cur] = away]
          /\ call' = At(c, "mark", cur, OwnState.left) /\ UNCHANGED refused
      BY <1>8, <2>2 DEF Arrive, Arrival
    <3>2. /\ call' \in [Slots -> CallStates(made', Len(rows))]
          /\ \A d \in Slots : call'[d].pc # "idle" => call'[d].pair \in Pairs
      BY <1>1, <1>2, <1>5, <2>1, <3>1, Called
    <3>3. pair' \in [Pairs -> PairStates(Len(rows))]
      BY <1>1, <1>2, <3>1 DEF NoticeTypes
    <3> QED BY <1>1, <1>3, <1>4, <3>1, <3>2, <3>3 DEF Kept, NoticeTypes
  <2>3. CASE ~OwnState.recent
    <3>1. Announce(c, cur, away)
      BY <1>8, <2>3 DEF Arrive, Arrival
    <3> HIDE DEF away
    <3> QED BY <1>1, <1>2, <1>3, <1>4, <2>1, <3>1, AnnounceTypes DEF Kept
  <2> QED BY <2>2, <2>3
<1> QED BY <1>6, <1>7, <1>8

\* A row is inserted.
LEMMA LineWritten ==
    ASSUME NEW r \in Seq(Lines), NEW l \in Lines
    PROVE  /\ Append(r, l) \in Seq(Lines) /\ Len(Append(r, l)) = Len(r) + 1
           /\ Append(r, l)[Len(r) + 1] = l /\ Append(r, l) # <<>>
OBVIOUS

\* A row is rewritten to say that the person is back.
LEMMA LineTurned ==
    ASSUME NEW r \in Seq(Lines), NEW k
    PROVE  /\ [r EXCEPT ![k] = "back"] \in Seq(Lines)
           /\ Len([r EXCEPT ![k] = "back"]) = Len(r)
           /\ k \in 1..Len(r) => [r EXCEPT ![k] = "back"][k] = "back"
<1>1. "back" \in Lines
  BY DEF Lines
<1>2. CASE k \in 1..Len(r)
  BY <1>1, <1>2, ExceptSeq
<1>3. CASE k \notin 1..Len(r)
  <2>1. [r EXCEPT ![k] = "back"] = r
    BY <1>3
  <2> QED BY <1>3, <2>1
<1> QED BY <1>2, <1>3

\* The parts that the calls of the service leave to their callers.
Others == /\ room \in BOOLEAN /\ member \in BOOLEAN /\ here \in BOOLEAN
          /\ evicted \in BOOLEAN
          /\ quitting \in {"no", "present", "absent"}
          /\ turns \in 0..MaxTurns /\ failures \in 0..MaxFailures

\* A call of departed or arrived that leaves the rest to its caller.
LEMMA KeptTypes == ASSUME NoticeTypes, Kept, Others', rows' = rows
                   PROVE  NoticeTypes'
BY DEF NoticeTypes, Kept, Others

\* The turns stay within their bound.
LEMMA MoveCounts == NoticeTypes /\ Move => turns' \in 0..MaxTurns
BY NoticesAssumption DEF NoticeTypes, Move

\* What the person does keeps the types.
LEMMA PersonTypes ==
    ASSUME NoticeTypes, NEW c \in Slots,
           \/ Arrive(c) \/ QuitRow(c)
           \/ \E kind \in {"lost", "left", "host"} : HallLeft(c, kind)
    PROVE  NoticeTypes'
<1>1. CASE Arrive(c)
  <2>1. Kept
    BY <1>1, ArriveTypes
  <2>2. Others' /\ rows' = rows
    BY <1>1, MoveCounts DEF Arrive, Arrival, Others, NoticeTypes
  <2> QED BY <2>1, <2>2, KeptTypes
<1>2. CASE QuitRow(c)
  <2>1. Kept
    <3>1. CASE quitting = "present"
      BY <1>2, <3>1, DepartedTypes DEF QuitRow
    <3>2. CASE quitting # "present"
      BY <1>2, <3>2 DEF QuitRow, Kept, NoticeTypes
    <3> QED BY <3>1, <3>2
  <2>2. Others' /\ rows' = rows
    BY <1>2 DEF QuitRow, Others, NoticeTypes
  <2> QED BY <2>1, <2>2, KeptTypes
<1>3. ASSUME NEW kind \in {"lost", "left", "host"}, HallLeft(c, kind)
      PROVE  NoticeTypes'
  <2>1. Kept
    BY <1>3, DepartedTypes DEF HallLeft
  <2>2. Others' /\ rows' = rows
    BY <1>3, MoveCounts DEF HallLeft, Others, NoticeTypes
  <2> QED BY <2>1, <2>2, KeptTypes
<1> QED BY <1>1, <1>2, <1>3

\* So does what happens to the membership, the room and the process.
LEMMA RoomTypes ==
    ASSUME NoticeTypes, Evict \/ QuitAsk \/ Rejoin \/ ClearRoom \/ Restart
    PROVE  NoticeTypes'
<1>1. CASE Evict \/ QuitAsk \/ Rejoin
  BY <1>1, MoveCounts DEF Evict, QuitAsk, Rejoin, NoticeTypes
<1>2. CASE ClearRoom
  <2>1. pair' \in [Pairs -> PairStates(Len(rows))]
    BY <1>2 DEF ClearRoom, NoticeTypes, PairStates
  <2>2. cur' \in 0..made' /\ made' = made
    BY <1>2 DEF ClearRoom, NoticeTypes
  <2> QED BY <1>2, <2>1, <2>2, MoveCounts DEF ClearRoom, NoticeTypes
<1>3. CASE Restart
  <2>1. pair' \in [Pairs -> PairStates(Len(rows))]
    BY <1>3 DEF Restart, NoticeTypes, PairStates
  <2>2. cur' \in 0..made' /\ made' = made /\ failures' \in 0..MaxFailures
    BY <1>3, NoticesAssumption DEF Restart, NoticeTypes
  <2>3. Idle \in CallStates(made, Len(rows)) /\ Idle.pc = "idle"
    BY DEF Idle, CallStates, Points, NoticeTypes
  <2>4. /\ call' \in [Slots -> CallStates(made, Len(rows))]
        /\ \A c \in Slots : call'[c].pc = "idle"
    BY <1>3, <2>3 DEF Restart
  <2> QED BY <1>3, <2>1, <2>2, <2>4 DEF Restart, NoticeTypes
<1> QED BY <1>1, <1>2, <1>3

\* Only an object that was made has a timer.
TimersMade == \A p \in Pairs : pair[p].timer => p <= made

\* No step sets the timer of an object that nobody made.
LEMMA TimersMadeNext ==
    NoticeTypes /\ TimersMade /\ [NoticesNext]_noticesVars => TimersMade'
<1> SUFFICES ASSUME NoticeTypes, TimersMade, [NoticesNext]_noticesVars
             PROVE  TimersMade'
  OBVIOUS
<1>1. made \in 0..MaxPairs /\ pair \in [Pairs -> PairStates(Len(rows))]
  BY DEF NoticeTypes
<1>2. made \in Nat /\ Pairs \subseteq Nat
  BY <1>1, NoticesAssumption DEF Pairs
\* Who makes none keeps the number of those there are.
<1>3. ASSUME made' \in Nat, made <= made', NEW o \in Pairs, o <= made',
             \A p \in Pairs \ {o} : pair'[p].timer => pair[p].timer
      PROVE  TimersMade'
  BY <1>2, <1>3 DEF TimersMade
<1>4. ASSUME made' = made, \A p \in Pairs : pair'[p].timer => pair[p].timer
      PROVE  TimersMade'
  BY <1>4 DEF TimersMade
<1>5. ASSUME NEW c \in Slots, NEW p, NEW q, Decide(c, p, q) \/ Announce(c, p, q)
      PROVE  \A o \in Pairs \ {p} : pair'[o] = pair[o]
  BY <1>1, <1>5 DEF Decide, Announce
<1>6. ASSUME NEW c \in Slots, NEW p \in Pairs,
             Decide(c, p, pair[p]) \/ Announce(c, p, pair[p])
      PROVE  \A o \in Pairs : pair'[o].timer => pair[o].timer
  BY <1>1, <1>5, <1>6 DEF Decide, Announce, Counted, PairStates
<1>7. ASSUME NEW c \in Slots, NEW kind \in {"lost", "left", "host", "quit"},
             Departed(c, kind)
      PROVE  TimersMade'
  <2>1. /\ Own \in Pairs /\ made' \in Nat /\ made <= made' /\ Own <= made'
    BY <1>7, OwnIsPair, NoticesAssumption DEF Departed, Depart
  <2>2. \A p \in Pairs \ {Own} : pair'[p] = pair[p]
    BY <1>1, <1>5, <1>7 DEF Departed, Depart
  <2> QED BY <1>3, <2>1, <2>2
<1>8. ASSUME NEW c \in Slots, Arrive(c)
      PROVE  TimersMade'
  <2>1. /\ Own \in Pairs /\ made' \in Nat /\ made <= made' /\ Own <= made'
    BY <1>8, OwnIsPair, NoticesAssumption DEF Arrive, Arrival
  <2>2. cur # 0 => Own = cur
    BY DEF Own
  <2>3. \A p \in Pairs \ {Own} : pair'[p] = pair[p]
    BY <1>1, <1>5, <1>8, <2>2 DEF Arrive, Arrival
  <2> QED BY <1>3, <2>1, <2>3
<1>9. ASSUME NEW c \in Slots, QuitRow(c)
      PROVE  TimersMade'
  <2>1. CASE quitting = "present"
    BY <1>7, <1>9, <2>1 DEF QuitRow
  <2>2. CASE quitting # "present"
    BY <1>9, <2>2 DEF QuitRow, TimersMade
  <2> QED BY <2>1, <2>2
<1>10. ASSUME NEW c \in Slots, NEW kind \in {"lost", "left", "host"},
              HallLeft(c, kind)
       PROVE  TimersMade'
  BY <1>7, <1>10 DEF HallLeft
<1>11. ASSUME NEW c \in Slots, IsJoined(c) \/ LastEvent(c)
       PROVE  TimersMade'
  <2>1. call[c].pair \in Pairs /\ made' = made
    BY <1>11 DEF IsJoined, LastEvent, NoticeTypes
  <2>2. CASE pair' = pair
    BY <1>4, <2>1, <2>2
  <2>3. CASE \/ Decide(c, call[c].pair, pair[call[c].pair])
            \/ Announce(c, call[c].pair, pair[call[c].pair])
    BY <1>4, <1>6, <2>1, <2>3
  <2> QED BY <1>11, <2>2, <2>3 DEF IsJoined, LastEvent
<1>12. ASSUME NEW c \in Slots, Wrote(c)
       PROVE  TimersMade'
  BY <1>1, <1>4, <1>12 DEF Wrote, PairStates
<1>13. ASSUME NEW c \in Slots, NEW p \in Pairs, Fire(c, p)
       PROVE  TimersMade'
  BY <1>1, <1>4, <1>13 DEF Fire, PairStates
<1>14. ASSUME NEW p \in Pairs, Age(p) \/ Forget(p)
       PROVE  TimersMade'
  BY <1>1, <1>4, <1>14 DEF Age, Forget, PairStates
<1>15. CASE ClearRoom \/ Restart
  BY <1>1, <1>4, <1>15 DEF ClearRoom, Restart, PairStates
<1>16. CASE UNCHANGED <<pair, made>>
  BY <1>16 DEF TimersMade
<1>17. \A c \in Slots : Insert(c) \/ Mark(c) \/ Fails(c) => UNCHANGED <<pair, made>>
  BY DEF Insert, Mark, Fails
<1>18. Evict \/ QuitAsk \/ Rejoin \/ UNCHANGED noticesVars
          => UNCHANGED <<pair, made>>
  BY DEF Evict, QuitAsk, Rejoin, noticesVars
<1> QED BY <1>8, <1>9, <1>10, <1>11, <1>12, <1>13, <1>14, <1>15, <1>16, <1>17,
           <1>18 DEF NoticesNext

\* The steps of a call in flight, and its failure, keep the types.
LEMMA CallTypes ==
    ASSUME NoticeTypes, TimersMade, NEW c \in Slots,
           \/ IsJoined(c) \/ Insert(c) \/ Wrote(c) \/ Mark(c) \/ LastEvent(c)
           \/ Fails(c) \/ \E p \in Pairs : Fire(c, p)
    PROVE  NoticeTypes'
<1>1. call[c] \in CallStates(made, Len(rows)) /\ Len(rows) \in Nat
  BY DEF NoticeTypes
<1>2. made \in 0..MaxPairs /\ made <= made /\ 0 \in 0..Len(rows)
  BY <1>1, NoticesAssumption DEF NoticeTypes
<1>3. call[c].pc # "idle" => /\ call[c].pair \in 1..made /\ call[c].pair \in Pairs
                             /\ pair[call[c].pair] \in PairStates(Len(rows))
  <2> SUFFICES ASSUME call[c].pc # "idle"
               PROVE  /\ call[c].pair \in 1..made /\ call[c].pair \in Pairs
                      /\ pair[call[c].pair] \in PairStates(Len(rows))
    OBVIOUS
  <2>1. call[c].pair \in Pairs
    BY DEF NoticeTypes
  <2>2. call[c].pair \in 0..made
    BY <1>1 DEF CallStates
  <2>3. call[c].pair \in 1..made
    BY <1>2, <2>1, <2>2 DEF Pairs
  <2> QED BY <2>1, <2>3 DEF NoticeTypes
<1>4. CASE IsJoined(c)
  <2> DEFINE p == call[c].pair
  <2>1. p \in 1..made /\ p \in Pairs /\ pair[p] \in PairStates(Len(rows))
    BY <1>3, <1>4 DEF IsJoined
  <2>2. Others' /\ rows' = rows /\ made' = made /\ crossed' = crossed
    BY <1>4 DEF IsJoined, Others, NoticeTypes
  <2>3. CASE room /\ member
    <3>1. Decide(c, p, pair[p]) /\ cur' = cur
      BY <1>4, <2>3 DEF IsJoined
    <3>2. Kept
      BY <1>2, <2>1, <2>2, <3>1, DecideTypes DEF Kept, NoticeTypes
    <3> QED BY <2>2, <3>2, KeptTypes
  <2>4. CASE ~(room /\ member)
    <3>1. cur' = 0 /\ call' = Ends(c) /\ refused' = TRUE /\ pair' = pair
      BY <1>4, <2>4 DEF IsJoined
    <3>2. Kept
      BY <1>2, <2>2, <3>1, Ended DEF Kept, NoticeTypes
    <3> QED BY <2>2, <3>2, KeptTypes
  <2> QED BY <2>3, <2>4
<1>5. CASE Insert(c)
  <2>1. Others' /\ UNCHANGED <<cur, made, pair, crossed, refused>>
    BY <1>5 DEF Insert, Others, NoticeTypes
  <2>2. CASE ~room
    <3>1. call' = Ends(c) /\ rows' = rows
      BY <1>5, <2>2 DEF Insert
    <3>2. Kept
      BY <1>2, <2>1, <3>1, Ended DEF Kept, NoticeTypes
    <3> QED BY <2>1, <3>1, <3>2, KeptTypes
  <2>3. CASE room
    <3> DEFINE l == call[c].pc
    <3>1. l \in Lines /\ l # "idle" /\ rows' = Append(rows, l)
      BY <1>5, <2>3 DEF Insert, Lines
    <3>2. rows' \in Seq(Lines) /\ Len(rows') = Len(rows) + 1
      BY <3>1 DEF NoticeTypes
    <3>3. /\ PairStates(Len(rows)) \subseteq PairStates(Len(rows'))
          /\ CallStates(made, Len(rows)) \subseteq CallStates(made, Len(rows'))
      <4>1. Len(rows') \in Nat /\ Len(rows) <= Len(rows') /\ made \in Nat
        BY <1>1, <1>2, <3>2
      <4> QED BY <1>1, <4>1, PairStatesGrow, CallStatesGrow
    <3>4. pair' \in [Pairs -> PairStates(Len(rows'))]
      BY <2>1, <3>3 DEF NoticeTypes
    <3>5. /\ call' \in [Slots -> CallStates(made, Len(rows'))]
          /\ \A d \in Slots : call'[d].pc # "idle" => call'[d].pair \in Pairs
      <4>1. CASE l = "joined"
        <5>1. call' = Ends(c)
          BY <1>5, <2>3, <4>1 DEF Insert
        <5> QED BY <3>3, <5>1, Ended
      <4>2. CASE l # "joined"
        <5> DEFINE r == [pc |-> "wrote", pair |-> call[c].pair, row |-> Len(rows) + 1]
        <5>1. call' = [call EXCEPT ![c] = r]
          BY <1>5, <2>3, <4>2 DEF Insert, At
        <5>2. r \in CallStates(made, Len(rows')) /\ r.pair \in Pairs
          <6>1. call[c].pair \in 0..made /\ call[c].pair \in Pairs
            BY <1>1, <1>3, <3>1 DEF CallStates
          <6>2. Len(rows) + 1 \in 0..Len(rows') /\ "wrote" \in Points
            BY <1>1, <3>2 DEF Points
          <6> QED BY <6>1, <6>2 DEF CallStates
        <5>3. call \in [Slots -> CallStates(made, Len(rows'))]
          BY <3>3 DEF NoticeTypes
        <5> HIDE DEF r
        <5>4. call' \in [Slots -> CallStates(made, Len(rows'))]
          BY <5>1, <5>2, <5>3
        <5>5. call'[c] = r /\ \A d \in Slots \ {c} : call'[d] = call[d]
          BY <5>1, <5>3
        <5> QED BY <5>2, <5>4, <5>5 DEF NoticeTypes
      <4> QED BY <4>1, <4>2
    <3> QED BY <2>1, <3>2, <3>4, <3>5 DEF NoticeTypes, Others
  <2> QED BY <2>2, <2>3
<1>6. CASE Wrote(c)
  <2> DEFINE p == call[c].pair
             q == [pair[p] EXCEPT !.left = IF pair[p].away THEN call[c].row ELSE 0,
                                  !.recent = TRUE]
  <2>1. p \in 1..made /\ p \in Pairs /\ pair[p] \in PairStates(Len(rows))
    BY <1>3, <1>6 DEF Wrote
  <2>2. Others' /\ rows' = rows /\ UNCHANGED <<cur, made, crossed, refused>>
    BY <1>6 DEF Wrote, Others, NoticeTypes
  <2>3. call[c].row \in 0..Len(rows)
    BY <1>1 DEF CallStates
  <2>4. q \in PairStates(Len(rows))
    <3>1. (IF pair[p].away THEN call[c].row ELSE 0) \in 0..Len(rows)
      BY <1>2, <2>3
    <3> QED BY <2>1, <3>1 DEF PairStates
  <2>5. pair' = [pair EXCEPT ![p] = q]
    BY <1>6, <2>1 DEF Wrote, NoticeTypes, PairStates
  <2>6. pair' \in [Pairs -> PairStates(Len(rows))]
    <3> HIDE DEF q, p
    <3> QED BY <2>1, <2>4, <2>5 DEF NoticeTypes
  <2>7. /\ call' \in [Slots -> CallStates(made, Len(rows))]
        /\ \A d \in Slots : call'[d].pc # "idle" => call'[d].pair \in Pairs
    <3>1. "mark" \in Points \ {"idle"}
      BY DEF Points
    <3>2. call' = Ends(c) \/ call' = At(c, "mark", p, call[c].row)
      BY <1>6 DEF Wrote
    <3> QED BY <1>2, <2>1, <2>3, <3>1, <3>2, Ended, Called
  <2>8. Kept
    BY <1>2, <2>2, <2>6, <2>7 DEF Kept, NoticeTypes
  <2> QED BY <2>2, <2>8, KeptTypes
<1>7. CASE Mark(c)
  <2>1. Others' /\ UNCHANGED <<cur, made, pair, crossed, refused>>
    BY <1>7 DEF Mark, Others, NoticeTypes
  <2>2. rows' \in Seq(Lines) /\ Len(rows') = Len(rows)
    BY <1>7, LineTurned DEF Mark, NoticeTypes
  <2>3. call' = Ends(c)
    BY <1>7 DEF Mark
  <2> QED BY <2>1, <2>2, <2>3, Ended DEF NoticeTypes, Others
<1>8. CASE LastEvent(c)
  <2> DEFINE p == call[c].pair
  <2>1. p \in 1..made /\ p \in Pairs /\ pair[p] \in PairStates(Len(rows))
    BY <1>3, <1>8 DEF LastEvent
  <2>2. Others' /\ rows' = rows /\ UNCHANGED <<cur, made, crossed>>
    BY <1>8 DEF LastEvent, Others, NoticeTypes
  <2>3. \/ Announce(c, p, pair[p])
        \/ call' = Ends(c) /\ UNCHANGED <<pair, refused>>
    BY <1>8 DEF LastEvent
  <2>4. Kept
    <3>1. CASE Announce(c, p, pair[p])
      BY <1>2, <2>1, <2>2, <3>1, AnnounceTypes DEF Kept, NoticeTypes
    <3>2. CASE call' = Ends(c) /\ UNCHANGED <<pair, refused>>
      BY <1>2, <2>2, <3>2, Ended DEF Kept, NoticeTypes
    <3> QED BY <2>3, <3>1, <3>2
  <2> QED BY <2>2, <2>4, KeptTypes
<1>9. CASE Fails(c)
  <2>1. Others' /\ rows' = rows /\ UNCHANGED <<cur, made, pair, crossed>>
        /\ refused' = TRUE /\ call' = Ends(c)
    BY <1>9, NoticesAssumption DEF Fails, Others, NoticeTypes
  <2>2. Kept
    BY <1>2, <2>1, Ended DEF Kept, NoticeTypes
  <2> QED BY <2>1, <2>2, KeptTypes
<1>10. ASSUME NEW p \in Pairs, Fire(c, p)
       PROVE  NoticeTypes'
  <2>1. Others' /\ rows' = rows /\ UNCHANGED <<cur, made, refused>>
    BY <1>10 DEF Fire, Others, NoticeTypes
  <2>2. pair' \in [Pairs -> PairStates(Len(rows))]
    <3>1. [pair[p] EXCEPT !.timer = FALSE] \in PairStates(Len(rows))
      BY DEF NoticeTypes, PairStates
    <3>2. pair' = [pair EXCEPT ![p] = [pair[p] EXCEPT !.timer = FALSE]]
      BY <1>10 DEF Fire
    <3> QED BY <3>1, <3>2 DEF NoticeTypes
  <2>3. crossed' \in BOOLEAN
    BY <1>10 DEF Fire, Crosses, NoticeTypes
  <2>4. /\ call' \in [Slots -> CallStates(made, Len(rows))]
        /\ \A d \in Slots : call'[d].pc # "idle" => call'[d].pair \in Pairs
    <3>1. "ask" \in Points \ {"idle"} /\ p \in 1..made
      BY <1>2, <1>10, NoticesAssumption DEF Points, Pairs, TimersMade, Fire
    <3>2. call' = call \/ call' = At(c, "ask", p, 0)
      BY <1>10 DEF Fire
    <3> QED BY <1>2, <3>1, <3>2, Called, CallsStay
  <2>5. Kept
    BY <1>2, <2>1, <2>2, <2>3, <2>4 DEF Kept, NoticeTypes
  <2> QED BY <2>1, <2>5, KeptTypes
<1> QED BY <1>4, <1>5, <1>6, <1>7, <1>8, <1>9, <1>10

\* No step breaks the types.
LEMMA NoticeTypesNext ==
    NoticeTypes /\ TimersMade /\ [NoticesNext]_noticesVars => NoticeTypes'
<1> SUFFICES ASSUME NoticeTypes, TimersMade, [NoticesNext]_noticesVars PROVE NoticeTypes'
  OBVIOUS
<1>1. ASSUME NEW p \in Pairs, Age(p) \/ Forget(p)
      PROVE  NoticeTypes'
  <2>1. pair' \in [Pairs -> PairStates(Len(rows))]
    <3>1. pair[p] \in PairStates(Len(rows))
      BY DEF NoticeTypes
    <3>2. CASE Age(p)
      <4>1. [pair[p] EXCEPT !.recent = FALSE] \in PairStates(Len(rows))
        BY <3>1 DEF PairStates
      <4>2. pair' = [pair EXCEPT ![p] = [pair[p] EXCEPT !.recent = FALSE]]
        BY <3>2 DEF Age
      <4> QED BY <4>1, <4>2 DEF NoticeTypes
    <3>3. CASE Forget(p)
      <4>1. pair[p].created - 1 \in 0..MaxNotices
        BY <3>1, <3>3, NoticesAssumption DEF Forget, PairStates
      <4>2. [pair[p] EXCEPT !.created = pair[p].created - 1]
               \in PairStates(Len(rows))
        BY <3>1, <4>1 DEF PairStates
      <4>3. pair' = [pair EXCEPT ![p] =
                        [pair[p] EXCEPT !.created = pair[p].created - 1]]
        BY <3>3 DEF Forget
      <4> QED BY <4>2, <4>3 DEF NoticeTypes
    <3> QED BY <1>1, <3>2, <3>3
  <2> QED BY <1>1, <2>1 DEF Age, Forget, NoticeTypes
<1>2. CASE UNCHANGED noticesVars
  BY <1>2 DEF noticesVars, NoticeTypes
<1> QED BY <1>1, <1>2, PersonTypes, RoomTypes, CallTypes DEF NoticesNext

\* The call c is in flight, none is, c alone is.
Busy(c) == call[c].pc # "idle"
Calm == \A c \in Slots : ~Busy(c)
Only(c) == Busy(c) /\ \A d \in Slots \ {c} : ~Busy(d)

\* The process knows nothing of the person: they were never there.
Stranger == /\ cur = 0 /\ rows = <<>> /\ ~here
            /\ quitting # "present" /\ Calm

\* No call is in flight: they are in and it was said; they are away and the
\* timer will say so; or they are away and the last line is the one the object
\* remembers.
Resting(q) ==
    \/ ~q.away /\ ~q.timer /\ q.left = 0 /\ SaysIn
    \/ q.away /\ q.timer /\ q.left = 0 /\ SaysIn
    \/ q.away /\ ~q.timer /\ q.left # 0 /\ q.left = Len(rows) /\ ~SaysIn

\* The call c is in flight, and what it is about to write is what the last line
\* lacks.
Working(c, q) ==
    /\ call[c].pair = cur /\ ~q.timer /\ q.left = 0
    /\ \/ call[c].pc \in {"ask", "left"} /\ SaysIn
       \/ /\ call[c].pc \in {"wrote", "mark"} /\ ~SaysIn
          /\ call[c].row # 0 /\ call[c].row = Len(rows)
          /\ call[c].pc = "mark" => ~q.away
       \/ call[c].pc = "last" /\ rows = <<>> /\ ~q.away
       \/ call[c].pc = "joined" /\ ~SaysIn /\ ~q.away

\* The object says where the person is, but for one who was evicted.
Placed(q) == (here => ~q.away) /\ (~q.away => here \/ evicted)

\* The process knows the person: its object says where they are.
Known == /\ cur # 0 /\ Placed(pair[cur])
         /\ \/ Calm /\ Resting(pair[cur])
            \/ \E c \in Slots : Only(c) /\ Working(c, pair[cur])

\* An object that the map has forgotten has no timer.
OthersQuiet == \A p \in Pairs : pair[p].timer => p = cur

\* The room stands, and nothing went wrong so far: then all of it holds.
Fine == room /\ ~crossed /\ ~refused
NoticeBody == OthersQuiet /\ (Stranger \/ Known)
NoticeInv == Fine => NoticeBody

-----------------------------------------------------------------------------
(* How many calls are in flight. *)

\* A call that crosses no other begins when none is in flight.
LEMMA NotCrossed == ASSUME NoticeTypes, Crosses, ~crossed' PROVE Calm
BY DEF NoticeTypes, Crosses, Free, Calm, Busy

\* Then it is the only one.
LEMMA OneBegins ==
    ASSUME NoticeTypes, NEW c \in Slots, Calm \/ Only(c),
           NEW pc, pc # "idle", NEW p, NEW row, call' = At(c, pc, p, row)
    PROVE  /\ Only(c)' /\ call'[c].pc = pc /\ call'[c].pair = p
           /\ call'[c].row = row
<1>1. call'[c] = [pc |-> pc, pair |-> p, row |-> row]
  BY DEF At, NoticeTypes
<1>2. \A d \in Slots \ {c} : call'[d] = call[d]
  BY DEF At, NoticeTypes
<1> QED BY <1>1, <1>2 DEF Only, Calm, Busy

\* And when it ends there is none.
LEMMA OneEnds ==
    ASSUME NoticeTypes, NEW c \in Slots, Only(c), call' = Ends(c)
    PROVE  Calm'
<1>1. call'[c].pc = "idle" /\ \A d \in Slots \ {c} : call'[d] = call[d]
  BY DEF Ends, Idle, NoticeTypes
<1> QED BY <1>1 DEF Only, Calm, Busy

\* What ends is over for good: the room, and a history without a fault.
LEMMA FineBefore ==
    ASSUME NoticeTypes, [NoticesNext]_noticesVars, Fine' PROVE Fine
<1> USE DEF Fine
<1>1. ASSUME NEW c \in Slots, NEW kind \in {"lost", "left", "host", "quit"},
             Departed(c, kind)
      PROVE  (crossed => crossed') /\ (refused => refused')
  BY <1>1 DEF Departed, Depart, Decide, Crosses
<1>2. ASSUME NEW c \in Slots, Arrive(c)
      PROVE  Fine
  BY <1>2 DEF Arrive, Arrival, Announce, Crosses
<1>3. ASSUME NEW c \in Slots, QuitRow(c)
      PROVE  Fine
  BY <1>1, <1>3 DEF QuitRow
<1>4. ASSUME NEW c \in Slots, NEW kind \in {"lost", "left", "host"},
             HallLeft(c, kind)
      PROVE  Fine
  BY <1>1, <1>4 DEF HallLeft
<1>5. ASSUME NEW c \in Slots, IsJoined(c) \/ LastEvent(c)
      PROVE  Fine
  <2>1. UNCHANGED <<room, crossed>>
    BY <1>5 DEF IsJoined, LastEvent
  <2>2. refused => refused'
    BY <1>5 DEF IsJoined, LastEvent, Decide, Announce
  <2> QED BY <2>1, <2>2
<1>6. ASSUME UNCHANGED <<room, crossed, refused>>
      PROVE  Fine
  BY <1>6
<1>7. ASSUME NEW c \in Slots, Insert(c) \/ Wrote(c) \/ Mark(c)
      PROVE  UNCHANGED <<room, crossed, refused>>
  BY <1>7 DEF Insert, Wrote, Mark
<1>8. ASSUME NEW c \in Slots, NEW p \in Pairs, Fire(c, p)
      PROVE  Fine
  <2>1. UNCHANGED <<room, refused>>
    BY <1>8 DEF Fire
  <2>2. crossed => crossed'
    BY <1>8 DEF Fire, Crosses
  <2> QED BY <2>1, <2>2
<1>9. ASSUME NEW p \in Pairs, Age(p) \/ Forget(p)
      PROVE  UNCHANGED <<room, crossed, refused>>
  BY <1>9 DEF Age, Forget
<1>10. Evict \/ QuitAsk \/ Rejoin \/ UNCHANGED noticesVars
          => UNCHANGED <<room, crossed, refused>>
  BY DEF Evict, QuitAsk, Rejoin, noticesVars
<1>11. ~ClearRoom /\ ~Restart /\ \A c \in Slots : ~Fails(c)
  BY DEF ClearRoom, Restart, Fails
<1> QED BY <1>2, <1>3, <1>4, <1>5, <1>6, <1>7, <1>8, <1>9, <1>10, <1>11
        DEF NoticesNext

\* A step that changes neither the calls nor the rows, nor what counts in the
\* objects.
LEMMA NothingSaid ==
    ASSUME NoticeTypes, NoticeBody, UNCHANGED <<cur, call, rows>>,
           UNCHANGED <<here, evicted>> \/ (here' = FALSE /\ evicted' = TRUE),
           \A p \in Pairs : /\ pair'[p].timer = pair[p].timer
                            /\ pair'[p].away = pair[p].away
                            /\ pair'[p].left = pair[p].left,
           quitting' = "present" => quitting = "present" \/ here
    PROVE  NoticeBody'
<1>1. (SaysIn' <=> SaysIn) /\ (Calm' <=> Calm) /\ \A c \in Slots : Only(c)' <=> Only(c)
  BY DEF SaysIn, Last, Calm, Only, Busy
<1>2. cur # 0 => cur \in Pairs
  BY NoticesAssumption DEF NoticeTypes, Pairs
<1>3. OthersQuiet'
  BY DEF NoticeBody, OthersQuiet
<1>4. CASE Stranger
  BY <1>1, <1>3, <1>4 DEF Stranger, NoticeBody
<1>5. CASE Known
  <2>1. Resting(pair[cur]) => Resting(pair[cur])'
    BY <1>1, <1>2, <1>5 DEF Resting, Known
  <2>2. \A c \in Slots : Working(c, pair[cur]) => Working(c, pair[cur])'
    BY <1>1, <1>2, <1>5 DEF Working, Known
  <2>3. Placed(pair[cur])'
    BY <1>2, <1>5 DEF Known, Placed
  <2>4. Known'
    BY <1>1, <1>2, <1>5, <2>1, <2>2, <2>3 DEF Known
  <2> QED BY <1>3, <2>4 DEF NoticeBody
<1> QED BY <1>4, <1>5 DEF NoticeBody

\* The object of the pair while the process knows the person.
LEMMA KnownPair ==
    ASSUME NoticeTypes, cur # 0
    PROVE  /\ cur \in Pairs /\ Own = cur /\ OwnState = pair[cur]
           /\ pair[cur] \in PairStates(Len(rows)) /\ Len(rows) \in Nat
BY NoticesAssumption DEF NoticeTypes, Pairs, Own, OwnState

\* The phase at the end of a step that writes the person's object.
LEMMA Rests ==
    ASSUME NoticeTypes, OthersQuiet, NEW p \in Pairs, cur' = p, NEW q,
           pair' = [pair EXCEPT ![p] = q],
           cur # 0 => cur = p, Placed(q)', Calm', Resting(q)'
    PROVE  NoticeBody'
<1>1. pair'[p] = q /\ \A o \in Pairs \ {p} : pair'[o] = pair[o]
  BY DEF NoticeTypes
<1>2. p # 0 /\ cur \in 0..MaxPairs
  BY NoticesAssumption DEF Pairs, NoticeTypes
<1>3. OthersQuiet'
  BY <1>1, <1>2 DEF OthersQuiet, Pairs
<1>4. Known'
  BY <1>1, <1>2 DEF Known, Placed
<1> QED BY <1>3, <1>4 DEF NoticeBody

\* The phase at the end of a step that leaves a call in flight.
LEMMA Works ==
    ASSUME NoticeTypes, OthersQuiet, NEW p \in Pairs, cur' = p, NEW q,
           pair' = [pair EXCEPT ![p] = q],
           cur # 0 => cur = p, Placed(q)',
           NEW c \in Slots, Only(c)', Working(c, q)'
    PROVE  NoticeBody'
<1>1. pair'[p] = q /\ \A o \in Pairs \ {p} : pair'[o] = pair[o]
  BY DEF NoticeTypes
<1>2. p # 0 /\ cur \in 0..MaxPairs
  BY NoticesAssumption DEF Pairs, NoticeTypes
<1>3. OthersQuiet'
  BY <1>1, <1>2 DEF OthersQuiet, Pairs
<1>4. Known'
  BY <1>1, <1>2 DEF Known, Placed
<1> QED BY <1>3, <1>4 DEF NoticeBody

\* The call whose answer comes is the one that is in flight.
LEMMA TheCall ==
    ASSUME NoticeTypes, NoticeBody, NEW c \in Slots, Busy(c)
    PROVE  /\ cur # 0 /\ Placed(pair[cur])
           /\ Only(c) /\ Working(c, pair[cur]) /\ call[c].pair = cur
<1>1. ~Calm
  BY DEF Calm
<1>2. Known
  BY <1>1 DEF NoticeBody, Stranger
<1>3. PICK d \in Slots : Only(d) /\ Working(d, pair[cur])
  BY <1>1, <1>2 DEF Known
<1>4. d = c
  BY <1>3 DEF Only
<1> QED BY <1>2, <1>3, <1>4 DEF Known, Working

-----------------------------------------------------------------------------
\* An arrival: a return is said, or the timer is cleared.
LEMMA ArriveBody ==
    ASSUME NoticeTypes, NoticeBody, Fine, Fine', NEW c \in Slots, Arrive(c)
    PROVE  NoticeBody'
<1>a. PICK q : q = [OwnState EXCEPT !.away = FALSE, !.timer = FALSE]
  OBVIOUS
<1>b. PICK away : away = [q EXCEPT !.left = 0]
  OBVIOUS
<1>1. /\ Own \in Pairs /\ OwnState \in PairStates(Len(rows))
      /\ cur' = Own /\ (cur # 0 => cur = Own)
  BY OwnIsPair DEF Arrive, Arrival, Own
<1>2. ~here /\ here' = TRUE /\ rows' = rows /\ (SaysIn' <=> SaysIn)
  BY DEF Arrive, Arrival, SaysIn, Last
<1>3. OthersQuiet
  BY DEF NoticeBody
<1>4. ~crossed' /\ ~refused'
  BY DEF Fine
<1>5. /\ q.away = FALSE /\ q.timer = FALSE /\ q.left = OwnState.left
      /\ away.away = FALSE /\ away.timer = FALSE /\ away.left = 0
  BY <1>1, <1>a, <1>b DEF PairStates
<1>6. CASE cur = 0
  <2>1. pair' = [pair EXCEPT ![Own] = Fresh] /\ call' = At(c, "last", Own, 0)
    BY <1>6 DEF Arrive, Arrival
  <2>2. Stranger
    BY <1>6 DEF NoticeBody, Known
  <2>3. Only(c)' /\ call'[c].pc = "last" /\ call'[c].pair = Own
    BY <2>1, <2>2, OneBegins DEF Stranger
  <2>4. Working(c, Fresh)'
    BY <1>1, <1>2, <2>2, <2>3 DEF Working, Fresh, Stranger
  <2>5. Placed(Fresh)'
    BY <1>2 DEF Fresh, Placed
  <2> QED BY <1>1, <1>3, <1>6, <2>1, <2>3, <2>4, <2>5, Works DEF Placed
<1>7. CASE cur # 0
  <2>1. Known /\ OwnState = pair[cur] /\ Own = cur
    BY <1>7, KnownPair DEF NoticeBody, Stranger
  <2>2. CASE OwnState.timer \/ ~OwnState.away \/ OwnState.left = 0
    <3>1. pair' = [pair EXCEPT ![cur] = q] /\ call' = call
      BY <1>7, <1>a, <2>2 DEF Arrive, Arrival
    <3>2. CASE Calm /\ Resting(pair[cur])
      <4>1. OwnState.left = 0 /\ SaysIn
        BY <2>1, <2>2, <3>2 DEF Resting
      <4>2. Resting(q)'
        BY <1>2, <1>5, <4>1 DEF Resting
      <4>3. Calm'
        BY <3>1, <3>2 DEF Calm, Busy
      <4> QED BY <1>1, <1>2, <1>3, <1>5, <1>7, <2>1, <3>1, <4>2, <4>3, Rests DEF Placed
    <3>3. ASSUME NEW d \in Slots, Only(d), Working(d, pair[cur])
          PROVE  NoticeBody'
      <4>1. Only(d)'
        BY <3>1, <3>3 DEF Only, Busy
      <4>2. OwnState.left = 0 /\ (rows' = <<>> <=> rows = <<>>)
        BY <1>2, <2>1, <3>3 DEF Working
      <4>3. Working(d, q)'
        BY <1>1, <1>2, <1>5, <2>1, <3>1, <3>3, <4>2 DEF Working
      <4> QED BY <1>1, <1>2, <1>3, <1>5, <1>7, <2>1, <3>1, <4>1, <4>3, Works DEF Placed
    <3> QED BY <2>1, <3>2, <3>3 DEF Known
  <2>3. CASE ~(OwnState.timer \/ ~OwnState.away \/ OwnState.left = 0)
    <3>1. Calm /\ Resting(pair[cur])
      BY <2>1, <2>3 DEF Known, Working
    <3>2. /\ OwnState.left # 0 /\ OwnState.left = Len(rows) /\ ~SaysIn
      BY <2>1, <2>3, <3>1 DEF Resting
    <3>3. CASE OwnState.recent
      <4>1. pair' = [pair EXCEPT ![cur] = away]
            /\ call' = At(c, "mark", cur, OwnState.left)
        BY <1>7, <1>a, <1>b, <2>3, <3>3 DEF Arrive, Arrival
      <4>2. /\ Only(c)' /\ call'[c].pc = "mark" /\ call'[c].pair = cur
            /\ call'[c].row = OwnState.left
        BY <3>1, <4>1, OneBegins
      <4>3. Working(c, away)'
        BY <1>1, <1>2, <1>5, <2>1, <3>2, <4>2 DEF Working
      <4> QED BY <1>1, <1>2, <1>3, <1>5, <1>7, <2>1, <4>1, <4>2, <4>3, Works DEF Placed
    <3>4. CASE ~OwnState.recent
      <4>1. Announce(c, cur, away)
        BY <1>7, <1>a, <1>b, <2>3, <3>4 DEF Arrive, Arrival
      <4>2. AllowCreate(away)
        BY <1>4, <4>1 DEF Announce
      <4>3. pair' = [pair EXCEPT ![cur] = Counted(away)]
            /\ call' = At(c, "joined", cur, 0)
        BY <4>1, <4>2 DEF Announce
      <4>4. Only(c)' /\ call'[c].pc = "joined" /\ call'[c].pair = cur
        BY <3>1, <4>3, OneBegins
      <4>5. /\ Counted(away).away = FALSE /\ Counted(away).timer = FALSE
            /\ Counted(away).left = 0
        BY <1>1, <1>5, <1>a, <1>b DEF Counted, PairStates
      <4>6. Working(c, Counted(away))'
        BY <1>1, <1>2, <2>1, <3>2, <4>4, <4>5 DEF Working
      <4> QED BY <1>1, <1>2, <1>3, <1>7, <2>1, <4>3, <4>4, <4>5, <4>6, Works DEF Placed
    <3> QED BY <3>3, <3>4
  <2> QED BY <2>2, <2>3
<1> QED BY <1>6, <1>7

\* A departure that is not final: the timer starts, or the row is asked for.
LEMMA LeftBody ==
    ASSUME NoticeTypes, NoticeBody, Fine, Fine', NEW c \in Slots,
           NEW kind \in {"lost", "left", "host"}, HallLeft(c, kind)
    PROVE  NoticeBody'
<1> DEFINE silent == \/ OwnState.away /\ OwnState.left # 0
                     \/ OwnState.timer /\ kind = "lost"
<1>1. /\ here /\ here' = FALSE /\ rows' = rows /\ (SaysIn' <=> SaysIn)
      /\ Depart(c, kind, silent)
  BY DEF HallLeft, Departed, SaysIn, Last
<1>2. Known /\ ~pair[cur].away /\ cur # 0
  BY <1>1 DEF NoticeBody, Stranger, Known, Placed
<1>3. /\ cur \in Pairs /\ Own = cur /\ OwnState = pair[cur]
      /\ pair[cur] \in PairStates(Len(rows))
  BY <1>2, KnownPair
<1>4. Calm
  BY <1>1, NotCrossed DEF Depart, Fine
<1>5. ~pair[cur].timer /\ pair[cur].left = 0 /\ SaysIn
  BY <1>2, <1>4 DEF Known, Resting, Only, Busy, Calm
<1>6. ~silent /\ cur' = cur
  BY <1>1, <1>2, <1>3, <1>5 DEF Depart, Make
<1>7. PICK q : q = [pair[cur] EXCEPT !.away = TRUE, !.timer = FALSE]
  OBVIOUS
<1>8. PICK t : t = [q EXCEPT !.timer = TRUE]
  OBVIOUS
<1>9. /\ q.away = TRUE /\ q.timer = FALSE /\ q.left = 0
      /\ t.away = TRUE /\ t.timer = TRUE /\ t.left = 0
  BY <1>3, <1>5, <1>7, <1>8 DEF PairStates
<1>10. OthersQuiet
  BY DEF NoticeBody
<1>11. CASE kind \in {"lost", "host"}
  <2>1. pair' = [pair EXCEPT ![cur] = t] /\ call' = call
    BY <1>1, <1>3, <1>6, <1>7, <1>8, <1>11 DEF Depart
  <2>2. Calm' /\ Resting(t)'
    BY <1>1, <1>4, <1>5, <1>9, <2>1 DEF Calm, Busy, Resting
  <2> QED BY <1>1, <1>3, <1>6, <1>9, <1>10, <2>1, <2>2, Rests DEF Placed
<1>12. CASE kind = "left"
  <2>1. pair' = [pair EXCEPT ![cur] = q] /\ call' = At(c, "ask", cur, 0)
    BY <1>1, <1>3, <1>6, <1>7, <1>12 DEF Depart
  <2>2. Only(c)' /\ call'[c].pc = "ask" /\ call'[c].pair = cur
    BY <1>4, <2>1, OneBegins
  <2>3. Working(c, q)'
    BY <1>1, <1>5, <1>6, <1>9, <2>2 DEF Working
  <2> QED BY <1>1, <1>3, <1>6, <1>9, <1>10, <2>1, <2>2, <2>3, Works DEF Placed
<1> QED BY <1>11, <1>12

\* Who leaves the room for good has left the hall.
LEMMA QuitBody ==
    ASSUME NoticeTypes, NoticeBody, Fine, Fine', NEW c \in Slots, QuitRow(c)
    PROVE  NoticeBody'
<1>1. /\ here' = FALSE /\ quitting' = "no" /\ rows' = rows /\ (SaysIn' <=> SaysIn)
  BY DEF QuitRow, SaysIn, Last
<1>2. CASE quitting # "present"
  <2>1. ~here
    BY <1>2 DEF QuitRow, Fine
  <2>2. here = FALSE
    BY <2>1 DEF NoticeTypes
  <2> QED BY <1>1, <1>2, <2>2, NothingSaid DEF QuitRow
<1>3. CASE quitting = "present"
  <2> DEFINE silent == \/ OwnState.away /\ OwnState.left # 0
                       \/ OwnState.timer /\ "quit" = "lost"
  <2>1. Depart(c, "quit", silent)
    BY <1>3 DEF QuitRow, Departed
  <2>2. Known /\ cur # 0
    BY <1>3 DEF NoticeBody, Stranger, Known
  <2>3. /\ cur \in Pairs /\ Own = cur /\ OwnState = pair[cur]
        /\ pair[cur] \in PairStates(Len(rows))
    BY <2>2, KnownPair
  <2>4. Calm
    BY <2>1, NotCrossed DEF Depart, Fine
  <2>5. Resting(pair[cur]) /\ cur' = cur /\ OthersQuiet
    BY <2>1, <2>2, <2>3, <2>4
       DEF Known, Only, Busy, Calm, Depart, Make, NoticeBody
  <2>6. CASE silent
    <3>1. pair' = [pair EXCEPT ![cur] = pair[cur]] /\ call' = call
      BY <2>1, <2>3, <2>6 DEF Depart
    <3>2. PICK q : q = pair[cur]
      OBVIOUS
    <3>3. q.away /\ Calm' /\ Resting(q)'
      BY <1>1, <2>3, <2>4, <2>5, <2>6, <3>1, <3>2 DEF Calm, Busy, Resting
    <3> QED BY <1>1, <2>3, <2>5, <3>1, <3>2, <3>3, Rests DEF Placed
  <2>7. CASE ~silent
    <3>1. PICK q : q = [pair[cur] EXCEPT !.away = TRUE, !.timer = FALSE]
      OBVIOUS
    <3>2. Decide(c, cur, q)
      BY <2>1, <2>3, <2>7, <3>1 DEF Depart
    <3>3. q.away = TRUE /\ q.timer = FALSE /\ q.left = pair[cur].left
      BY <2>3, <3>1 DEF PairStates
    <3>4. pair[cur].left = 0 /\ SaysIn
      BY <2>3, <2>5, <2>7 DEF Resting
    <3>5. AllowCreate(q)
      BY <3>2, <3>3 DEF Decide, Fine
    <3>6. pair' = [pair EXCEPT ![cur] = Counted(q)] /\ call' = At(c, "left", cur, 0)
      BY <3>2, <3>3, <3>5 DEF Decide
    <3>7. /\ Counted(q).away = TRUE /\ Counted(q).timer = FALSE
          /\ Counted(q).left = 0
      BY <2>3, <3>1, <3>3, <3>4 DEF Counted, PairStates
    <3>8. Only(c)' /\ call'[c].pc = "left" /\ call'[c].pair = cur
      BY <2>4, <3>6, OneBegins
    <3>9. Working(c, Counted(q))'
      BY <1>1, <2>5, <3>4, <3>7, <3>8 DEF Working
    <3> QED BY <1>1, <2>3, <2>5, <3>6, <3>7, <3>8, <3>9, Works DEF Placed
  <2> QED BY <2>6, <2>7
<1> QED BY <1>2, <1>3

\* The grace timer fires: the departure will be written.
LEMMA FireBody ==
    ASSUME NoticeTypes, NoticeBody, Fine, Fine', NEW c \in Slots,
           NEW p \in Pairs, Fire(c, p)
    PROVE  NoticeBody'
<1>1. p = cur /\ cur # 0 /\ OthersQuiet
  BY NoticesAssumption DEF Fire, NoticeBody, OthersQuiet, Pairs
<1>2. Known /\ pair[cur] \in PairStates(Len(rows))
  BY <1>1, KnownPair DEF NoticeBody, Stranger
<1>3. Calm /\ pair[cur].away /\ pair[cur].left = 0 /\ SaysIn
  BY <1>1, <1>2 DEF Known, Working, Resting, Fire
<1>4. PICK q : q = [pair[cur] EXCEPT !.timer = FALSE]
  OBVIOUS
<1>5. q.away = pair[cur].away /\ q.timer = FALSE /\ q.left = 0
  BY <1>2, <1>3, <1>4 DEF PairStates
<1>6. /\ pair' = [pair EXCEPT ![cur] = q] /\ call' = At(c, "ask", cur, 0)
      /\ UNCHANGED <<here, evicted, cur, rows>>
  BY <1>1, <1>3, <1>4 DEF Fire
<1>7. Only(c)' /\ call'[c].pc = "ask" /\ call'[c].pair = cur
  BY <1>3, <1>6, OneBegins
<1>8. Working(c, q)'
  BY <1>3, <1>5, <1>6, <1>7 DEF Working, SaysIn, Last
<1>9. Placed(q)'
  BY <1>2, <1>5, <1>6 DEF Known, Placed
<1> QED BY <1>1, <1>6, <1>7, <1>8, <1>9, Works

-----------------------------------------------------------------------------
(* The answers. *)

LEMMA JoinedBody ==
    ASSUME NoticeTypes, NoticeBody, Fine, Fine', NEW c \in Slots, IsJoined(c)
    PROVE  NoticeBody'
<1>1. /\ cur # 0 /\ Placed(pair[cur]) /\ Only(c)
      /\ Working(c, pair[cur]) /\ call[c].pair = cur
  BY TheCall DEF IsJoined, Busy
<1>2. /\ ~pair[cur].timer /\ pair[cur].left = 0 /\ SaysIn /\ OthersQuiet
      /\ cur \in Pairs /\ pair[cur] \in PairStates(Len(rows))
  BY <1>1, KnownPair DEF Working, IsJoined, NoticeBody
<1>3. /\ Decide(c, cur, pair[cur])
      /\ UNCHANGED <<here, evicted, cur, rows>> /\ ~refused'
  BY <1>1 DEF IsJoined, Fine
<1>4. SaysIn'
  BY <1>2, <1>3 DEF SaysIn, Last
<1>5. CASE pair[cur].away /\ AllowCreate(pair[cur])
  <2>1. PICK q : q = Counted(pair[cur])
    OBVIOUS
  <2>2. q.away = pair[cur].away /\ q.timer = pair[cur].timer /\ q.left = 0
    BY <1>2, <2>1 DEF Counted, PairStates
  <2>3. pair' = [pair EXCEPT ![cur] = q] /\ call' = At(c, "left", cur, 0)
    BY <1>3, <1>5, <2>1 DEF Decide
  <2>4. Only(c)' /\ call'[c].pc = "left" /\ call'[c].pair = cur
    BY <1>1, <2>3, OneBegins
  <2>5. Working(c, q)'
    BY <1>2, <1>3, <1>4, <2>2, <2>4 DEF Working
  <2>6. Placed(q)'
    BY <1>1, <1>3, <2>2 DEF Placed
  <2> QED BY <1>2, <1>3, <2>3, <2>4, <2>5, <2>6, Works
<1>6. CASE ~(pair[cur].away /\ AllowCreate(pair[cur]))
  <2>1. PICK q : q = pair[cur]
    OBVIOUS
  <2>2. pair' = [pair EXCEPT ![cur] = q] /\ call' = Ends(c) /\ ~q.away
    BY <1>3, <1>6, <2>1 DEF Decide
  <2>3. Calm'
    BY <1>1, <2>2, OneEnds
  <2>4. Resting(q)'
    BY <1>2, <1>4, <2>1, <2>2 DEF Resting
  <2>5. Placed(q)'
    BY <1>1, <1>3, <2>1 DEF Placed
  <2> QED BY <1>2, <1>3, <2>2, <2>3, <2>4, <2>5, Rests
<1> QED BY <1>5, <1>6

\* The row of a departure or of a first arrival is inserted.
LEMMA InsertBody ==
    ASSUME NoticeTypes, NoticeBody, Fine, Fine', NEW c \in Slots, Insert(c)
    PROVE  NoticeBody'
<1>1. /\ cur # 0 /\ Placed(pair[cur]) /\ Only(c)
      /\ Working(c, pair[cur]) /\ call[c].pair = cur
  BY TheCall DEF Insert, Busy
<1>2. /\ ~pair[cur].timer /\ pair[cur].left = 0 /\ OthersQuiet
      /\ cur \in Pairs /\ pair[cur] \in PairStates(Len(rows))
  BY <1>1, KnownPair DEF Working, NoticeBody
<1>3. call[c].pc \in Lines /\ rows \in Seq(Lines)
  BY DEF Insert, Lines, NoticeTypes
<1>4. rows' = Append(rows, call[c].pc) /\ UNCHANGED <<here, evicted, cur, pair>>
  BY DEF Insert, Fine
<1>5. /\ Len(rows') = Len(rows) + 1 /\ rows'[Len(rows')] = call[c].pc /\ rows' # <<>>
      /\ Len(rows) \in Nat
  BY <1>3, <1>4, LineWritten
<1>6. SaysIn' <=> call[c].pc # "left"
  BY <1>5 DEF SaysIn, Last
<1>7. PICK q : q = pair[cur]
  OBVIOUS
<1>8. pair' = [pair EXCEPT ![cur] = q] /\ Placed(q)'
  BY <1>1, <1>4, <1>7 DEF NoticeTypes, Placed
<1>9. CASE call[c].pc = "left"
  <2>1. call' = At(c, "wrote", cur, Len(rows) + 1)
    BY <1>1, <1>9 DEF Insert, Fine
  <2>2. /\ Only(c)' /\ call'[c].pc = "wrote" /\ call'[c].pair = cur
        /\ call'[c].row = Len(rows) + 1
    BY <1>1, <2>1, OneBegins
  <2>3. Working(c, q)'
    BY <1>2, <1>4, <1>5, <1>6, <1>7, <1>9, <2>2 DEF Working
  <2> QED BY <1>2, <1>4, <1>8, <2>2, <2>3, Works
<1>10. CASE call[c].pc = "joined"
  <2>1. call' = Ends(c) /\ ~q.away
    BY <1>1, <1>7, <1>10 DEF Insert, Fine, Working
  <2>2. Calm'
    BY <1>1, <2>1, OneEnds
  <2>3. Resting(q)'
    BY <1>2, <1>6, <1>7, <1>10, <2>1 DEF Resting
  <2> QED BY <1>2, <1>4, <1>8, <2>2, <2>3, Rests
<1> QED BY <1>9, <1>10 DEF Insert

\* The insertion returns: the object remembers the row, or a return came.
LEMMA WroteBody ==
    ASSUME NoticeTypes, NoticeBody, Fine, Fine', NEW c \in Slots, Wrote(c)
    PROVE  NoticeBody'
<1>1. /\ cur # 0 /\ Placed(pair[cur]) /\ Only(c)
      /\ Working(c, pair[cur]) /\ call[c].pair = cur
  BY TheCall DEF Wrote, Busy
<1>2. /\ ~pair[cur].timer /\ pair[cur].left = 0 /\ OthersQuiet
      /\ cur \in Pairs /\ pair[cur] \in PairStates(Len(rows))
      /\ call[c].row # 0 /\ call[c].row = Len(rows) /\ ~SaysIn
  BY <1>1, KnownPair DEF Working, Wrote, NoticeBody
<1>3. UNCHANGED <<here, evicted, cur, rows>> /\ (SaysIn' <=> SaysIn)
  BY DEF Wrote, SaysIn, Last
<1>4. PICK l : l = IF pair[cur].away THEN call[c].row ELSE 0
  OBVIOUS
<1>5. PICK q : q = [pair[cur] EXCEPT !.left = l, !.recent = TRUE]
  OBVIOUS
<1>6. q.away = pair[cur].away /\ q.timer = pair[cur].timer /\ q.left = l
  BY <1>2, <1>5 DEF PairStates
<1>7. pair' = [pair EXCEPT ![cur] = q] /\ Placed(q)'
  <2>1. pair' = [pair EXCEPT ![cur].left = l, ![cur].recent = TRUE]
    BY <1>1, <1>4 DEF Wrote
  <2>2. pair \in [Pairs -> PairStates(Len(rows))]
    BY DEF NoticeTypes
  <2>3. pair' = [pair EXCEPT ![cur] = q]
    BY <1>2, <1>5, <2>1, <2>2 DEF PairStates
  <2> QED BY <1>1, <1>3, <1>6, <2>3 DEF Placed
<1>8. CASE q.away
  <2>1. call' = Ends(c) /\ l = Len(rows) /\ l # 0
    BY <1>1, <1>2, <1>4, <1>6, <1>8 DEF Wrote
  <2>2. Calm' /\ Resting(q)'
    BY <1>1, <1>2, <1>3, <1>6, <1>8, <2>1, OneEnds DEF Resting
  <2> QED BY <1>2, <1>3, <1>7, <2>2, Rests
<1>9. CASE ~q.away
  <2>1. call' = At(c, "mark", cur, call[c].row) /\ l = 0
    BY <1>1, <1>4, <1>6, <1>9 DEF Wrote
  <2>2. /\ Only(c)' /\ call'[c].pc = "mark" /\ call'[c].pair = cur
        /\ call'[c].row = call[c].row
    BY <1>1, <2>1, OneBegins
  <2>3. Working(c, q)'
    BY <1>2, <1>3, <1>6, <1>9, <2>1, <2>2 DEF Working
  <2> QED BY <1>2, <1>3, <1>7, <2>2, <2>3, Works
<1> QED BY <1>8, <1>9

\* The row of the departure is rewritten for the return.
LEMMA MarkBody ==
    ASSUME NoticeTypes, NoticeBody, Fine, Fine', NEW c \in Slots, Mark(c)
    PROVE  NoticeBody'
<1>1. /\ cur # 0 /\ Placed(pair[cur]) /\ Only(c)
      /\ Working(c, pair[cur]) /\ call[c].pair = cur
  BY TheCall DEF Mark, Busy
<1>2. /\ ~pair[cur].timer /\ pair[cur].left = 0 /\ ~pair[cur].away /\ OthersQuiet
      /\ cur \in Pairs /\ call[c].row # 0 /\ call[c].row = Len(rows)
  BY <1>1, KnownPair DEF Working, Mark, NoticeBody
<1>3. /\ UNCHANGED <<here, evicted, cur, pair>> /\ call' = Ends(c)
      /\ rows' = [rows EXCEPT ![Len(rows)] = "back"]
  BY <1>2 DEF Mark
<1>4. Len(rows) \in 1..Len(rows) /\ rows \in Seq(Lines)
  BY <1>2 DEF NoticeTypes
<1>5. Len(rows') = Len(rows) /\ rows'[Len(rows')] = "back" /\ Len(rows') # 0
  BY <1>3, <1>4, <1>2, LineTurned
<1>6. SaysIn'
  BY <1>5 DEF SaysIn, Last
<1>7. PICK q : q = pair[cur]
  OBVIOUS
<1>8. pair' = [pair EXCEPT ![cur] = q] /\ Placed(q)'
  BY <1>1, <1>3, <1>7 DEF NoticeTypes, Placed
<1>9. Calm' /\ Resting(q)'
  BY <1>1, <1>2, <1>3, <1>6, <1>7, OneEnds DEF Resting
<1> QED BY <1>2, <1>3, <1>8, <1>9, Rests

\* The last row is read, to say or not that the person came.
LEMMA LastBody ==
    ASSUME NoticeTypes, NoticeBody, Fine, Fine', NEW c \in Slots, LastEvent(c)
    PROVE  NoticeBody'
<1>1. /\ cur # 0 /\ Placed(pair[cur]) /\ Only(c)
      /\ Working(c, pair[cur]) /\ call[c].pair = cur
  BY TheCall DEF LastEvent, Busy
<1>2. /\ ~pair[cur].timer /\ pair[cur].left = 0 /\ ~pair[cur].away /\ OthersQuiet
      /\ cur \in Pairs /\ pair[cur] \in PairStates(Len(rows)) /\ rows = <<>>
  BY <1>1, KnownPair DEF Working, LastEvent, NoticeBody
<1>3. /\ Announce(c, cur, pair[cur]) /\ ~refused'
      /\ UNCHANGED <<here, evicted, cur, rows>>
  BY <1>1, <1>2 DEF LastEvent, Fine
<1>4. AllowCreate(pair[cur]) /\ ~SaysIn'
  BY <1>2, <1>3 DEF Announce, SaysIn
<1>5. PICK q : q = Counted(pair[cur])
  OBVIOUS
<1>6. q.away = pair[cur].away /\ q.timer = pair[cur].timer /\ q.left = 0
  BY <1>2, <1>5 DEF Counted, PairStates
<1>7. pair' = [pair EXCEPT ![cur] = q] /\ call' = At(c, "joined", cur, 0)
  BY <1>3, <1>4, <1>5 DEF Announce
<1>8. Only(c)' /\ call'[c].pc = "joined" /\ call'[c].pair = cur
  BY <1>1, <1>7, OneBegins
<1>9. Working(c, q)'
  BY <1>2, <1>3, <1>4, <1>6, <1>8 DEF Working
<1>10. Placed(q)'
  BY <1>1, <1>3, <1>6 DEF Placed
<1> QED BY <1>2, <1>3, <1>7, <1>8, <1>9, <1>10, Works

-----------------------------------------------------------------------------
\* No step breaks it.
LEMMA NoticeInvNext ==
    NoticeTypes /\ NoticeInv /\ [NoticesNext]_noticesVars => NoticeInv'
<1> SUFFICES ASSUME NoticeTypes, NoticeInv, [NoticesNext]_noticesVars, Fine'
             PROVE  NoticeBody'
  BY DEF NoticeInv
<1>1. Fine /\ NoticeBody
  BY FineBefore DEF NoticeInv
<1>2. ASSUME NEW p \in Pairs, Age(p) \/ Forget(p)
      PROVE  NoticeBody'
  <2>1. UNCHANGED <<here, evicted, cur, call, rows, quitting>>
    BY <1>2 DEF Age, Forget
  <2>2. \A o \in Pairs : /\ pair'[o].timer = pair[o].timer
                         /\ pair'[o].away = pair[o].away
                         /\ pair'[o].left = pair[o].left
    <3>1. pair \in [Pairs -> PairStates(Len(rows))]
      BY DEF NoticeTypes
    <3>2. CASE Age(p)
      BY <3>1, <3>2 DEF Age, PairStates
    <3>3. CASE Forget(p)
      BY <3>1, <3>3 DEF Forget, PairStates
    <3> QED BY <1>2, <3>2, <3>3
  <2> QED BY <1>1, <2>1, <2>2, NothingSaid
<1>3. CASE QuitAsk
  <2>1. UNCHANGED <<here, evicted, cur, call, rows, pair>>
    BY <1>3 DEF QuitAsk
  <2>2. quitting' = "present" => here
    BY <1>3 DEF QuitAsk
  <2> QED BY <1>1, <2>1, <2>2, NothingSaid
<1>4. CASE Rejoin \/ UNCHANGED noticesVars
  <2>1. UNCHANGED <<here, evicted, cur, call, rows, pair, quitting>>
    BY <1>4 DEF Rejoin, noticesVars
  <2> QED BY <1>1, <2>1, NothingSaid
<1>5. ~ClearRoom /\ ~Restart /\ \A c \in Slots : ~Fails(c)
  BY DEF ClearRoom, Restart, Fails, Fine
<1>6. CASE Evict
  <2>1. here' = FALSE /\ evicted' = TRUE /\ UNCHANGED <<cur, call, rows, pair, quitting>>
    BY <1>6 DEF Evict
  <2> QED BY <1>1, <2>1, NothingSaid
<1> QED BY <1>1, <1>2, <1>3, <1>4, <1>5, <1>6, ArriveBody, LeftBody, QuitBody,
           FireBody,
           JoinedBody, InsertBody, WroteBody, MarkBody, LastBody DEF NoticesNext

\* In every state the objects of the chat, the calls in flight and the rows are
\* of the shapes that the service gives them, and an object counts no more rows
\* than it may write (watch-party.chat-events.ts).
THEOREM NoticeTypesHold == NoticesSpec => []NoticesTypeOK
<1>1. NoticesInit => NoticeTypes /\ TimersMade
  BY NoticesStart DEF NoticesInit, Fresh, TimersMade
<1>2. NoticeTypes /\ TimersMade /\ [NoticesNext]_noticesVars
         => (NoticeTypes /\ TimersMade)'
  BY NoticeTypesNext, TimersMadeNext
<1> QED BY <1>1, <1>2, NoticeTypesOK, PTL DEF NoticesSpec

\* When nothing is under way the last line about the person says where they are,
\* and without a line they have never been there, unless two calls overlapped or
\* a row was refused.  A return that comes while the row of the departure is being
\* written is not lost; who was evicted may still be said to be in until they come
\* again, and nobody who is there is said to have left (publishLeft, handleArrival,
\* evictRuntime).
THEOREM LastLineIsTrue == NoticesSpec => []LastLineTrue
<1>1. NoticesInit => NoticeTypes /\ TimersMade /\ NoticeInv
  <2>1. NoticesInit => NoticeTypes /\ TimersMade
    BY NoticesStart DEF NoticesInit, Fresh, TimersMade
  <2>2. NoticesInit => Stranger /\ OthersQuiet
    BY DEF NoticesInit, Idle, Fresh, Stranger, Calm, Busy, OthersQuiet
  <2> QED BY <2>1, <2>2 DEF NoticeInv, NoticeBody
<1>2. NoticeTypes /\ TimersMade /\ NoticeInv /\ [NoticesNext]_noticesVars
         => (NoticeTypes /\ TimersMade /\ NoticeInv)'
  BY NoticeTypesNext, TimersMadeNext, NoticeInvNext
<1>3. NoticeTypes /\ NoticeInv => LastLineTrue
  <2> SUFFICES ASSUME NoticeTypes, NoticeInv, Settled, ~crossed, ~refused
               PROVE  (here => SaysIn) /\ (SaysIn => here \/ evicted)
    BY DEF LastLineTrue
  <2>1. NoticeBody /\ Calm
    BY DEF NoticeInv, Fine, Settled, Free, Calm, Busy
  <2>2. CASE Stranger
    BY <2>2 DEF Stranger, SaysIn
  <2>3. CASE Known
    <3>1. cur \in Pairs
      BY <2>3, KnownPair DEF Known
    <3>2. Resting(pair[cur]) /\ ~pair[cur].timer
      BY <2>1, <2>3, <3>1 DEF Known, Only, Calm, Settled
    <3> QED BY <2>3, <3>2 DEF Known, Resting, Placed
  <2> QED BY <2>1, <2>2, <2>3 DEF NoticeBody
<1> QED BY <1>1, <1>2, <1>3, PTL DEF NoticesSpec

=============================================================================
