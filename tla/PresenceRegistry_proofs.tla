------------------------ MODULE PresenceRegistry_proofs ------------------------
(***************************************************************************)
(* What holds of PresenceRegistry for every set of users and sockets, and  *)
(* all lengths of its timers: who is shown as online is online or in the   *)
(* grace of a break, and no device outlives its socket.                    *)
(***************************************************************************)
EXTENDS PresenceRegistry, TLAPS

States == {"none", "idle", "active"}

\* The types the proofs need.
RType == /\ device \in [Sockets -> States]
         /\ link \in [Sockets -> BOOLEAN] /\ known \in [Sockets -> BOOLEAN]
         /\ leaving \in [Users -> {None} \cup Nat]
         /\ online \subseteq Users

\* A device belongs to a socket that is connected and whose user is known: that
\* its user is known is why the closing of the socket finds it.
Held == \A s \in Sockets : device[s] # "none" => link[s] /\ known[s]

\* The grace of a break is counted from the loss of the last active device, and
\* nobody has been given a time of their own making.
Timed == /\ \A u \in Users :
                /\ leaving[u] # None => leaving[u] <= Debounce
                /\ seen[u] = IF leaving[u] = None THEN 0 ELSE leaving[u]
         /\ misdated = {}

RInv == RType /\ OnlineExplained /\ Held /\ Timed

\* The constants: ages are numbers other than None.
LEMMA Constants == /\ Owner \in [Sockets -> Users]
                   /\ Debounce \in Nat /\ Debounce # None /\ AwayAfter \in Nat
                   /\ \A n \in Nat : n # None /\ n + 1 \in Nat
                   /\ 0 \in Nat
BY PresenceAssumption DEF PresenceAssumption, None

\* The heart of the registry: whatever users evaluate looks at, for whatever
\* reason, if only their devices changed then who is online is explained again.
LEMMA EvaluateExplains ==
    ASSUME RType, OnlineExplained, Timed,
           NEW d \in [Sockets -> States], NEW us \in SUBSET Users,
           \A s \in Sockets : Owner[s] \notin us => d[s] = device[s],
           device' = d, NEW reason, NEW at \in Nat,
           at = 0 \/ (at <= AwayAfter + 1 /\ \A u \in us : HasActive(device, u)),
           Evaluate(d, us, reason, at)
    PROVE  /\ OnlineExplained' /\ Timed'
           /\ device' \in [Sockets -> States]
           /\ leaving' \in [Users -> {None} \cup Nat]
           /\ online' \subseteq Users
<1> DEFINE back == {u \in us : HasActive(d, u)}
           quiet == (us \ back) \cap online
           gone == IF reason = "disconnect" THEN {} ELSE quiet
<1>1. /\ online' = (online \cup back) \ gone
      /\ leaving' = [u \in Users |->
             IF u \in back \cup gone THEN None
             ELSE IF u \in quiet THEN BreakAge(u) ELSE leaving[u]]
      /\ seen' = [u \in Users |->
             IF u \in back \cup gone \/ HasActive(device, u) THEN 0 ELSE seen[u]]
      /\ misdated' = misdated \cup
             {u \in gone : at > IF HasActive(device, u) THEN AwayAfter + 1 ELSE seen[u]}
  BY Zenon DEF Evaluate, Cancelled, GoOffline
<1>2. \A u \in Users : BreakAge(u) \in Nat /\ BreakAge(u) # None
  BY Constants DEF BreakAge, RType
<1>3. \A u \in Users \ us : HasActive(d, u) <=> HasActive(device, u)
  BY DEF HasActive, SocketsOf
<1>4. ASSUME NEW u \in Users
      PROVE  /\ u \in online' <=> HasActive(d, u) \/ leaving'[u] # None
             /\ leaving'[u] # None => ~HasActive(d, u)
  <2>1. /\ u \in online <=> HasActive(device, u) \/ leaving[u] # None
        /\ leaving[u] # None => ~HasActive(device, u)
    BY Zenon DEF OnlineExplained
  <2>2. leaving'[u] = IF u \in back \cup gone THEN None
                      ELSE IF u \in quiet THEN BreakAge(u) ELSE leaving[u]
    BY <1>1, Zenon
  <2>3. CASE u \notin us
    BY <1>1, <1>3, <2>1, <2>2, <2>3, Zenon
  <2>4. CASE u \in back
    BY <1>1, <2>2, <2>4, Zenon
  <2>5. CASE u \in us \ back /\ u \notin online
    BY <1>1, <2>1, <2>2, <2>5, Zenon
  <2>6. CASE u \in quiet
    BY <1>1, <1>2, <2>2, <2>6, Zenon
  <2> QED BY <2>3, <2>4, <2>5, <2>6, Zenon
<1>5. OnlineExplained'
  BY <1>4 DEF OnlineExplained, HasActive, SocketsOf
<1>6. leaving' \in [Users -> {None} \cup Nat] /\ online' \subseteq Users
  <2>1. \A u \in Users : leaving[u] \in {None} \cup Nat
    BY DEF RType
  <2>2. \A u \in Users : (IF u \in back \cup gone THEN None
             ELSE IF u \in quiet THEN BreakAge(u) ELSE leaving[u]) \in {None} \cup Nat
    BY <1>2, <2>1
  <2> QED BY <1>1, <2>2, Zenon DEF RType
<1>7. ASSUME NEW u \in Users
      PROVE  /\ leaving'[u] # None => leaving'[u] <= Debounce
             /\ seen'[u] = IF leaving'[u] = None THEN 0 ELSE leaving'[u]
  <2>1. /\ u \in online <=> HasActive(device, u) \/ leaving[u] # None
        /\ leaving[u] # None => ~HasActive(device, u)
        /\ leaving[u] # None => leaving[u] <= Debounce
        /\ seen[u] = IF leaving[u] = None THEN 0 ELSE leaving[u]
    BY Zenon DEF OnlineExplained, Timed
  <2>2. /\ leaving'[u] = IF u \in back \cup gone THEN None
                         ELSE IF u \in quiet THEN BreakAge(u) ELSE leaving[u]
        /\ seen'[u] = IF u \in back \cup gone \/ HasActive(device, u) THEN 0
                      ELSE seen[u]
    BY <1>1, Zenon
  <2>3. CASE u \in back \cup gone
    BY <2>2, <2>3, Zenon
  <2>4. CASE u \notin back \cup gone /\ u \in quiet
    <3>1. CASE HasActive(device, u)
      BY <2>1, <2>2, <2>4, <3>1, Constants DEF BreakAge
    <3>2. CASE ~HasActive(device, u)
      <4>1. leaving[u] # None
        BY <2>1, <2>4, <3>2
      <4> QED BY <2>1, <2>2, <2>4, <3>2, <4>1 DEF BreakAge
    <3> QED BY <3>1, <3>2
  <2>5. CASE u \notin back \cup gone /\ u \notin quiet
    BY <2>1, <2>2, <2>5, Zenon
  <2> QED BY <2>3, <2>4, <2>5, Zenon
<1>8. misdated' = {}
  <2>1. ASSUME NEW u \in gone
        PROVE  ~(at > IF HasActive(device, u) THEN AwayAfter + 1 ELSE seen[u])
    <3>1. u \in us /\ u \in Users
      BY Zenon
    <3>2. seen[u] \in Nat
      <4>1. leaving[u] \in {None} \cup Nat
        BY <3>1 DEF RType
      <4> QED BY <3>1, <4>1 DEF Timed
    <3> HIDE DEF gone, quiet, back
    <3>3. CASE at = 0
      BY <3>2, <3>3, Constants
    <3>4. CASE at # 0
      BY <3>1, <3>4, Constants
    <3> QED BY <3>3, <3>4
  <2> HIDE DEF gone
  <2>2. {u \in gone : at > IF HasActive(device, u) THEN AwayAfter + 1 ELSE seen[u]} = {}
    BY <2>1, Zenon
  <2> QED BY <1>1, <2>2 DEF Timed
<1>9. Timed'
  BY <1>7, <1>8, Zenon DEF Timed
<1> QED BY <1>5, <1>6, <1>9

-----------------------------------------------------------------------------
\* What the registry says of its users, with the types of what it keeps.
Explained == /\ device \in [Sockets -> States]
             /\ leaving \in [Users -> {None} \cup Nat]
             /\ online \subseteq Users
             /\ OnlineExplained /\ Timed

\* Nothing is published while the active devices stay the same.
LEMMA SameActive ==
    ASSUME Explained, device' \in [Sockets -> States],
           \A t \in Sockets : device'[t] = "active" <=> device[t] = "active",
           UNCHANGED published
    PROVE  Explained'
BY Zenon DEF Explained, OnlineExplained, Timed, HasActive, SocketsOf, published

LEMMA SetActiveExplains ==
    ASSUME RInv, NEW s \in Sockets, NEW active \in BOOLEAN, SetActive(s, active)
    PROVE  /\ Explained'
           /\ \A t \in Sockets \ {s} : device'[t] = device[t]
<1> DEFINE d == [device EXCEPT ![s] = IF active THEN "active" ELSE "idle"]
<1>1. /\ device' = d
      /\ Evaluate(d, {Owner[s]}, IF active THEN "active" ELSE "away", 0)
  BY Zenon DEF SetActive
<1>2. /\ d \in [Sockets -> States]
      /\ \A t \in Sockets \ {s} : d[t] = device[t]
  BY DEF RInv, RType, States
<1>3. {Owner[s]} \in SUBSET Users
  BY Constants
<1>4. \A t \in Sockets : Owner[t] \notin {Owner[s]} => d[t] = device[t]
  BY <1>2, Zenon
<1> HIDE DEF d
<1>5. Explained'
  BY <1>1, <1>2, <1>3, <1>4, Constants, EvaluateExplains, Zenon DEF RInv, Explained
<1> QED BY <1>1, <1>2, <1>5, Zenon

LEMMA ForgetExplains ==
    ASSUME RInv, NEW s \in Sockets, Forget(s)
    PROVE  /\ Explained' /\ device'[s] = "none"
           /\ \A t \in Sockets \ {s} : device'[t] = device[t]
<1> DEFINE d == [device EXCEPT ![s] = "none"]
<1>1. /\ device' = d
      /\ IF device[s] = "none" THEN UNCHANGED <<published, writer>>
         ELSE Evaluate(d, {Owner[s]}, "disconnect", 0)
  BY Zenon DEF Forget
<1>2. /\ d \in [Sockets -> States] /\ d[s] = "none"
      /\ \A t \in Sockets \ {s} : d[t] = device[t]
  BY DEF RInv, RType, States
<1>3. {Owner[s]} \in SUBSET Users
  BY Constants
<1>4. \A t \in Sockets : Owner[t] \notin {Owner[s]} => d[t] = device[t]
  BY <1>2, Zenon
<1> HIDE DEF d
<1>5. CASE device[s] = "none"
  <2>1. \A t \in Sockets : device'[t] = "active" <=> device[t] = "active"
    BY <1>1, <1>2, <1>5, Zenon
  <2>2. Explained /\ UNCHANGED published
    BY <1>1, <1>5 DEF published, RInv, RType, Explained
  <2> QED BY <1>1, <1>2, <2>1, <2>2, SameActive, Zenon
<1>6. CASE device[s] # "none"
  <2>1. Explained'
    BY <1>1, <1>2, <1>3, <1>4, <1>6, Constants, EvaluateExplains, Zenon DEF RInv, Explained
  <2> QED BY <1>1, <1>2, <2>1, Zenon
<1> QED BY <1>5, <1>6

\* A handler that goes on changes the device of its socket only, and only if the
\* socket is still there.
LEMMA HandleExplains ==
    ASSUME RInv, NEW s \in Sockets, NEW k \in {"connect", "active", "away"},
           Handle(s, k)
    PROVE  /\ Explained'
           /\ \A t \in Sockets : t # s \/ ~link[s] => device'[t] = device[t]
<1>0. Explained
  BY DEF RInv, RType, Explained
<1>1. CASE ~link[s]
  <2>1. UNCHANGED <<device, published>>
    BY <1>1 DEF Handle, Alive, published
  <2> QED BY <1>0, <2>1, SameActive, Zenon DEF Explained
<1>2. CASE link[s] /\ k = "connect"
  <2>1. device' = Register(s) /\ UNCHANGED published
    BY <1>2 DEF Handle, Alive, published
  <2>2. /\ device' \in [Sockets -> States]
        /\ \A t \in Sockets : device'[t] = "active" <=> device[t] = "active"
        /\ \A t \in Sockets \ {s} : device'[t] = device[t]
    BY <2>1 DEF Register, RInv, RType, States
  <2>3. Explained'
    BY <1>0, <2>1, <2>2, SameActive, Zenon
  <2> QED BY <1>2, <2>2, <2>3, Zenon
<1>3. CASE link[s] /\ k # "connect"
  <2>1. SetActive(s, k = "active")
    BY <1>3, Zenon DEF Handle, Alive
  <2>2. (k = "active") \in BOOLEAN
    OBVIOUS
  <2>3. Explained' /\ \A t \in Sockets \ {s} : device'[t] = device[t]
    BY <2>1, <2>2, SetActiveExplains, Zenon
  <2> QED BY <1>3, <2>3, Zenon
<1> QED BY <1>1, <1>2, <1>3

LEMMA FrameExplains ==
    ASSUME RInv, NEW s \in Sockets, NEW active \in BOOLEAN, Frame(s, active),
           link[s]
    PROVE  /\ Explained'
           /\ \A t \in Sockets : t # s \/ ~known[s] => device'[t] = device[t]
<1>1. CASE known[s]
  <2>1. Handle(s, IF active THEN "active" ELSE "away")
    BY <1>1, Zenon DEF Frame
  <2>2. (IF active THEN "active" ELSE "away") \in {"connect", "active", "away"}
    OBVIOUS
  <2> QED BY <1>1, <2>1, <2>2, HandleExplains, Zenon
<1>2. CASE ~known[s]
  <2>1. UNCHANGED <<device, published>>
    BY <1>2 DEF Frame, published
  <2>2. Explained
    BY DEF RInv, RType, Explained
  <2> QED BY <2>1, <2>2, SameActive, Zenon DEF Explained
<1> QED BY <1>1, <1>2

\* The server closes a socket: whose user is known, their device goes with it;
\* and whose user is not known has no device.
LEMMA CloseExplains ==
    ASSUME RInv, NEW s \in Sockets, Close(s)
    PROVE  /\ Explained' /\ device'[s] = "none"
           /\ \A t \in Sockets \ {s} : device'[t] = device[t]
           /\ link' = [link EXCEPT ![s] = FALSE]
<1>1. CASE known[s]
  BY <1>1, ForgetExplains, Zenon DEF Close
<1>2. CASE ~known[s]
  <2>1. UNCHANGED <<device, published>> /\ device[s] = "none"
    BY <1>2 DEF Close, published, RInv, Held
  <2>2. Explained
    BY DEF RInv, RType, Explained
  <2> QED BY <2>1, <2>2, SameActive, Zenon DEF Explained, Close
<1> QED BY <1>1, <1>2

LEMMA SweepExplains ==
    ASSUME RInv, Sweep
    PROVE  /\ Explained'
           /\ \A t \in Sockets : device'[t] # "none" => device[t] # "none"
<1> DEFINE d == [s \in Sockets |-> IF Silent(s) THEN "idle" ELSE device[s]]
           us == {Owner[s] : s \in {t \in Sockets : Silent(t)}}
<1>1. device' = d /\ Evaluate(d, us, "stale", AwayAfter + 1)
  BY Zenon DEF Sweep
<1>2. d \in [Sockets -> States]
  BY DEF RInv, RType, States
<1>3. us \in SUBSET Users
  BY Constants
<1>4. \A t \in Sockets : Owner[t] \notin us => d[t] = device[t]
  OBVIOUS
<1>5. \A t \in Sockets : d[t] # "none" => device[t] # "none"
  BY DEF Silent
<1>6. /\ \A u \in us : HasActive(device, u)
      /\ AwayAfter + 1 \in Nat /\ AwayAfter + 1 <= AwayAfter + 1
  BY Constants DEF Silent, HasActive, SocketsOf
<1> HIDE DEF d, us
<1>7. Explained'
  BY <1>1, <1>2, <1>3, <1>4, <1>6, EvaluateExplains, Zenon DEF RInv, Explained
<1> QED BY <1>1, <1>5, <1>7, Zenon

\* The timer of a break: its user goes offline, and nobody else.
LEMMA GraceExplains ==
    ASSUME RInv, NEW u \in Users, GraceOver(u)
    PROVE  Explained'
<1> DEFINE gone == {u} \cap {v \in online : ~HasActive(device, v)}
<1>1. /\ leaving[u] = Debounce /\ device' = device
      /\ leaving' = [leaving EXCEPT ![u] = None] /\ online' = online \ gone
  BY Zenon DEF GraceOver
<1>2. \A v \in Users : /\ v \in online <=> HasActive(device, v) \/ leaving[v] # None
                       /\ leaving[v] # None => ~HasActive(device, v)
  BY Zenon DEF RInv, OnlineExplained
<1>3. gone = {u} /\ ~HasActive(device, u)
  BY <1>1, <1>2, Constants
<1>4. /\ leaving' \in [Users -> {None} \cup Nat] /\ leaving'[u] = None
      /\ \A v \in Users \ {u} : leaving'[v] = leaving[v]
  BY <1>1 DEF RInv, RType
<1>5. \A v \in Users : /\ v \in online' <=> HasActive(device, v) \/ leaving'[v] # None
                       /\ leaving'[v] # None => ~HasActive(device, v)
  BY <1>1, <1>2, <1>3, <1>4, Zenon
<1>6. OnlineExplained'
  BY <1>1, <1>5, Zenon DEF OnlineExplained, HasActive, SocketsOf
<1>7. Timed'
  <2>1. /\ seen' = [v \in Users |-> IF v \in gone THEN 0 ELSE seen[v]]
        /\ misdated' = misdated \cup
               {v \in gone : Debounce > IF HasActive(device, v) THEN AwayAfter + 1
                                       ELSE seen[v]}
    BY <1>1, Zenon DEF GraceOver, GoOffline
  <2>2. seen[u] = Debounce
    BY <1>1, Constants DEF RInv, Timed
  <2>3. misdated' = {}
    <3>1. ~(Debounce > IF HasActive(device, u) THEN AwayAfter + 1 ELSE seen[u])
      BY <1>3, <2>2, Constants
    <3> QED BY <1>3, <2>1, <3>1 DEF RInv, Timed
  <2>4. ASSUME NEW v \in Users
        PROVE  /\ leaving'[v] # None => leaving'[v] <= Debounce
               /\ seen'[v] = IF leaving'[v] = None THEN 0 ELSE leaving'[v]
    <3> HIDE DEF gone
    <3>1. CASE v = u
      BY <1>3, <1>4, <2>1, <3>1
    <3>2. CASE v # u
      BY <1>3, <1>4, <2>1, <3>2 DEF RInv, Timed
    <3> QED BY <3>1, <3>2
  <2> QED BY <2>3, <2>4, Zenon DEF Timed
<1> QED BY <1>1, <1>4, <1>6, <1>7 DEF Explained, RInv, RType

-----------------------------------------------------------------------------
(* The invariant.                                                          *)

LEMMA InitInv == Init => RInv
BY DEF Init, RInv, RType, States, OnlineExplained, Held, Timed, HasActive,
       SocketsOf

LEMMA NextInv == RInv /\ [Next]_vars => RInv'
<1> SUFFICES ASSUME RInv, [Next]_vars PROVE RInv'
  OBVIOUS
<1> USE DEF RInv, RType
<1>0. Explained
  BY DEF Explained
<1>1. ASSUME NEW s \in Sockets, NEW visible \in BOOLEAN, Connect(s, visible)
      PROVE  RInv'
  <2>1. /\ UNCHANGED <<device, published>> /\ device[s] = "none"
        /\ link' = [link EXCEPT ![s] = TRUE] /\ known' = [known EXCEPT ![s] = FALSE]
    BY <1>1 DEF Connect, published, Held
  <2>2. Explained'
    BY <1>0, <2>1, SameActive, Zenon
  <2>3. Held'
    BY <2>1 DEF Held
  <2> QED BY <2>1, <2>2, <2>3 DEF Explained
<1>2. ASSUME NEW s \in Sockets, NEW frozen \in BOOLEAN, Hide(s, frozen)
      PROVE  RInv'
  <2>1. UNCHANGED <<link, known>> /\ link[s]
    BY <1>2 DEF Hide
  <2>2. CASE frozen
    <3>1. UNCHANGED <<device, published>>
      BY <1>2, <2>2 DEF Hide, published
    <3>2. Explained'
      BY <1>0, <3>1, SameActive, Zenon
    <3> QED BY <2>1, <3>1, <3>2 DEF Explained, Held
  <2>3. CASE ~frozen
    <3>1. Frame(s, FALSE)
      BY <1>2, <2>3 DEF Hide
    <3>2. /\ Explained'
          /\ \A t \in Sockets : t # s \/ ~known[s] => device'[t] = device[t]
      BY <2>1, <3>1, FrameExplains, Zenon
    <3> QED BY <2>1, <3>2 DEF Explained, Held
  <2> QED BY <2>2, <2>3
<1>3. ASSUME NEW s \in Sockets, Disconnect(s) PROVE RInv'
  <2>1. Close(s) /\ known' = known
    BY <1>3 DEF Disconnect, handlers
  <2>2. /\ Explained' /\ device'[s] = "none"
        /\ \A t \in Sockets \ {s} : device'[t] = device[t]
        /\ link' = [link EXCEPT ![s] = FALSE]
    BY <2>1, CloseExplains, Zenon
  <2> QED BY <2>1, <2>2 DEF Explained, Held
<1>4. ASSUME NEW s \in Sockets, Show(s) \/ Beat(s) PROVE RInv'
  <2>1. UNCHANGED <<link, known>> /\ link[s] /\ Frame(s, TRUE)
    BY <1>4 DEF Show, Beat, Due, page
  <2>2. /\ Explained'
        /\ \A t \in Sockets : t # s \/ ~known[s] => device'[t] = device[t]
    BY <2>1, FrameExplains, Zenon
  <2> QED BY <2>1, <2>2 DEF Explained, Held
<1>5. ASSUME NEW s \in Sockets, Beacon(s) PROVE RInv'
  <2>1. UNCHANGED <<link, known>>
    BY <1>5 DEF Beacon, handlers
  <2>2. CASE device[s] # "none" /\ SetActive(s, FALSE)
    <3>1. Explained' /\ \A t \in Sockets \ {s} : device'[t] = device[t]
      BY <2>2, SetActiveExplains, Zenon
    <3> QED BY <2>1, <2>2, <3>1 DEF Explained, Held
  <2>3. CASE UNCHANGED <<device, beat, published, writer>>
    <3>1. UNCHANGED <<device, published>>
      BY <2>3 DEF published
    <3>2. Explained'
      BY <1>0, <3>1, SameActive, Zenon
    <3> QED BY <2>1, <3>1, <3>2 DEF Explained, Held
  <2> QED BY <1>5, <2>2, <2>3 DEF Beacon
<1>6. ASSUME NEW s \in Sockets, NEW k \in {"connect", "active", "away"}, Resolve(s, k)
      PROVE  RInv'
  <2>1. /\ Handle(s, k) /\ link' = link /\ known' = [known EXCEPT ![s] = TRUE]
    BY <1>6 DEF Resolve, page
  <2>2. /\ Explained'
        /\ \A t \in Sockets : t # s \/ ~link[s] => device'[t] = device[t]
    BY <2>1, HandleExplains, Zenon
  <2> QED BY <2>1, <2>2 DEF Explained, Held
<1>7. ASSUME NEW s \in Sockets, NEW k \in {"connect", "active", "away"},
             ResolveFails(s, k)
      PROVE  RInv'
  <2>1. known' = known
    BY <1>7 DEF ResolveFails
  <2>2. CASE k = "connect" /\ link[s]
    <3>1. Close(s)
      BY <1>7, <2>2 DEF ResolveFails
    <3>2. /\ Explained' /\ device'[s] = "none"
          /\ \A t \in Sockets \ {s} : device'[t] = device[t]
          /\ link' = [link EXCEPT ![s] = FALSE]
      BY <3>1, CloseExplains, Zenon
    <3> QED BY <2>1, <3>2 DEF Explained, Held
  <2>3. CASE ~(k = "connect" /\ link[s])
    <3>1. UNCHANGED <<device, published, link>>
      BY <1>7, <2>3 DEF ResolveFails, published
    <3>2. Explained'
      BY <1>0, <3>1, SameActive, Zenon
    <3> QED BY <2>1, <3>1, <3>2 DEF Explained, Held
  <2> QED BY <2>2, <2>3
<1>8. ASSUME NEW u \in Users, GraceOver(u) PROVE RInv'
  <2>1. Explained'
    BY <1>8, GraceExplains, Zenon
  <2> QED BY <1>8, <2>1 DEF GraceOver, Explained, Held, page, handlers
<1>9. ASSUME NEW u \in Users,
             \/ WriteLater(u)
             \/ \E stamp \in Stamps : Written(u, stamp) \/ WriteFails(u, stamp)
      PROVE  RInv'
  <2>1. UNCHANGED <<device, published, link, known>>
    BY <1>9 DEF WriteLater, Written, WriteFails, page, handlers, published
  <2>2. Explained'
    BY <1>0, <2>1, SameActive, Zenon
  <2> QED BY <2>1, <2>2 DEF Explained, Held
<1>10. CASE Sweep
  <2>1. /\ Explained'
        /\ \A t \in Sockets : device'[t] # "none" => device[t] # "none"
    BY <1>10, SweepExplains, Zenon
  <2> QED BY <1>10, <2>1 DEF Sweep, Explained, Held, page, handlers
<1>11. CASE Tick
  <2>1. /\ UNCHANGED <<device, online, link, known, misdated>>
        /\ leaving' = [u \in Users |-> IF leaving[u] = None THEN None ELSE leaving[u] + 1]
        /\ seen' = [u \in Users |->
               IF u \in online /\ ~HasActive(device, u) THEN seen[u] + 1 ELSE 0]
        /\ \A u \in Users : leaving[u] < Debounce
    BY <1>11 DEF Tick, page, handlers
  <2>2. /\ leaving' \in [Users -> {None} \cup Nat]
        /\ \A u \in Users : leaving'[u] # None <=> leaving[u] # None
    BY <2>1, Constants
  <2>3. OnlineExplained'
    BY <2>1, <2>2, Zenon DEF OnlineExplained, HasActive, SocketsOf
  <2>4. ASSUME NEW u \in Users
        PROVE  /\ leaving'[u] # None => leaving'[u] <= Debounce
               /\ seen'[u] = IF leaving'[u] = None THEN 0 ELSE leaving'[u]
    <3>1. /\ u \in online <=> HasActive(device, u) \/ leaving[u] # None
          /\ leaving[u] # None => ~HasActive(device, u)
          /\ leaving[u] \in {None} \cup Nat
      BY DEF OnlineExplained
    <3>2. CASE leaving[u] = None
      BY <2>1, <3>1, <3>2
    <3>3. CASE leaving[u] # None
      <4>1. leaving[u] \in Nat /\ leaving'[u] = leaving[u] + 1 /\ leaving'[u] # None
        BY <2>1, <3>1, <3>3, Constants
      <4>2. seen'[u] = leaving[u] + 1
        BY <2>1, <3>1, <3>3 DEF Timed
      <4> QED BY <2>1, <4>1, <4>2, Constants
    <3> QED BY <3>2, <3>3
  <2>5. Timed'
    BY <2>1, <2>4 DEF Timed
  <2> QED BY <2>1, <2>2, <2>3, <2>5 DEF Held
<1>12. ASSUME NEW crash \in BOOLEAN, Restart(crash) PROVE RInv'
  BY <1>12 DEF Restart, States, OnlineExplained, Held, Timed, HasActive, SocketsOf
<1>13. CASE UNCHANGED vars
  <2>1. UNCHANGED <<device, published, link, known>>
    BY <1>13 DEF vars, page, handlers
  <2>2. Explained'
    BY <1>0, <2>1, SameActive, Zenon
  <2> QED BY <2>1, <2>2 DEF Explained, Held
<1> QED
  BY <1>1, <1>2, <1>3, <1>4, <1>5, <1>6, <1>7, <1>8, <1>9, <1>10, <1>11, <1>12,
     <1>13, Zenon DEF Next

-----------------------------------------------------------------------------
(* The theorems.                                                           *)

\* Whoever is shown as online has an active device, or is in the grace of a
\* break; and nobody in that grace has an active device.
THEOREM Explanation == Spec => []OnlineExplained
<1>1. RInv => OnlineExplained
  BY DEF RInv
<1> QED BY <1>1, InitInv, NextInv, PTL DEF Spec

\* No device outlives its socket.
THEOREM NoGhosts == Spec => []NoGhost
<1>1. RInv => NoGhost
  BY DEF RInv, Held, NoGhost
<1> QED BY <1>1, InitInv, NextInv, PTL DEF Spec

\* Whoever has lost their last active device is shown as online for the debounce
\* and no longer, whatever their other sockets do.
THEOREM GraceEnds == Spec => []GraceBounded
<1>1. ASSUME RInv, NEW u \in Users PROVE seen[u] <= Debounce
  <2>1. /\ leaving[u] # None => leaving[u] <= Debounce
        /\ seen[u] = IF leaving[u] = None THEN 0 ELSE leaving[u]
    BY <1>1, Zenon DEF RInv, Timed
  <2>2. 0 <= Debounce
    BY Constants
  <2> QED BY <2>1, <2>2, Zenon
<1>2. RInv => GraceBounded
  BY <1>1, Zenon DEF GraceBounded
<1> QED BY <1>2, InitInv, NextInv, PTL DEF Spec

\* The time somebody is said to be last seen is not before the time their last
\* active device went.
THEOREM TimesAreTrue == Spec => []LastSeenTrue
<1>1. RInv => LastSeenTrue
  BY DEF RInv, Timed, LastSeenTrue
<1> QED BY <1>1, InitInv, NextInv, PTL DEF Spec

-----------------------------------------------------------------------------
(* LastSeenWriter.  A time that is not lost is in exactly one place: in the   *)
(* table, in the entry that waits, or in the only update under way.           *)

InTable(u) == waiting[u] = "none" /\ writes[u] = {} /\ row[u] = "new"
InEntry(u) == waiting[u] = "new" /\ "new" \notin writes[u]
InUpdate(u) == waiting[u] = "none" /\ writes[u] = {"new"}

WType == /\ waiting \in [Users -> {"none", "new"}]
         /\ writes \in [Users -> SUBSET Stamps]
         /\ row \in [Users -> Stamps]
         /\ lost \in [Users -> BOOLEAN]

WInv == /\ WType
        /\ \A u \in Users : lost[u] \/ InTable(u) \/ InEntry(u) \/ InUpdate(u)

LEMMA ScheduleSaves == ASSUME WInv, NEW gone, Schedule(gone) PROVE WInv'
<1> DEFINE Free(u) == waiting[u] = "none" /\ wrote[u] = MinInterval
           Out(u) == IF writes[u] = {} THEN {} ELSE {"old"}
<1>1. /\ waiting' = [u \in Users |->
              IF u \notin gone \/ Free(u) THEN waiting[u]
              ELSE IF waiting[u] = "none" THEN "new" ELSE "new"]
      /\ writes' = [u \in Users |->
              IF u \notin gone THEN writes[u]
              ELSE IF Free(u) THEN Out(u) \cup {"new"} ELSE Out(u)]
      /\ row' = [u \in Users |-> IF u \in gone THEN "old" ELSE row[u]]
      /\ lost' = [u \in Users |->
              IF u \notin gone THEN lost[u] ELSE Free(u) /\ Out(u) # {}]
  BY Zenon DEF Schedule, Kept
<1>2. /\ waiting \in [Users -> {"none", "new"}] /\ writes \in [Users -> SUBSET Stamps]
      /\ row \in [Users -> Stamps] /\ lost \in [Users -> BOOLEAN]
  BY DEF WInv, WType
<1>3. WType'
  <2>1. \A u \in Users : Out(u) \in SUBSET Stamps /\ Out(u) \cup {"new"} \in SUBSET Stamps
    BY DEF Stamps
  <2> HIDE DEF Out
  <2>2. writes' \in [Users -> SUBSET Stamps] /\ waiting' \in [Users -> {"none", "new"}]
    BY <1>1, <1>2, <2>1
  <2>3. row' \in [Users -> Stamps]
    BY <1>1, <1>2 DEF Stamps
  <2>4. lost' \in [Users -> BOOLEAN]
    <3>1. \A u \in Users : (IF u \notin gone THEN lost[u] ELSE Free(u) /\ Out(u) # {})
                               \in BOOLEAN
      BY <1>2, Zenon
    <3> QED BY <1>1, <3>1, Zenon
  <2> QED BY <2>2, <2>3, <2>4 DEF WType
<1>4. ASSUME NEW u \in Users
      PROVE  (lost[u] \/ InTable(u) \/ InEntry(u) \/ InUpdate(u))'
  <2>1. CASE u \notin gone
    <3>1. /\ waiting'[u] = waiting[u] /\ writes'[u] = writes[u]
          /\ row'[u] = row[u] /\ lost'[u] = lost[u]
      BY <1>1, <2>1, Zenon
    <3> QED BY <3>1, Zenon DEF WInv, InTable, InEntry, InUpdate
  <2>2. CASE u \in gone /\ Free(u)
    <3>1. /\ waiting'[u] = "none" /\ writes'[u] = Out(u) \cup {"new"}
          /\ lost'[u] = (Free(u) /\ Out(u) # {})
      BY <1>1, <2>2, Zenon
    <3>2. CASE Out(u) = {}
      BY <3>1, <3>2 DEF InUpdate
    <3>3. CASE Out(u) # {}
      BY <2>2, <3>1, <3>3, Zenon
    <3> QED BY <3>2, <3>3
  <2>3. CASE u \in gone /\ ~Free(u)
    <3>1. waiting'[u] = "new" /\ writes'[u] = Out(u)
      BY <1>1, <2>3, Zenon
    <3> QED BY <3>1 DEF InEntry
  <2> QED BY <2>1, <2>2, <2>3, Zenon
<1> QED BY <1>3, <1>4, Zenon DEF WInv

Untouched == UNCHANGED <<waiting, writes, row, lost>>

LEMMA UntouchedSaves == WInv /\ Untouched => WInv'
BY Zenon DEF WInv, WType, Untouched, InTable, InEntry, InUpdate

\* Whatever the gateway and the registry do reaches the writer as a publication.
LEMMA EvaluateSaves ==
    ASSUME WInv, NEW d, NEW us, NEW reason, NEW at, Evaluate(d, us, reason, at)
    PROVE  WInv'
BY ScheduleSaves, Zenon DEF Evaluate, GoOffline

LEMMA ForgetSaves == ASSUME WInv, NEW s, Forget(s) PROVE WInv'
<1>1. CASE device[s] = "none"
  BY <1>1, UntouchedSaves DEF Forget, writer, Untouched
<1>2. CASE device[s] # "none"
  BY <1>2, EvaluateSaves, Zenon DEF Forget
<1> QED BY <1>1, <1>2

LEMMA HandleSaves == ASSUME WInv, NEW s, NEW k, Handle(s, k) PROVE WInv'
<1>1. CASE UNCHANGED writer
  BY <1>1, UntouchedSaves DEF writer, Untouched
<1>2. CASE SetActive(s, k = "active")
  BY <1>2, EvaluateSaves, Zenon DEF SetActive
<1> QED BY <1>1, <1>2, Zenon DEF Handle

LEMMA FrameSaves == ASSUME WInv, NEW s, NEW active, Frame(s, active) PROVE WInv'
<1>1. CASE UNCHANGED writer
  BY <1>1, UntouchedSaves DEF writer, Untouched
<1> QED BY <1>1, HandleSaves, Zenon DEF Frame

LEMMA CloseSaves == ASSUME WInv, NEW s, Close(s) PROVE WInv'
<1>1. CASE UNCHANGED writer
  BY <1>1, UntouchedSaves DEF writer, Untouched
<1> QED BY <1>1, ForgetSaves, Zenon DEF Close

\* The writer's own steps.
LEMMA WriterSaves ==
    ASSUME WInv, NEW u \in Users,
           \/ WriteLater(u)
           \/ \E stamp \in Stamps : Written(u, stamp) \/ WriteFails(u, stamp)
    PROVE  WInv'
<1> USE DEF WInv, WType, InTable, InEntry, InUpdate, Stamps
<1>1. CASE WriteLater(u)
  <2>1. /\ waiting[u] = "new"
        /\ waiting' = [waiting EXCEPT ![u] = "none"]
        /\ writes' = [writes EXCEPT ![u] = @ \cup {"new"}]
        /\ lost' = [lost EXCEPT ![u] = writes[u] # {}]
        /\ row' = row
    BY <1>1 DEF WriteLater
  <2>2. WType'
    BY <2>1
  <2>3. \A v \in Users \ {u} : /\ waiting'[v] = waiting[v] /\ writes'[v] = writes[v]
                               /\ row'[v] = row[v] /\ lost'[v] = lost[v]
    BY <2>1
  <2>4. /\ waiting'[u] = "none" /\ writes'[u] = writes[u] \cup {"new"}
        /\ lost'[u] = (writes[u] # {})
    BY <2>1
  <2>5. lost'[u] \/ writes'[u] = {"new"}
    BY <2>4
  <2> QED BY <2>2, <2>3, <2>4, <2>5
<1>2. ASSUME NEW stamp \in Stamps, Written(u, stamp) PROVE WInv'
  <2>1. /\ stamp \in writes[u]
        /\ writes' = [writes EXCEPT ![u] = @ \ {stamp}]
        /\ row' = [row EXCEPT ![u] = stamp]
        /\ waiting' = waiting /\ lost' = lost
    BY <1>2 DEF Written
  <2>2. WType'
    BY <2>1
  <2>3. \A v \in Users \ {u} : writes'[v] = writes[v] /\ row'[v] = row[v]
    BY <2>1
  <2>4. writes'[u] = writes[u] \ {stamp} /\ row'[u] = stamp
    BY <2>1
  <2> QED BY <2>1, <2>2, <2>3, <2>4
<1>3. ASSUME NEW stamp \in Stamps, WriteFails(u, stamp) PROVE WInv'
  <2>1. /\ writes' = [writes EXCEPT ![u] = @ \ {stamp}]
        /\ lost' = [lost EXCEPT ![u] = TRUE]
        /\ waiting' = waiting /\ row' = row
    BY <1>3 DEF WriteFails
  <2> QED BY <2>1
<1> QED BY <1>1, <1>2, <1>3

LEMMA RestartSaves == ASSUME WInv, NEW crash \in BOOLEAN, Restart(crash) PROVE WInv'
<1> USE DEF WInv, WType, InTable, InEntry, InUpdate, Stamps
<1>1. /\ waiting' = [u \in Users |-> "none"]
      /\ writes' = [u \in Users |->
             IF crash THEN {} ELSE writes[u] \cup ({waiting[u]} \ {"none"})]
      /\ lost' = [u \in Users |->
             \/ lost[u]
             \/ IF crash THEN waiting[u] # "none" \/ writes[u] # {}
                ELSE waiting[u] # "none" /\ writes[u] # {}]
      /\ row' = row
  BY Zenon DEF Restart
<1>2. WType'
  <2>1. \A u \in Users : {waiting[u]} \ {"none"} \subseteq Stamps
    OBVIOUS
  <2>2. writes' \in [Users -> SUBSET Stamps]
    BY <1>1, <2>1
  <2> QED BY <1>1, <2>2
<1>3. ASSUME NEW u \in Users
      PROVE  lost'[u] \/ InTable(u)' \/ InUpdate(u)'
  BY <1>1
<1> QED BY <1>2, <1>3

LEMMA NextSaves == WInv /\ [Next]_vars => WInv'
<1> SUFFICES ASSUME WInv, [Next]_vars PROVE WInv'
  OBVIOUS
<1>0. CASE Untouched
  BY <1>0, UntouchedSaves
<1>1. ASSUME NEW s \in Sockets, NEW visible \in BOOLEAN, Connect(s, visible)
      PROVE  WInv'
  BY <1>0, <1>1 DEF Connect, writer, Untouched
<1>2. ASSUME NEW s \in Sockets, NEW frozen \in BOOLEAN, Hide(s, frozen)
      PROVE  WInv'
  BY <1>0, <1>2, FrameSaves DEF Hide, writer, Untouched
<1>3. ASSUME NEW s \in Sockets, Disconnect(s) \/ Show(s) \/ Beat(s) PROVE WInv'
  BY <1>3, CloseSaves, FrameSaves, Zenon DEF Disconnect, Show, Beat
<1>4. ASSUME NEW s \in Sockets, Beacon(s) PROVE WInv'
  <2>1. CASE SetActive(s, FALSE)
    BY <2>1, EvaluateSaves, Zenon DEF SetActive
  <2>2. CASE UNCHANGED writer
    BY <1>0, <2>2 DEF writer, Untouched
  <2> QED BY <1>4, <2>1, <2>2, Zenon DEF Beacon
<1>5. ASSUME NEW s \in Sockets, NEW k \in {"connect", "active", "away"},
             Resolve(s, k) \/ ResolveFails(s, k)
      PROVE  WInv'
  BY <1>0, <1>5, HandleSaves, CloseSaves DEF Resolve, ResolveFails, writer, Untouched
<1>6. ASSUME NEW u \in Users, GraceOver(u) PROVE WInv'
  BY <1>6, ScheduleSaves, Zenon DEF GraceOver, GoOffline
<1>7. CASE Sweep
  BY <1>7, EvaluateSaves, Zenon DEF Sweep
<1>8. CASE Tick \/ UNCHANGED vars
  BY <1>0, <1>8 DEF Tick, vars, writer, Untouched
<1> QED
  BY <1>1, <1>2, <1>3, <1>4, <1>5, <1>6, <1>7, <1>8, WriterSaves, RestartSaves,
     Zenon DEF Next

\* The throttle of LastSeenWriter loses no time: once nothing is on its way, the
\* table holds the time published last, unless an update failed, was overtaken,
\* or died with the process.
THEOREM TimesAreSaved == Spec => []SavedUnlessLost
<1>1. Init => WInv
  BY DEF Init, WInv, WType, InTable, Stamps
<1>2. WInv => SavedUnlessLost
  BY DEF WInv, WType, InTable, InEntry, InUpdate, SavedUnlessLost
<1> QED BY <1>1, <1>2, NextSaves, PTL DEF Spec
=============================================================================
