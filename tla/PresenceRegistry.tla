--------------------------- MODULE PresenceRegistry ---------------------------
(***************************************************************************)
(* Who is online: the registry of devices (chat/presence.registry.ts), the *)
(* handlers of the gateway that feed it (chat.gateway.ts), the page that   *)
(* reports to them (frontend/src/lib/presenceReporter.ts), and the writer  *)
(* of User.lastSeenAt that the registry's publications reach               *)
(* (chat/last-seen-writer.ts).                                             *)
(*                                                                         *)
(* A tick is the sweep interval of 5 s.  Times are kept as ages in ticks;  *)
(* a timer that is due runs before the next tick.  A socket name is used   *)
(* again once nothing of its earlier use is in flight.                     *)
(***************************************************************************)
EXTENDS Integers

CONSTANTS Users, Sockets, Owner,
          AwayAfter,    \* PRESENCE_AWAY_AFTER_MS
          BeatEvery,    \* PRESENCE_HEARTBEAT_MS
          Debounce,     \* PRESENCE_DISCONNECT_DEBOUNCE_MS
          MinInterval,  \* LAST_SEEN_MIN_INTERVAL_MS
          MaxFaults     \* bound on the failed writes and on the restarts

ASSUME PresenceAssumption ==
    /\ Owner \in [Sockets -> Users]
    /\ AwayAfter \in Nat /\ BeatEvery \in 0..AwayAfter
    /\ Debounce \in Nat \ {0} /\ MinInterval \in Nat \ {0}
    /\ MaxFaults \in Nat

VARIABLES link,     \* client.connected, as the server sees it
          shown,    \* the page of the socket is visible, and beats
          beacons,  \* sockets whose keepalive request "away" is on its way
          known,    \* client.data.user is set
          asked,    \* handlers that await resolveSocketUser
          device,   \* devices: "none", "idle", "active"
          beat,     \* the age of lastBeat, where it is read
          online,   \* the published state
          leaving,  \* pendingOffline: the age of the break, None without one
          seen,     \* history: how long an online user has had no active device
          misdated, \* history: users said to be last seen before they were
          wrote,    \* LastSeenWriter.lastWriteAt, as an age
          waiting,  \* LastSeenWriter.pending
          writes,   \* updates of User.lastSeenAt that the database runs
          row,      \* User.lastSeenAt; "new" is the time published last
          lost,     \* history: a write failed, was overtaken, or died
          faults

page == <<link, shown, beacons>>
handlers == <<known, asked>>
published == <<online, leaving, seen, misdated>>

writer == <<wrote, waiting, writes, row, lost>>
vars == <<page, handlers, device, beat, published, writer, faults>>

None == -1
Stamps == {"new", "old"}
SocketsOf(u) == {s \in Sockets : Owner[s] = u}

TypeOK ==
    /\ link \in [Sockets -> BOOLEAN]
    /\ shown \in [Sockets -> BOOLEAN] /\ beacons \subseteq Sockets
    /\ known \in [Sockets -> BOOLEAN]
    /\ asked \in [Sockets -> SUBSET {"connect", "active", "away"}]
    /\ device \in [Sockets -> {"none", "idle", "active"}]
    /\ beat \in [Sockets -> 0..AwayAfter + 1]
    /\ online \subseteq Users /\ misdated \subseteq Users
    /\ leaving \in [Users -> {None} \cup 0..Debounce]
    /\ seen \in [Users -> Nat]
    /\ wrote \in [Users -> 0..MinInterval]
    /\ waiting \in [Users -> Stamps \cup {"none"}]
    /\ writes \in [Users -> SUBSET Stamps] /\ row \in [Users -> Stamps]
    /\ lost \in [Users -> BOOLEAN] /\ faults \in 0..MaxFaults

Init ==
    /\ link = [s \in Sockets |-> FALSE] /\ shown = [s \in Sockets |-> FALSE]
    /\ beacons = {} /\ known = [s \in Sockets |-> FALSE]
    /\ asked = [s \in Sockets |-> {}]
    /\ device = [s \in Sockets |-> "none"] /\ beat = [s \in Sockets |-> 0]
    /\ online = {} /\ leaving = [u \in Users |-> None]
    /\ seen = [u \in Users |-> 0] /\ misdated = {}
    /\ wrote = [u \in Users |-> MinInterval]
    /\ waiting = [u \in Users |-> "none"]
    /\ writes = [u \in Users |-> {}] /\ row = [u \in Users |-> "new"]
    /\ lost = [u \in Users |-> FALSE] /\ faults = 0

-----------------------------------------------------------------------------
(* LastSeenWriter.                                                         *)

\* Mutant of Kept: an entry that waits keeps its time.
KeptOld(stamp) == "old"

\* What an entry that waits holds after the next publication.
Kept(stamp) == "new"

\* schedule, for the users who go offline in this step: what was published of
\* them before is old from now on.  A write that finds another one out may be
\* overtaken by it.
Schedule(gone) ==
    LET Free(u) == waiting[u] = "none" /\ wrote[u] = MinInterval
        Out(u) == IF writes[u] = {} THEN {} ELSE {"old"}
    IN /\ waiting' = [u \in Users |->
              IF u \notin gone \/ Free(u) THEN waiting[u]
              ELSE IF waiting[u] = "none" THEN "new" ELSE Kept(waiting[u])]
       /\ wrote' = [u \in Users |-> IF u \in gone /\ Free(u) THEN 0 ELSE wrote[u]]
       /\ writes' = [u \in Users |->
              IF u \notin gone THEN writes[u]
              ELSE IF Free(u) THEN Out(u) \cup {"new"} ELSE Out(u)]
       /\ row' = [u \in Users |-> IF u \in gone THEN "old" ELSE row[u]]
       /\ lost' = [u \in Users |->
              IF u \notin gone THEN lost[u] ELSE Free(u) /\ Out(u) # {}]

\* The timer of an entry that waits: flush.
WriteLater(u) ==
    /\ waiting[u] # "none" /\ wrote[u] = MinInterval
    /\ waiting' = [waiting EXCEPT ![u] = "none"]
    /\ wrote' = [wrote EXCEPT ![u] = 0]
    /\ writes' = [writes EXCEPT ![u] = @ \cup {waiting[u]}]
    /\ lost' = [lost EXCEPT ![u] = writes[u] # {}]
    /\ UNCHANGED <<page, handlers, device, beat, published, row, faults>>

\* The database runs an update, or the update fails, which is ignored.
Written(u, stamp) ==
    /\ stamp \in writes[u]
    /\ writes' = [writes EXCEPT ![u] = @ \ {stamp}]
    /\ row' = [row EXCEPT ![u] = stamp]
    /\ UNCHANGED <<page, handlers, device, beat, published, wrote, waiting,
                   lost, faults>>

WriteFails(u, stamp) ==
    /\ stamp \in writes[u] /\ faults < MaxFaults /\ faults' = faults + 1
    /\ writes' = [writes EXCEPT ![u] = @ \ {stamp}]
    /\ lost' = [lost EXCEPT ![u] = TRUE]
    /\ UNCHANGED <<page, handlers, device, beat, published, wrote, waiting,
                   row>>

-----------------------------------------------------------------------------
(* The registry.                                                           *)

HasActive(d, u) == \E s \in SocketsOf(u) : d[s] = "active"

\* goOffline and emit for the users gone, last seen at the age at.
GoOffline(gone, at) ==
    /\ misdated' = misdated \cup
           {u \in gone : at > IF HasActive(device, u) THEN AwayAfter + 1 ELSE seen[u]}
    /\ Schedule(gone)

\* Mutant of BreakAge: each break starts the debounce anew.
BreakAgeAnew(u) == 0

\* A pending departure goes on when another socket breaks.
BreakAge(u) == IF leaving[u] = None THEN 0 ELSE leaving[u]

\* Mutant of Cancelled: a return does not stop the timer of the break.
CancelledOffline(back, gone) == gone

\* Whose pending departure is cancelled.
Cancelled(back, gone) == back \cup gone

\* evaluate, for the users us, the devices being d after the step.
Evaluate(d, us, reason, at) ==
    LET back == {u \in us : HasActive(d, u)}
        quiet == (us \ back) \cap online
        gone == IF reason = "disconnect" THEN {} ELSE quiet
    IN /\ online' = (online \cup back) \ gone
       /\ leaving' = [u \in Users |->
              IF u \in Cancelled(back, gone) THEN None
              ELSE IF u \in quiet THEN BreakAge(u) ELSE leaving[u]]
       /\ seen' = [u \in Users |->
              IF u \in back \cup gone \/ HasActive(device, u) THEN 0 ELSE seen[u]]
       /\ GoOffline(gone, at)

\* Mutant of Register: a second registration starts the device anew.
RegisterAnew(s) == [device EXCEPT ![s] = "idle"]

\* connect, which is idempotent: the frame presence:state may have been faster.
Register(s) == [device EXCEPT ![s] = IF @ = "none" THEN "idle" ELSE @]

\* setActive of a device that is registered.
SetActive(s, active) ==
    LET d == [device EXCEPT ![s] = IF active THEN "active" ELSE "idle"]
    IN /\ device' = d
       /\ beat' = [beat EXCEPT ![s] = 0]
       /\ Evaluate(d, {Owner[s]}, IF active THEN "active" ELSE "away", 0)

\* disconnect.
Forget(s) ==
    LET d == [device EXCEPT ![s] = "none"]
    IN /\ device' = d
       /\ beat' = [beat EXCEPT ![s] = 0]
       /\ IF device[s] = "none"
          THEN UNCHANGED <<published, writer>>
          ELSE Evaluate(d, {Owner[s]}, "disconnect", 0)

Silent(s) == device[s] = "active" /\ beat[s] > AwayAfter

\* sweep, when it finds a device.  It runs every tick, so the beats it finds too
\* old have one age.
Sweep ==
    LET d == [s \in Sockets |-> IF Silent(s) THEN "idle" ELSE device[s]]
    IN /\ \E s \in Sockets : Silent(s)
       /\ device' = d
       /\ beat' = [s \in Sockets |-> IF Silent(s) THEN 0 ELSE beat[s]]
       /\ Evaluate(d, {Owner[s] : s \in {t \in Sockets : Silent(t)}}, "stale",
                   AwayAfter + 1)
       /\ UNCHANGED <<page, handlers, faults>>

\* The timer of a break that nobody came back from.
GraceOver(u) ==
    LET gone == {u} \cap {v \in online : ~HasActive(device, v)}
    IN /\ leaving[u] = Debounce
       /\ leaving' = [leaving EXCEPT ![u] = None]
       /\ online' = online \ gone
       /\ seen' = [v \in Users |-> IF v \in gone THEN 0 ELSE seen[v]]
       /\ GoOffline(gone, leaving[u])
       /\ UNCHANGED <<page, handlers, device, beat, faults>>

-----------------------------------------------------------------------------
(* The gateway.                                                            *)

\* Mutant of Alive: that the socket is gone by now is not noticed.
AliveAlways(s) == TRUE

\* What the handlers check after the await of resolveSocketUser.
Alive(s) == link[s]

\* The handler of the frame k goes on with the socket's user.
Handle(s, k) ==
    IF ~Alive(s)
    THEN UNCHANGED <<device, beat, published, writer>>
    ELSE IF k = "connect"
    THEN device' = Register(s) /\ UNCHANGED <<beat, published, writer>>
    ELSE SetActive(s, k = "active")

\* A frame presence:state arrives; the first ones wait for the user's row.
Frame(s, active) ==
    LET k == IF active THEN "active" ELSE "away"
    IN IF known[s]
       THEN Handle(s, k) /\ UNCHANGED asked
       ELSE /\ asked' = [asked EXCEPT ![s] = @ \cup {k}]
            /\ UNCHANGED <<device, beat, published, writer>>

\* The row arrives: resolveSocketUser returns the user to this handler.
Resolve(s, k) ==
    /\ k \in asked[s]
    /\ asked' = [asked EXCEPT ![s] = @ \ {k}]
    /\ known' = [known EXCEPT ![s] = TRUE]
    /\ Handle(s, k)
    /\ UNCHANGED <<page, faults>>

\* handleDisconnect, a user being known.
Close(s) ==
    /\ link' = [link EXCEPT ![s] = FALSE]
    /\ shown' = [shown EXCEPT ![s] = FALSE]
    /\ IF known[s] THEN Forget(s)
       ELSE UNCHANGED <<device, beat, published, writer>>

\* No user: handleConnection closes the socket, the other handler returns.
ResolveFails(s, k) ==
    /\ k \in asked[s] /\ faults < MaxFaults /\ faults' = faults + 1
    /\ asked' = [asked EXCEPT ![s] = @ \ {k}]
    /\ IF k = "connect" /\ link[s] THEN Close(s)
       ELSE UNCHANGED <<link, shown, device, beat, published, writer>>
    /\ UNCHANGED <<beacons, known>>

-----------------------------------------------------------------------------
(* The page and the network.                                               *)

\* A socket connects: handleConnection, and the reporter's first frame.
Connect(s, visible) ==
    /\ ~link[s] /\ asked[s] = {} /\ s \notin beacons
    /\ link' = [link EXCEPT ![s] = TRUE]
    /\ shown' = [shown EXCEPT ![s] = visible]
    /\ known' = [known EXCEPT ![s] = FALSE]
    /\ asked' = [asked EXCEPT ![s] = {"connect", IF visible THEN "active" ELSE "away"}]
    /\ UNCHANGED <<beacons, device, beat, published, writer, faults>>

\* The server notices that the socket is gone.
Disconnect(s) ==
    /\ link[s] /\ Close(s)
    /\ UNCHANGED <<beacons, handlers, faults>>

\* The page is hidden: a frame, unless the page was frozen first, and a beacon.
\* Of a page or a network that dies both are lost, and the socket stays.
Hide(s, frozen) ==
    /\ link[s] /\ shown[s]
    /\ shown' = [shown EXCEPT ![s] = FALSE]
    /\ beacons' = beacons \cup {s}
    /\ IF frozen THEN UNCHANGED <<asked, device, beat, published, writer>>
       ELSE Frame(s, FALSE)
    /\ UNCHANGED <<link, known, faults>>

Show(s) ==
    /\ link[s] /\ ~shown[s]
    /\ shown' = [shown EXCEPT ![s] = TRUE]
    /\ Frame(s, TRUE)
    /\ UNCHANGED <<link, beacons, known, faults>>

\* The page's heartbeat, when it is due.
Due(s) == link[s] /\ shown[s] /\ known[s] /\ beat[s] >= BeatEvery
Beat(s) ==
    /\ Due(s) /\ Frame(s, TRUE)
    /\ UNCHANGED <<page, known, faults>>

\* The keepalive request reaches push.controller.ts, or is lost.
Beacon(s) ==
    /\ s \in beacons /\ beacons' = beacons \ {s}
    /\ \/ device[s] # "none" /\ SetActive(s, FALSE)
       \/ UNCHANGED <<device, beat, published, writer>>
    /\ UNCHANGED <<link, shown, handlers, faults>>

-----------------------------------------------------------------------------
\* A tick passes when no timer is due, those of the visible pages included.
Tick ==
    /\ \A s \in Sockets : ~Silent(s) /\ ~Due(s)
    /\ \A u \in Users : /\ leaving[u] < Debounce
                        /\ waiting[u] # "none" => wrote[u] < MinInterval
    /\ beat' = [s \in Sockets |->
           IF device[s] = "active" \/ (shown[s] /\ device[s] # "none")
           THEN beat[s] + 1 ELSE 0]
    /\ leaving' = [u \in Users |-> IF leaving[u] = None THEN None ELSE leaving[u] + 1]
    /\ seen' = [u \in Users |->
           IF u \in online /\ ~HasActive(device, u) THEN seen[u] + 1 ELSE 0]
    /\ wrote' = [u \in Users |->
           IF wrote[u] < MinInterval THEN wrote[u] + 1 ELSE wrote[u]]
    /\ UNCHANGED <<page, handlers, device, online, misdated, waiting, writes,
                   row, lost, faults>>

\* onModuleDestroy and a new process: what waits is written.  In a crash, and
\* for what the database still runs, the time is lost.
Restart(crash) ==
    /\ faults < MaxFaults /\ faults' = faults + 1
    /\ link' = [s \in Sockets |-> FALSE] /\ shown' = [s \in Sockets |-> FALSE]
    /\ known' = [s \in Sockets |-> FALSE] /\ asked' = [s \in Sockets |-> {}]
    /\ device' = [s \in Sockets |-> "none"] /\ beat' = [s \in Sockets |-> 0]
    /\ online' = {} /\ leaving' = [u \in Users |-> None]
    /\ seen' = [u \in Users |-> 0]
    /\ wrote' = [u \in Users |-> MinInterval]
    /\ waiting' = [u \in Users |-> "none"]
    /\ writes' = [u \in Users |->
           IF crash THEN {} ELSE writes[u] \cup ({waiting[u]} \ {"none"})]
    /\ lost' = [u \in Users |->
           \/ lost[u]
           \/ IF crash THEN waiting[u] # "none" \/ writes[u] # {}
              ELSE waiting[u] # "none" /\ writes[u] # {}]
    /\ UNCHANGED <<beacons, misdated, row>>

Next ==
    \/ \E s \in Sockets, visible \in BOOLEAN : Connect(s, visible)
    \/ \E s \in Sockets, frozen \in BOOLEAN : Hide(s, frozen)
    \/ \E s \in Sockets : Disconnect(s) \/ Show(s) \/ Beat(s) \/ Beacon(s)
    \/ \E s \in Sockets, k \in {"connect", "active", "away"} :
           Resolve(s, k) \/ ResolveFails(s, k)
    \/ \E u \in Users : GraceOver(u) \/ WriteLater(u)
    \/ \E u \in Users, stamp \in Stamps : Written(u, stamp) \/ WriteFails(u, stamp)
    \/ Sweep \/ Tick
    \/ \E crash \in BOOLEAN : Restart(crash)

Spec == Init /\ [][Next]_vars

-----------------------------------------------------------------------------
\* Whom the registry shows as online has an active device, or lost the last one
\* in a break that the debounce still covers (presence.registry.ts:164-199).
OnlineExplained ==
    \A u \in Users :
        /\ u \in online <=> HasActive(device, u) \/ leaving[u] # None
        /\ leaving[u] # None => ~HasActive(device, u)

\* A handler that outlives its socket leaves no device behind, which nobody would
\* remove (chat.gateway.ts:545, 630).
NoGhost == \A s \in Sockets : device[s] # "none" => link[s]

\* Nobody is said to be last seen before their last active device went, whatever
\* mixture of breaks, away frames, beacons and silence ended their presence.
LastSeenTrue == misdated = {}

\* The time published last is in the database once nothing is on its way there,
\* unless a write failed, was overtaken by an older one or died with the process:
\* the throttle merges times and loses none (last-seen-writer.ts:22-45).
SavedUnlessLost ==
    \A u \in Users :
        waiting[u] = "none" /\ writes[u] = {} /\ row[u] = "old" => lost[u]

\* Who has lost their last active device is online for the debounce and no longer,
\* even if other sockets of theirs break meanwhile (presence.registry.ts:178-189).
GraceBounded == \A u \in Users : seen[u] <= Debounce
=============================================================================
