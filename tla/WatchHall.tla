------------------------------ MODULE WatchHall ------------------------------
(***************************************************************************)
(* The hall of one watch-party room: who is present, who is the host, and  *)
(* how control passes on (backend/src/watch-party/watch-party.service.ts   *)
(* with the socket handlers of watch-party.gateway.ts).  Every await of    *)
(* the service is a point where other events run: a task is a pc and the   *)
(* values it carries across its awaits.                                    *)
(***************************************************************************)
EXTENDS Integers, FiniteSets

CONSTANTS Users,
          Sockets,
          Owner,       \* the user each socket belongs to
          NoUser,      \* the host of a deleted room
          None,        \* no runtime, no load, nothing to set
          MaxOpens,    \* bound on the requests to open the hall
          MaxMoves,    \* bound on leaving, entering, deleting, transferring
          MaxWrites,   \* bound on the saves of the state in flight
          MaxFaults    \* bound on the failures of the database

Runtimes == [host : Users, away : BOOLEAN, timer : BOOLEAN]
Resolves == [pc : {"no", "order", "set", "save"}, present : SUBSET Users,
             host : Users \cup {NoUser}, live : BOOLEAN]
HandOvers == [step : {"write", "return"}, to : Users]
Setters == Sockets \cup Users \cup {"resolve", "transfer"}

ASSUME HallAssumption ==
    /\ Owner \in [Sockets -> Users] /\ IsFiniteSet(Users)
    /\ Users \cap Sockets = {}
    /\ {"resolve", "transfer", "asked", None, NoUser} \cap (Users \cup Sockets) = {}
    /\ None \notin Runtimes \cup HandOvers \cup {"asked"}
    /\ {MaxOpens, MaxMoves, MaxWrites, MaxFaults} \subseteq Nat

VARIABLES db,         \* WatchRoom.hostId, NoUser when the room is deleted
          joinedAt,   \* WatchRoomMember.joinedAt of the JOINED rows, 0: no row
          writes,     \* saves of the state in flight, by the host they carry
          rt,         \* this.runtimes: the runtime of the room
          load,       \* this.runtimeLoads
          presence,   \* this.presence: the sockets of each user in the hall
          watched,    \* sockets whose client.data.watchRooms has the room
          connected,  \* sockets still connected
          join,       \* joinHall of each socket
          leave,      \* leaveRoom and deleteRoom of each user
          resolve,    \* resolveHostAbsence
          setting,    \* setHost, by the task that called it
          wants,      \* history: sockets whose client has the hall open
          rushed,     \* history: sockets that went while their joinHall ran, or
                      \* whose joinHall failed, and did not leave since
          stale,      \* history: a host was marked away, or the runtime
                      \* evicted, while a member was present
          overlap,    \* history: a hand-over was written while another write
                      \* of the host, or a load, was out, or a save was called
                      \* before the runtime had the host of the row, or of a
                      \* runtime that had been evicted
          opens, moves, faults

vars == <<db, joinedAt, writes, rt, load, presence, watched, connected, join,
          leave, resolve, setting, wants, rushed, stale, overlap, opens,
          moves, faults>>

TypeOK ==
    /\ db \in Users \cup {NoUser}
    /\ joinedAt \in [Users -> Nat]
    /\ writes \in [Users -> 0..MaxWrites]
    /\ rt \in Runtimes \cup {None}
    /\ load \in Users \cup {"asked", None}
    /\ presence \in [Users -> SUBSET Sockets]
    /\ \A u \in Users : \A s \in presence[u] : Owner[s] = u
    /\ watched \subseteq Sockets /\ connected \subseteq Sockets
    /\ join \in [Sockets -> {"no", "member", "loading", "enter", "set", "tail"}]
    /\ leave \in [Users -> {"no", "member", "others", "set", "row", "drop"}]
    /\ resolve \in Resolves
    /\ setting \in [Setters -> HandOvers \cup {None}]
    /\ wants \subseteq Sockets /\ rushed \subseteq Sockets
    /\ stale \in BOOLEAN /\ overlap \in BOOLEAN
    /\ opens \in 0..MaxOpens /\ moves \in 0..MaxMoves /\ faults \in 0..MaxFaults

NoResolve == [pc |-> "no", present |-> {}, host |-> NoUser, live |-> TRUE]
Empty == [u \in Users |-> {}]

\* A room as createRoom leaves it, its invitations answered: the host is the
\* first member, nobody is in the hall.
Init ==
    /\ joinedAt \in [Users -> 0..Cardinality(Users)]
    /\ \A u, v \in Users : joinedAt[u] = joinedAt[v] => u = v \/ joinedAt[u] = 0
    /\ db \in Users /\ joinedAt[db] = 1
    /\ writes = [u \in Users |-> 0]
    /\ rt = None /\ load = None /\ presence = Empty
    /\ watched = {} /\ connected = Sockets
    /\ join = [s \in Sockets |-> "no"] /\ leave = [u \in Users |-> "no"]
    /\ resolve = NoResolve /\ setting = [t \in Setters |-> None]
    /\ wants = {} /\ rushed = {} /\ stale = FALSE /\ overlap = FALSE
    /\ opens = 0 /\ moves = 0 /\ faults = 0

-----------------------------------------------------------------------------
\* What getRuntime's caller does with a runtime that is there runs as a
\* microtask, before any other event.
Quiet == \A s \in Sockets : join[s] # "enter"

Joined == {u \in Users : joinedAt[u] # 0}
Present(p) == {u \in Users : p[u] # {}}

\* The members who have the hall open and are counted as present: their joinHall
\* is past the point at which it added the socket.
Watching ==
    {u \in Joined : \E s \in presence[u] :
                        s \in wants /\ join[s] \in {"no", "set", "tail"}}

\* joinedMemberIds reads the members in the order in which they joined.
First(us) == CHOOSE u \in us : \A v \in us : joinedAt[u] <= joinedAt[v]

\* pickNextHost: the first of the members who is present and is not the host,
\* if there is one.
Candidates(host, present) == (Joined \cap present) \ {host}

Writing == \E t \in Setters : setting[t] # None
\* The row has a new host that the runtime has not got yet.
Moved == \E t \in Setters : setting[t] # None /\ setting[t].step = "return"
Saving == \E u \in Users : writes[u] > 0

\* persist: the values are taken when it is called, the database applies them
\* some time later.
Save(host) ==
    /\ writes' = [writes EXCEPT ![host] = IF @ < MaxWrites THEN @ + 1 ELSE @]
    /\ overlap' = (overlap \/ Moved)

\* Mutant of PresenceChanged: the grace timer is not armed while somebody is
\* still in the hall.
PresenceChangedLazy(r, p) ==
    /\ rt' = IF r = None THEN None
             ELSE IF r.host \in Present(p)
                  THEN [r EXCEPT !.timer = FALSE, !.away = FALSE]
                  ELSE [r EXCEPT !.timer = @ \/ (~r.away /\ Present(p) = {})]
    /\ presence' = p
    /\ UNCHANGED <<writes, overlap>>

\* onPresenceChanged, the runtime being r and the presence p: a host who is
\* present stops the grace timer, an absent one starts it; the last one out
\* after the host was found away evicts the runtime, and evictRuntime saves it.
PresenceChanged(r, p) ==
    IF r = None
    THEN rt' = None /\ presence' = p /\ UNCHANGED <<writes, overlap>>
    ELSE IF r.host \in Present(p)
    THEN /\ rt' = [r EXCEPT !.timer = FALSE, !.away = FALSE]
         /\ presence' = p /\ UNCHANGED <<writes, overlap>>
    ELSE IF r.away /\ Present(p) = {}
    THEN rt' = None /\ presence' = Empty /\ Save(r.host)
    ELSE /\ rt' = [r EXCEPT !.timer = @ \/ ~r.away]
         /\ presence' = p /\ UNCHANGED <<writes, overlap>>

\* resolveHostAbsence goes on with the runtime it began with, though it has left
\* the map; no hand-over reaches that one any more.
Orphaned ==
    resolve' = IF rt # None /\ rt' = None /\ resolve.pc = "order" /\ resolve.live
               THEN [resolve EXCEPT !.live = FALSE, !.host = rt.host]
               ELSE resolve

\* setHost is called: the write of the new host is on its way.
SetHost(t, u) ==
    /\ setting' = [setting EXCEPT ![t] = [step |-> "write", to |-> u]]

-----------------------------------------------------------------------------
(* watch:join: joinHall, then client.join and watchRooms.add.              *)

\* The client opens the hall, or asks for its state again.
JoinAsk(s) ==
    /\ Quiet /\ opens < MaxOpens /\ s \in connected /\ join[s] = "no"
    /\ opens' = opens + 1
    /\ join' = [join EXCEPT ![s] = "member"]
    /\ wants' = wants \cup {s}
    /\ UNCHANGED <<db, joinedAt, writes, rt, load, presence, watched, connected,
                   leave, resolve, setting, rushed, stale, overlap, moves,
                   faults>>

\* The membership is read; getRuntime finds the runtime, joins the load that is
\* out, or starts one.
JoinMember(s) ==
    /\ Quiet /\ join[s] = "member"
    /\ IF Owner[s] \notin Joined
       THEN /\ join' = [join EXCEPT ![s] = "no"]
            /\ wants' = wants \ {s}
            /\ UNCHANGED load
       ELSE /\ join' = [join EXCEPT ![s] = IF rt # None THEN "enter" ELSE "loading"]
            /\ load' = IF rt = None /\ load = None THEN "asked" ELSE load
            /\ UNCHANGED wants
    /\ UNCHANGED <<db, joinedAt, writes, rt, presence, watched, connected, leave,
                   resolve, setting, rushed, stale, overlap, opens, moves,
                   faults>>

Loading == {s \in Sockets : join[s] = "loading"}

\* loadRuntime reads the room; there may be none any more.
LoadRead ==
    /\ Quiet /\ load = "asked"
    /\ IF db = NoUser
       THEN /\ load' = None
            /\ join' = [s \in Sockets |-> IF s \in Loading THEN "no" ELSE join[s]]
            /\ wants' = wants \ Loading
       ELSE load' = db /\ UNCHANGED <<join, wants>>
    /\ UNCHANGED <<db, joinedAt, writes, rt, presence, watched, connected, leave,
                   resolve, setting, rushed, stale, overlap, opens, moves,
                   faults>>

\* loadRuntime puts what it read into the map; those who waited go on.
LoadDone ==
    /\ Quiet /\ load \in Users
    /\ rt' = [host |-> load, away |-> FALSE, timer |-> FALSE]
    /\ load' = None
    /\ join' = [s \in Sockets |-> IF s \in Loading THEN "enter" ELSE join[s]]
    /\ UNCHANGED <<db, joinedAt, writes, presence, watched, connected, leave,
                   resolve, setting, wants, rushed, stale, overlap, opens,
                   moves, faults>>

\* The socket is added.  When the host was found away, its user takes over.
Enter(s) ==
    LET u == Owner[s]
        p == [presence EXCEPT ![u] = @ \cup {s}]
    IN /\ join[s] = "enter"
       /\ IF rt # None /\ rt.away /\ u # rt.host
          THEN /\ SetHost(s, u)
               /\ join' = [join EXCEPT ![s] = "set"]
               /\ presence' = p
               /\ UNCHANGED <<rt, writes, overlap>>
          ELSE /\ PresenceChanged(rt, p)
               /\ join' = [join EXCEPT ![s] = "tail"]
               /\ UNCHANGED setting
       /\ UNCHANGED <<db, joinedAt, load, watched, connected, leave, resolve,
                      wants, rushed, stale, opens, moves, faults>>

\* The answer is ready: the gateway remembers the room in watchRooms.
Answer(s) ==
    /\ Quiet /\ join[s] = "tail"
    /\ join' = [join EXCEPT ![s] = "no"]
    /\ watched' = watched \cup {s}
    /\ UNCHANGED <<db, joinedAt, writes, rt, load, presence, connected, leave,
                   resolve, setting, wants, rushed, stale, overlap, opens,
                   moves, faults>>

\* A query of joinHall fails after the socket was added: the call throws, and the
\* socket stays where it is.
AnswerFails(s) ==
    /\ Quiet /\ join[s] = "tail" /\ faults < MaxFaults
    /\ faults' = faults + 1
    /\ join' = [join EXCEPT ![s] = "no"]
    /\ wants' = wants \ {s} /\ rushed' = rushed \cup {s}
    /\ UNCHANGED <<db, joinedAt, writes, rt, load, presence, watched, connected,
                   leave, resolve, setting, stale, overlap, opens, moves>>

-----------------------------------------------------------------------------
(* watch:leave and the disconnection of a socket.                          *)

\* Mutant of LeaveHall: one tab takes the others of its user along.
LeaveHallAll(s) ==
    /\ IF presence[Owner[s]] # {}
       THEN PresenceChanged(rt, [presence EXCEPT ![Owner[s]] = {}])
       ELSE UNCHANGED <<rt, presence, writes, overlap>>

\* leaveHall: nothing for a socket that is not in the hall.
LeaveHall(s) ==
    /\ IF presence[Owner[s]] # {}
       THEN PresenceChanged(rt, [presence EXCEPT ![Owner[s]] = @ \ {s}])
       ELSE UNCHANGED <<rt, presence, writes, overlap>>

\* handleLeave
Leave(s) ==
    /\ Quiet /\ s \in connected /\ s \in wants
    /\ LeaveHall(s) /\ Orphaned
    /\ watched' = watched \ {s}
    /\ wants' = wants \ {s}
    /\ rushed' = IF join[s] # "no" THEN rushed \cup {s} ELSE rushed \ {s}
    /\ UNCHANGED <<db, joinedAt, load, connected, join, leave, setting, stale,
                   opens, moves, faults>>

\* Mutant of Disconnect: a closed connection is left to the socket library.
DisconnectSilently(s) ==
    /\ Quiet /\ s \in connected
    /\ connected' = connected \ {s}
    /\ wants' = wants \ {s}
    /\ rushed' = IF join[s] # "no" THEN rushed \cup {s} ELSE rushed
    /\ UNCHANGED <<db, joinedAt, writes, rt, load, presence, watched, join, leave,
                   resolve, setting, stale, overlap, opens, moves, faults>>

\* handleDisconnect: leaveHall for the rooms in watchRooms.
Disconnect(s) ==
    /\ Quiet /\ s \in connected
    /\ connected' = connected \ {s}
    /\ IF s \in watched THEN LeaveHall(s)
                        ELSE UNCHANGED <<rt, presence, writes, overlap>>
    /\ Orphaned
    /\ wants' = wants \ {s}
    /\ rushed' = IF join[s] # "no" THEN rushed \cup {s} ELSE rushed
    /\ UNCHANGED <<db, joinedAt, load, watched, join, leave, setting, stale,
                   opens, moves, faults>>

-----------------------------------------------------------------------------
(* setHost, in the task that called it.                                    *)

\* What the task t goes on with after setHost.
Continue(t) ==
    /\ join' = IF t \in Sockets THEN [join EXCEPT ![t] = "tail"] ELSE join
    /\ leave' = IF t \in Users THEN [leave EXCEPT ![t] = "row"] ELSE leave
    /\ resolve' = IF t = "resolve" THEN NoResolve ELSE resolve

\* The update throws, and so does the task.
Abort(t) ==
    /\ join' = IF t \in Sockets THEN [join EXCEPT ![t] = "no"] ELSE join
    /\ wants' = IF t \in Sockets THEN wants \ {t} ELSE wants
    /\ rushed' = IF t \in Sockets THEN rushed \cup {t} ELSE rushed
    /\ leave' = IF t \in Users THEN [leave EXCEPT ![t] = "no"] ELSE leave
    /\ resolve' = IF t = "resolve" THEN NoResolve ELSE resolve
    /\ setting' = [setting EXCEPT ![t] = None]

\* Mutant of SetHostWrite: the new host is kept in memory only.
SetHostInMemory(t) ==
    /\ Quiet /\ setting[t] # None /\ setting[t].step = "write"
    /\ setting' = [setting EXCEPT ![t].step = "return"]
    /\ UNCHANGED <<db, joinedAt, writes, rt, load, presence, watched, connected,
                   join, leave, resolve, wants, rushed, stale, overlap, opens,
                   moves, faults>>

\* The database writes the host; there is no row to update in a deleted room.
SetHostWrite(t) ==
    /\ Quiet /\ setting[t] # None /\ setting[t].step = "write"
    /\ IF db = NoUser
       THEN Abort(t) /\ UNCHANGED db
       ELSE /\ db' = setting[t].to
            /\ setting' = [setting EXCEPT ![t].step = "return"]
            /\ UNCHANGED <<join, wants, rushed, leave, resolve>>
    /\ overlap' = (overlap \/ Moved \/ Saving \/ load \in Users
                           \/ resolve.pc = "save")
    /\ UNCHANGED <<joinedAt, writes, rt, load, presence, watched, connected,
                   stale, opens, moves, faults>>

\* Mutant of SetHostReturn: nobody looks whether the new host is in the hall.
SetHostBlindly(t) ==
    /\ Quiet /\ setting[t] # None /\ setting[t].step = "return"
    /\ rt' = IF rt = None THEN None
             ELSE [host |-> setting[t].to, away |-> FALSE, timer |-> FALSE]
    /\ setting' = [setting EXCEPT ![t] = None]
    /\ Continue(t)
    /\ UNCHANGED <<db, joinedAt, writes, load, presence, watched, connected, wants,
                   rushed, stale, overlap, opens, moves, faults>>

\* The runtime, if there is one, gets the host, and the hall is looked at
\* again.  (joinHall looks at it once more: nothing has changed since.)
SetHostReturn(t) ==
    /\ Quiet /\ setting[t] # None /\ setting[t].step = "return"
    /\ IF rt = None
       THEN UNCHANGED <<rt, presence, writes, overlap>>
       ELSE PresenceChanged([host |-> setting[t].to, away |-> FALSE,
                             timer |-> FALSE], presence)
    /\ setting' = [setting EXCEPT ![t] = None]
    /\ Continue(t)
    /\ UNCHANGED <<db, joinedAt, load, watched, connected, wants, rushed, stale,
                   opens, moves, faults>>

\* The database refuses the write.
SetHostFails(t) ==
    /\ Quiet /\ faults < MaxFaults /\ setting[t] # None /\ setting[t].step = "write"
    /\ faults' = faults + 1
    /\ Abort(t)
    /\ UNCHANGED <<db, joinedAt, writes, rt, load, presence, watched, connected,
                   stale, overlap, opens, moves>>

\* transferHost: the host names somebody who is present.
Transfer(u, v) ==
    /\ Quiet /\ moves < MaxMoves /\ setting["transfer"] = None
    /\ \E s \in connected : Owner[s] = u
    /\ rt # None /\ rt.host = u /\ v # u /\ v \in Present(presence)
    /\ SetHost("transfer", v)
    /\ moves' = moves + 1
    /\ UNCHANGED <<db, joinedAt, writes, rt, load, presence, watched, connected,
                   join, leave, resolve, wants, rushed, stale, overlap, opens,
                   faults>>

-----------------------------------------------------------------------------
(* leaveRoom and deleteRoom, called over HTTP; a member comes back by an   *)
(* invitation (acceptInvite, joinByToken).                                 *)

\* leaveRoom reads the membership, and with it the host of the room.
LeaveRoom(u) ==
    /\ Quiet /\ moves < MaxMoves /\ leave[u] = "no" /\ u \in Joined
    /\ moves' = moves + 1
    /\ leave' = [leave EXCEPT ![u] = IF db = u THEN "others" ELSE "row"]
    /\ UNCHANGED <<db, joinedAt, writes, rt, load, presence, watched, connected,
                   join, resolve, setting, wants, rushed, stale, overlap, opens,
                   faults>>

\* The host reads who else is a member: control goes to the first one present,
\* else to the first one; with nobody left the room is deleted.
LeaveOthers(u) ==
    LET others == Joined \ {u}
        near == Candidates(u, Present(presence))
    IN /\ Quiet /\ leave[u] = "others"
       /\ IF others = {}
          THEN leave' = [leave EXCEPT ![u] = "drop"] /\ UNCHANGED setting
          ELSE /\ leave' = [leave EXCEPT ![u] = "set"]
               /\ SetHost(u, First(IF near # {} THEN near ELSE others))
       /\ UNCHANGED <<db, joinedAt, writes, rt, load, presence, watched,
                      connected, join, resolve, wants, rushed, stale, overlap,
                      opens, moves, faults>>

\* Its own row is deleted, and evictUserFromRoom empties its place in the hall;
\* without a row the call throws.
LeaveRow(u) ==
    LET own == {s \in Sockets : Owner[s] = u}
    IN /\ Quiet /\ leave[u] = "row"
       /\ leave' = [leave EXCEPT ![u] = "no"]
       /\ IF u \in Joined
          THEN /\ joinedAt' = [joinedAt EXCEPT ![u] = 0]
               /\ PresenceChanged(rt, [presence EXCEPT ![u] = {}])
               /\ wants' = wants \ own
               /\ rushed' = (rushed \ own) \cup {s \in own : join[s] # "no"}
          ELSE UNCHANGED <<joinedAt, rt, presence, writes, overlap, wants, rushed>>
       /\ Orphaned
       /\ UNCHANGED <<db, load, watched, connected, join, setting, stale, opens,
                      moves, faults>>

\* deleteRoom: requireHost asks the runtime, or the row when there is none.
DeleteRoom(u) ==
    /\ Quiet /\ moves < MaxMoves /\ leave[u] = "no" /\ db # NoUser
    /\ u = IF rt # None THEN rt.host ELSE db
    /\ moves' = moves + 1
    /\ leave' = [leave EXCEPT ![u] = "drop"]
    /\ UNCHANGED <<db, joinedAt, writes, rt, load, presence, watched, connected,
                   join, resolve, setting, wants, rushed, stale, overlap, opens,
                   faults>>

\* deleteRoomInternal: the row, and with it the members, the runtime and the
\* presence; the sockets in the hall are told.
Drop(u) ==
    /\ Quiet /\ leave[u] = "drop"
    /\ leave' = [leave EXCEPT ![u] = "no"]
    /\ IF db = NoUser
       THEN UNCHANGED <<db, joinedAt, rt, presence, resolve, wants>>
       ELSE /\ db' = NoUser /\ joinedAt' = [v \in Users |-> 0]
            /\ rt' = None /\ presence' = Empty /\ Orphaned
            /\ wants' = {s \in wants : join[s] # "no"}
    /\ UNCHANGED <<writes, load, watched, connected, join, setting, rushed,
                   stale, overlap, opens, moves, faults>>

\* acceptInvite, joinByToken: the row is of now, later than all the others.
AddMember(u) ==
    /\ Quiet /\ moves < MaxMoves /\ db # NoUser /\ u \notin Joined
    /\ moves' = moves + 1
    /\ joinedAt' = [joinedAt EXCEPT ![u] = Cardinality(Users) + moves']
    /\ UNCHANGED <<db, writes, rt, load, presence, watched, connected, join,
                   leave, resolve, setting, wants, rushed, stale, overlap,
                   opens, faults>>

-----------------------------------------------------------------------------
(* The absent host.                                                        *)

\* The grace timer fires: resolveHostAbsence takes the presence of now.
GraceFires ==
    /\ Quiet /\ rt # None /\ rt.timer /\ resolve.pc = "no"
    /\ rt' = [rt EXCEPT !.timer = FALSE]
    /\ resolve' = IF rt.host \in Present(presence) THEN NoResolve
                  ELSE [NoResolve EXCEPT !.pc = "order",
                                         !.present = Present(presence)]
    /\ UNCHANGED <<db, joinedAt, writes, load, presence, watched, connected,
                   join, leave, setting, wants, rushed, stale, overlap, opens,
                   moves, faults>>

\* The members are read: control goes to the first of those who were present;
\* if none was, the host is marked away, the show pauses and the state is saved.
ResolveOrder ==
    LET next == Candidates(rt.host, resolve.present)
    IN /\ Quiet /\ resolve.pc = "order" /\ resolve.live /\ rt # None
       /\ IF next # {}
          THEN /\ SetHost("resolve", First(next))
               /\ resolve' = [resolve EXCEPT !.pc = "set"]
               /\ UNCHANGED <<rt, overlap, stale>>
          ELSE /\ rt' = [rt EXCEPT !.away = TRUE]
               /\ resolve' = [resolve EXCEPT !.pc = "save", !.host = rt.host]
               /\ overlap' = (overlap \/ Moved)
               /\ stale' = (stale \/ Watching # {})
               /\ UNCHANGED setting
       /\ UNCHANGED <<db, joinedAt, writes, load, presence, watched, connected,
                      join, leave, wants, rushed, opens, moves, faults>>

\* The same for a runtime that has left the map: setHost is called all the same,
\* or the old runtime saved.
ResolveOrphan ==
    LET next == Candidates(resolve.host, resolve.present)
    IN /\ Quiet /\ resolve.pc = "order" /\ ~resolve.live
       /\ IF next # {}
          THEN /\ SetHost("resolve", First(next))
               /\ resolve' = [resolve EXCEPT !.pc = "set"]
               /\ UNCHANGED overlap
          ELSE /\ resolve' = [resolve EXCEPT !.pc = "save"]
               /\ overlap' = TRUE
               /\ UNCHANGED setting
       /\ UNCHANGED <<db, joinedAt, writes, rt, load, presence, watched,
                      connected, join, leave, wants, rushed, stale, opens, moves,
                      faults>>

\* The query fails: the error is logged and nothing more happens.
ResolveFails ==
    /\ Quiet /\ resolve.pc = "order" /\ faults < MaxFaults
    /\ faults' = faults + 1
    /\ resolve' = NoResolve
    /\ UNCHANGED <<db, joinedAt, writes, rt, load, presence, watched, connected,
                   join, leave, setting, wants, rushed, stale, overlap, opens,
                   moves>>

\* The state is saved.  If nobody was present when the timer fired, the runtime
\* and the presence are evicted, and evictRuntime saves the runtime once more.
ResolveSaved ==
    /\ Quiet /\ resolve.pc = "save"
    /\ db' = IF db = NoUser THEN NoUser ELSE resolve.host
    /\ resolve' = NoResolve
    /\ IF resolve.present = {} /\ rt # None
       THEN /\ rt' = None /\ presence' = Empty /\ Save(rt.host)
            /\ stale' = (stale \/ Watching # {})
       ELSE UNCHANGED <<rt, presence, writes, overlap, stale>>
    /\ UNCHANGED <<joinedAt, load, watched, connected, join, leave, setting,
                   wants, rushed, opens, moves, faults>>

\* control: a command of the host who is present; the state is saved, not
\* awaited.
Control(u) ==
    /\ Quiet /\ rt # None /\ rt.host = u /\ u \in Present(presence)
    /\ writes[u] < MaxWrites
    /\ Save(u)
    /\ UNCHANGED <<db, joinedAt, rt, load, presence, watched, connected, join,
                   leave, resolve, setting, wants, rushed, stale, opens, moves,
                   faults>>

\* A save reaches the database.
Saved(u) ==
    /\ Quiet /\ writes[u] > 0
    /\ writes' = [writes EXCEPT ![u] = @ - 1]
    /\ db' = IF db = NoUser THEN NoUser ELSE u
    /\ UNCHANGED <<joinedAt, rt, load, presence, watched, connected, join, leave,
                   resolve, setting, wants, rushed, stale, overlap, opens,
                   moves, faults>>

-----------------------------------------------------------------------------
JoinStep(s) == JoinMember(s) \/ Enter(s) \/ Answer(s)
LoadStep == LoadRead \/ LoadDone
SetHostStep(t) == SetHostWrite(t) \/ SetHostReturn(t)
LeaveStep(u) == LeaveOthers(u) \/ LeaveRow(u) \/ Drop(u)
ResolveStep == GraceFires \/ ResolveOrder \/ ResolveOrphan \/ ResolveSaved

Client == \/ \E s \in Sockets : JoinAsk(s) \/ Leave(s) \/ Disconnect(s)
          \/ \E u \in Users : LeaveRoom(u) \/ DeleteRoom(u) \/ AddMember(u)
                              \/ Control(u)
          \/ \E u, v \in Users : Transfer(u, v)

Faults == \/ ResolveFails
          \/ \E t \in Setters : SetHostFails(t)
          \/ \E s \in Sockets : AnswerFails(s)

Next == \/ Client \/ Faults \/ LoadStep \/ ResolveStep
        \/ \E s \in Sockets : JoinStep(s)
        \/ \E t \in Setters : SetHostStep(t)
        \/ \E u \in Users : LeaveStep(u) \/ Saved(u)

\* The server always goes on: the database answers, timers fire, and what was
\* waiting runs.  Nothing is assumed of the clients.
Fairness ==
    /\ WF_vars(LoadStep) /\ WF_vars(ResolveStep)
    /\ \A s \in Sockets : WF_vars(JoinStep(s))
    /\ \A t \in Setters : WF_vars(SetHostStep(t))
    /\ \A u \in Users : WF_vars(LeaveStep(u)) /\ WF_vars(Saved(u))

Spec == Init /\ [][Next]_vars
FairSpec == Spec /\ Fairness

-----------------------------------------------------------------------------
\* A hall whose host is absent while a member who could take over has it open
\* never waits for nothing: the grace timer runs, the absence is being resolved,
\* or a new host is being set, unless resolveHostAbsence went by an old look at
\* the hall or a query failed (onPresenceChanged, resolveHostAbsence, setHost).
HandoverPending ==
    (rt # None /\ rt.host \notin Present(presence) /\ Watching # {})
       => \/ rt.timer \/ (resolve.pc = "order" /\ resolve.live) \/ Writing
          \/ stale \/ faults > 0

\* A socket that the hall counts as present belongs to a client that has the
\* hall open, unless the client left, or the call failed, while its joinHall was
\* still running (joinHall, leaveHall, handleDisconnect).
GhostOnlyByRace ==
    \A s \in Sockets :
        s \in presence[Owner[s]] /\ db # NoUser => s \in wants \/ s \in rushed

\* A client whose joinHall has added its socket and who has the hall open is
\* counted as present, unless a runtime was evicted on the strength of an old
\* look at the presence (evictRuntime deletes the presence of the whole room).
PresentUnlessStale ==
    \A s \in wants : join[s] \in {"no", "set", "tail"} /\ db # NoUser
                          => s \in presence[Owner[s]] \/ stale

\* Except between the two halves of a hand-over, the host the hall obeys is the
\* host of the row, unless a hand-over crossed another write of the host or a
\* load of the room, or an evicted runtime was saved (setHost, persist,
\* loadRuntime).
HostSavedUnlessOverlap ==
    (rt # None /\ db # NoUser /\ ~Moved) => rt.host = db \/ overlap

\* A hall that a member has open gets a host who is present, or is closed by all
\* its members, or unloaded, unless a query fails (the grace timer and the
\* hand-over).
HandoverHappens ==
    (rt # None /\ Watching # {})
       ~> (rt = None \/ Watching = {} \/ rt.host \in Present(presence) \/ stale
           \/ faults > 0)

=============================================================================
