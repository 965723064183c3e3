------------------------------ MODULE RoomViews ------------------------------
(***************************************************************************)
(* Who looks at a room, and so gets no pushes from it: RoomViewRegistry    *)
(* (backend/src/push/room-view.registry.ts), roomViewState, leaveRoom and  *)
(* disconnections in chat/chat.gateway.ts, the beacon of the push          *)
(* controller, and the room's page.  One page and its sockets, one after   *)
(* the other.  The handler of roomViewState is an event that asks the room *)
(* access cache; its key is the pair of this person and this room.         *)
(***************************************************************************)
EXTENDS RoomAccessCache, Sequences, SequencesExt

CONSTANTS Socks,     \* sockets of the page
          Key,       \* this person and this room
          None,
          MaxMoves   \* bound on what the person and the network do

ASSUME ViewAssumption == None \notin Socks /\ Key \in Keys

VARIABLES shown,    \* the room is on the screen
          cur,      \* the page's socket
          fresh,    \* sockets that were not used yet
          up,       \* sockets that are connected, as the server sees it
          known,    \* sockets with client.data.user
          frames,   \* emitted by a socket and not handled yet
          asked,    \* roomViewState handlers that await the user's row
          line,     \* those that await the access, in the order of their asking
          viewed,   \* sockets whose client.data.viewedRooms has the room
          views,    \* sockets that have the room in the registry
          beacons,  \* view-state/clear requests on their way
          moves,
          late,     \* history: a view of a socket that had gone
          swapped,  \* history: sockets whose handlers overtook each other
          refused,  \* history: sockets whose handler was refused or failed
          cut       \* history: sockets whose view was cleared by a beacon

page == <<shown, cur, fresh, frames, beacons, moves>>
handlers == <<asked, line, known>>
registry == <<viewed, views>>
history == <<late, swapped, refused, cut>>
viewVars == <<page, up, handlers, registry, history, vars>>

Frames == {"on", "off", "leave"}

ViewTypeOK ==
    /\ shown \in BOOLEAN /\ cur \in Socks \cup {None}
    /\ fresh \subseteq Socks /\ up \subseteq Socks /\ known \subseteq Socks
    /\ frames \in [Socks -> Seq(Frames)] /\ asked \in [Socks -> Seq({"on", "off"})]
    /\ line \in Seq([event : Events, sock : Socks, on : BOOLEAN])
    /\ viewed \subseteq Socks /\ views \subseteq Socks /\ beacons \subseteq Socks
    /\ moves \in 0..MaxMoves
    /\ late \subseteq Socks /\ swapped \subseteq Socks /\ refused \subseteq Socks
    /\ cut \subseteq Socks

ViewInit == /\ Init
            /\ shown \in BOOLEAN /\ cur = None /\ fresh = Socks /\ up = {} /\ known = {}
            /\ frames = [s \in Socks |-> <<>>] /\ asked = [s \in Socks |-> <<>>]
            /\ line = <<>> /\ viewed = {} /\ views = {} /\ beacons = {} /\ moves = 0
            /\ late = {} /\ swapped = {} /\ refused = {} /\ cut = {}

Move == moves < MaxMoves /\ moves' = moves + 1
Emit(q) == frames' = IF cur = None THEN frames
                     ELSE [frames EXCEPT ![cur] = @ \o q]
Beacon == beacons' = beacons \cup ({cur} \ {None})
Elsewhere == UNCHANGED <<up, handlers, registry, history, vars>>

-----------------------------------------------------------------------------
(* The page. *)

\* The room comes on the screen.
Show == /\ Move /\ ~shown /\ shown' = TRUE
        /\ Emit(<<"on">>)
        /\ UNCHANGED <<cur, fresh, beacons>> /\ Elsewhere

\* The application is hidden: the socket is told, and a keepalive request sent.
Hide == /\ Move /\ shown /\ shown' = FALSE
        /\ Emit(<<"off">>) /\ Beacon
        /\ UNCHANGED <<cur, fresh>> /\ Elsewhere

\* Another room is opened on the same page.
Switch == /\ Move /\ shown /\ shown' = FALSE
          /\ Emit(<<"off", "leave">>)
          /\ UNCHANGED <<cur, fresh, beacons>> /\ Elsewhere

\* The page goes and closes its socket; its last leaveRoom says no more.
Away == /\ Move /\ cur # None /\ shown' = FALSE /\ cur' = None
        /\ UNCHANGED <<fresh, frames, beacons>> /\ Elsewhere

\* The page connects: it tells at once whether it is visible.
Connect(s) == /\ Move /\ cur = None /\ s \in fresh
              /\ cur' = s /\ fresh' = fresh \ {s} /\ up' = up \cup {s}
              /\ frames' = [frames EXCEPT ![s] = IF shown THEN <<"on">> ELSE <<"off">>]
              /\ beacons' = IF shown THEN beacons ELSE beacons \cup {s}
              /\ UNCHANGED <<shown, handlers, registry, history, vars>>

\* The page finds its connection broken.
Drop == /\ Move /\ cur # None /\ cur' = None
        /\ UNCHANGED <<shown, fresh, frames, beacons>> /\ Elsewhere

-----------------------------------------------------------------------------
(* The server. *)

\* handleConnection has read the user's row.
Greet(s) == /\ s \in up \ known /\ known' = known \cup {s}
            /\ UNCHANGED <<page, up, asked, line, registry, history, vars>>

Ask(e, s, on) == /\ \A i \in DOMAIN line : line[i].event # e
                 /\ Resolve(e, Key)
                 /\ line' = Append(line, [event |-> e, sock |-> s, on |-> on])

\* A frame arrives.  leaveRoom clears the view without awaiting anything.
\* roomViewState asks for the access, or first for the user's row, on its own.
Handle(s) ==
    /\ s \in up /\ frames[s] # <<>>
    /\ frames' = [frames EXCEPT ![s] = Tail(@)]
    /\ LET f == Head(frames[s]) IN
       \/ /\ f = "leave"
          /\ IF s \in known
             THEN viewed' = viewed \ {s} /\ views' = views \ {s} /\ cut' = cut \ {s}
             ELSE UNCHANGED <<registry, cut>>
          /\ UNCHANGED <<asked, line, swapped, vars>>
       \/ /\ f # "leave" /\ s \notin known
          /\ asked' = [asked EXCEPT ![s] = Append(@, f)]
          /\ UNCHANGED <<line, registry, cut, swapped, vars>>
       \/ /\ f # "leave" /\ s \in known
          /\ \E e \in Events : Ask(e, s, f = "on")
          /\ swapped' = IF asked[s] = <<>> THEN swapped ELSE swapped \cup {s}
          /\ UNCHANGED <<asked, registry, cut>>
    /\ UNCHANGED <<shown, cur, fresh, beacons, moves, up, known, late, refused>>

\* One of the handlers that await the user's row has it, not always the first.
Known(s, i) ==
    /\ i \in DOMAIN asked[s]
    /\ asked' = [asked EXCEPT ![s] = RemoveAt(@, i)]
    /\ known' = known \cup {s}
    /\ swapped' = IF i = 1 THEN swapped ELSE swapped \cup {s}
    /\ \E e \in Events : Ask(e, s, asked[s][i] = "on")
    /\ UNCHANGED <<page, up, registry, late, refused, cut>>

\* That query fails: the handler takes the person for a stranger.
UnknownTo(s, i) == /\ i \in DOMAIN asked[s]
                   /\ asked' = [asked EXCEPT ![s] = RemoveAt(@, i)]
                   /\ refused' = refused \cup {s}
                   /\ UNCHANGED <<page, up, known, line, registry, late, swapped, cut, vars>>

\* The handler goes on with its answer.
Viewed ==
    /\ line # <<>> /\ line' = Tail(line)
    /\ LET h == Head(line) IN
       /\ Finish(h.event)
       /\ \/ /\ event[h.event].pc = "granted" /\ h.on /\ h.sock \notin viewed
             /\ viewed' = viewed \cup {h.sock} /\ views' = views \cup {h.sock}
             /\ late' = IF h.sock \in up THEN late ELSE late \cup {h.sock}
             /\ UNCHANGED <<refused, cut>>
          \/ /\ event[h.event].pc = "granted" /\ ~h.on /\ h.sock \in viewed
             /\ viewed' = viewed \ {h.sock} /\ views' = views \ {h.sock}
             /\ cut' = cut \ {h.sock}
             /\ UNCHANGED <<late, refused>>
          \/ /\ event[h.event].pc = "granted" /\ (h.on <=> h.sock \in viewed)
             /\ UNCHANGED <<registry, late, refused, cut>>
          \/ /\ event[h.event].pc # "granted"
             /\ refused' = refused \cup {h.sock}
             /\ UNCHANGED <<registry, late, cut>>
    /\ UNCHANGED <<page, up, asked, known, swapped>>

\* view-state/clear: the socket's views go, its viewedRooms stay.
Clear(s) == /\ s \in beacons /\ beacons' = beacons \ {s}
            /\ views' = views \ {s}
            /\ cut' = IF s \in views THEN cut \cup {s} ELSE cut
            /\ UNCHANGED <<shown, cur, fresh, frames, moves, up, handlers, viewed, late,
                           swapped, refused, vars>>

BeaconLost(s) == /\ Move /\ s \in beacons /\ beacons' = beacons \ {s}
                 /\ UNCHANGED <<shown, cur, fresh, frames>> /\ Elsewhere

Gone(s) == /\ up' = up \ {s}
           /\ frames' = [frames EXCEPT ![s] = <<>>]
           /\ UNCHANGED <<shown, cur, fresh, beacons, moves, handlers, late, swapped,
                          refused, vars>>

\* Mutant of Close: the views of a socket that has gone stay.
CloseKeepingViews(s) == /\ s \in up /\ UNCHANGED <<registry, cut>> /\ Gone(s)

\* The server notices that a socket is gone, before or after its page does;
\* what has not arrived is lost.
Close(s) == /\ s \in up
            /\ IF s \in known
               THEN viewed' = viewed \ {s} /\ views' = views \ {s} /\ cut' = cut \ {s}
               ELSE UNCHANGED <<registry, cut>>
            /\ Gone(s)

\* The rest of the gateway around the cache: other events, members who leave or
\* come, queries, time.
Busy(e) == \E i \in DOMAIN line : line[i].event = e
Cache == /\ \/ \E e \in Events : ~Busy(e) /\ (Finish(e) \/ \E k \in Keys \ {Key} : Resolve(e, k))
            \/ \E k \in Keys : \/ Query(k) \/ Loaded(k) \/ LoadFails(k)
                               \/ Leave(k) \/ Invalidate(k) \/ Join(k)
            \/ Tick
         /\ UNCHANGED <<page, up, handlers, registry, history>>

ViewNext == \/ Show \/ Hide \/ Switch \/ Away \/ Drop
            \/ \E s \in Socks : \/ Connect(s) \/ Greet(s) \/ Handle(s) \/ Clear(s)
                                \/ BeaconLost(s) \/ Close(s)
            \/ \E s \in Socks : \E i \in DOMAIN asked[s] : Known(s, i) \/ UnknownTo(s, i)
            \/ Viewed
            \/ Cache

ViewSpec == ViewInit /\ [][ViewNext]_viewVars

-----------------------------------------------------------------------------
Looking(s) == shown /\ cur = s

\* A handler or a frame of s that says so is on its way.
Saying(s, words) ==
    \/ \E i \in DOMAIN frames[s] : frames[s][i] \in words
    \/ \E i \in DOMAIN asked[s] : asked[s][i] \in words
    \/ \E i \in DOMAIN line : line[i].sock = s /\ (IF line[i].on THEN "on" ELSE "off") \in words

\* Who gets no pushes looks at the room, or the end of it is on its way: a frame,
\* or a break that the server has not noticed.  And who looks gets none once
\* nothing is on its way.  Excepted are handlers that went on after their
\* socket had gone, overtook each other before the user was known, or were
\* refused; and beacons that cleared a view the page has taken up again.
ViewsExplained ==
    /\ \A s \in views \ (late \cup swapped \cup refused) :
          \/ Looking(s) \/ Saying(s, {"off", "leave"})
          \/ s \in up /\ cur # s
    /\ \A s \in up \ (views \cup cut \cup swapped \cup refused) :
          Looking(s) => Saying(s, Frames)

=============================================================================
