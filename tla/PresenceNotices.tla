--------------------------- MODULE PresenceNotices ---------------------------
(***************************************************************************)
(* The service lines of a watch-party chat about one person in one room:   *)
(* "left", "joined", and a "left" that became "back"                       *)
(* (backend/src/watch-party/watch-presence-notices.ts with its callers in  *)
(* watch-party.service.ts).  A PairState is an object: a publication keeps *)
(* the one it was called with, although the map may have forgotten it or   *)
(* hold another one.  Timers fire and windows pass at any time.            *)
(***************************************************************************)
EXTENDS Integers, Sequences

CONSTANTS Slots,        \* calls of publishLeft, markBack, handleArrival at once
          MaxPairs,     \* bound on the PairState objects made
          MaxNotices,   \* MAX_NOTICES_PER_WINDOW
          MaxTurns,     \* bound on what the person does, and on the deletion
          MaxFailures   \* bound on the failed calls, and on the restarts

ASSUME NoticesAssumption == /\ MaxPairs \in Nat \ {0}
                            /\ MaxNotices \in Nat \ {0}
                            /\ MaxTurns \in Nat /\ MaxFailures \in Nat

VARIABLES room,     \* the room exists
          member,   \* the person is a JOINED member
          here,     \* some socket of theirs is in the hall
          evicted,  \* history: their presence was dropped without a word, and
                    \* they have not come since
          quitting, \* leaveRoom runs: "no", or whether they were present then
          cur,      \* this.pairs: the object of the pair, 0 if there is none
          made,     \* objects made so far
          pair,     \* the PairState objects
          call,     \* the calls in flight
          rows,     \* the rows in the chat: the event of each
          crossed,  \* history: two calls were in flight together, or a
                    \* departure came while one was
          refused,  \* history: a row was not written: the limit, a failure, a
                    \* restart, or nobody asked for it
          turns, failures

noticesVars == <<room, member, here, evicted, quitting, cur, made, pair, call,
                 rows, crossed, refused, turns, failures>>

Pairs == 1..MaxPairs
Idle == [pc |-> "idle", pair |-> 0, row |-> 0]
Fresh == [timer |-> FALSE, away |-> FALSE, left |-> 0, recent |-> FALSE,
          created |-> 0]

NoticesTypeOK ==
    /\ room \in BOOLEAN /\ member \in BOOLEAN /\ here \in BOOLEAN
    /\ evicted \in BOOLEAN
    /\ quitting \in {"no", "present", "absent"}
    /\ cur \in 0..made /\ made \in 0..MaxPairs
    /\ pair \in [Pairs -> [timer : BOOLEAN, away : BOOLEAN,
                           left : 0..Len(rows), recent : BOOLEAN,
                           created : 0..MaxNotices]]
    /\ call \in [Slots -> [pc : {"idle", "ask", "left", "wrote", "mark",
                                 "last", "joined"},
                           pair : 0..made, row : 0..Len(rows)]]
    /\ rows \in Seq({"left", "joined", "back"})
    /\ crossed \in BOOLEAN /\ refused \in BOOLEAN
    /\ turns \in 0..MaxTurns /\ failures \in 0..MaxFailures

NoticesInit == /\ room = TRUE /\ member = TRUE
               /\ here = FALSE /\ evicted = FALSE /\ quitting = "no"
               /\ cur = 0 /\ made = 0 /\ pair = [p \in Pairs |-> Fresh]
               /\ call = [c \in Slots |-> Idle]
               /\ rows = <<>>
               /\ crossed = FALSE /\ refused = FALSE
               /\ turns = 0 /\ failures = 0

-----------------------------------------------------------------------------
Free == {c \in Slots : call[c].pc = "idle"}
Move == turns < MaxTurns /\ turns' = turns + 1

Crosses == crossed' = (crossed \/ Free # Slots)

\* The slot c holds a call at the point pc, about the object p.
At(c, pc, p, row) == [call EXCEPT ![c] = [pc |-> pc, pair |-> p, row |-> row]]
Ends(c) == [call EXCEPT ![c] = Idle]

\* allowCreate: the rows of the window are counted.
AllowCreate(q) == q.created < MaxNotices
Counted(q) == [q EXCEPT !.created = @ + 1]

\* publishLeft on the way to its creation, the object p being q: they are still
\* away, and the limit allows a row.
Decide(c, p, q) ==
    IF q.away /\ AllowCreate(q)
    THEN /\ pair' = [pair EXCEPT ![p] = Counted(q)]
         /\ call' = At(c, "left", p, 0)
         /\ UNCHANGED refused
    ELSE /\ pair' = [pair EXCEPT ![p] = q]
         /\ call' = Ends(c)
         /\ refused' = (refused \/ q.away)

\* handleArrival writes a line "joined" if the limit allows it.
Announce(c, p, q) ==
    /\ pair' = [pair EXCEPT ![p] = IF AllowCreate(q) THEN Counted(q) ELSE q]
    /\ call' = IF AllowCreate(q) THEN At(c, "joined", p, 0) ELSE Ends(c)
    /\ refused' = (refused \/ ~AllowCreate(q))

-----------------------------------------------------------------------------
(* The calls of the service.                                               *)

\* The object of the pair, and a new one if the map has none.
Own == IF cur = 0 THEN made + 1 ELSE cur
OwnState == IF cur = 0 THEN Fresh ELSE pair[cur]
Make == Own \in Pairs /\ cur' = Own /\ made' = IF cur = 0 THEN Own ELSE made

\* departed, unless it is to be silent.
Depart(c, kind, silent) ==
    LET q == [OwnState EXCEPT !.away = TRUE, !.timer = FALSE]
    IN /\ Make /\ Crosses
       /\ CASE silent -> /\ pair' = [pair EXCEPT ![Own] = OwnState]
                         /\ UNCHANGED <<call, refused>>
            [] ~silent /\ kind \in {"lost", "host"} ->
                         /\ pair' = [pair EXCEPT ![Own] = [q EXCEPT !.timer = TRUE]]
                         /\ UNCHANGED <<call, refused>>
            [] ~silent /\ kind = "left" ->
                         /\ pair' = [pair EXCEPT ![Own] = q]
                         /\ call' = At(c, "ask", Own, 0)
                         /\ UNCHANGED refused
            [] ~silent /\ kind = "quit" -> Decide(c, Own, q)

\* departed.  kind: "lost", a socket is gone; "left", an explicit departure;
\* "host", one of a host, who has to hand over first; "quit", immediate.
Departed(c, kind) ==
    Depart(c, kind, \/ OwnState.away /\ OwnState.left # 0
                    \/ OwnState.timer /\ kind = "lost")

\* handleArrival, the line found being taken from the object, or not.
Arrival(c, left) ==
    LET q == [OwnState EXCEPT !.away = FALSE, !.timer = FALSE]
    IN /\ Move /\ c \in Free /\ room /\ member /\ ~here
       /\ here' = TRUE /\ evicted' = FALSE /\ Make
       /\ IF cur = 0
          THEN /\ pair' = [pair EXCEPT ![Own] = Fresh]
               /\ call' = At(c, "last", Own, 0)
               /\ Crosses /\ UNCHANGED refused
          ELSE IF OwnState.timer \/ ~OwnState.away \/ OwnState.left = 0
          THEN /\ pair' = [pair EXCEPT ![cur] = q]
               /\ UNCHANGED <<call, crossed, refused>>
          ELSE IF OwnState.recent
          THEN /\ pair' = [pair EXCEPT ![cur] = [q EXCEPT !.left = left]]
               /\ call' = At(c, "mark", cur, OwnState.left)
               /\ Crosses /\ UNCHANGED refused
          ELSE Announce(c, cur, [q EXCEPT !.left = left]) /\ Crosses
       /\ UNCHANGED <<room, member, quitting, rows, failures>>

\* joinHall sees the first socket: arrived, handleArrival.
Arrive(c) == Arrival(c, 0)

\* leaveHall sees the last socket go; of a person who was evicted it sees none.
HallLeft(c, kind) ==
    /\ Move /\ c \in Free /\ here /\ kind # "quit"
    /\ here' = FALSE
    /\ Departed(c, kind)
    /\ UNCHANGED <<room, member, evicted, quitting, rows, failures>>

\* resolveHostAbsence found the hall empty, awaited, and evicts the runtime with
\* the presence of who came meanwhile (evictRuntime): nobody calls departed, and
\* their leaveHall returns early.
Evict ==
    /\ here /\ here' = FALSE /\ evicted' = TRUE
    /\ UNCHANGED <<room, member, quitting, cur, made, pair, call, rows, crossed,
                   refused, turns, failures>>

\* leaveRoom reads whether the person is present,
QuitAsk ==
    /\ Move /\ room /\ member /\ quitting = "no"
    /\ quitting' = IF here THEN "present" ELSE "absent"
    /\ UNCHANGED <<room, member, here, evicted, cur, made, pair, call, rows,
                   crossed, refused, failures>>

\* and when their row is deleted tells the notices if they were.
QuitRow(c) ==
    /\ c \in Free /\ room /\ member /\ quitting # "no"
    /\ member' = FALSE /\ here' = FALSE /\ quitting' = "no"
    /\ IF quitting = "present" THEN Departed(c, "quit")
       ELSE /\ refused' = (refused \/ here)
            /\ UNCHANGED <<cur, made, pair, call, crossed>>
    /\ UNCHANGED <<room, evicted, rows, turns, failures>>

\* acceptInvite, joinByToken
Rejoin == /\ Move /\ room /\ ~member
          /\ member' = TRUE
          /\ UNCHANGED <<room, here, evicted, quitting, cur, made, pair, call,
                         rows, crossed, refused, failures>>

\* clearRoom, when the room is deleted.
ClearRoom ==
    /\ Move /\ room
    /\ room' = FALSE /\ here' = FALSE /\ cur' = 0
    /\ pair' = [p \in Pairs |-> IF p = cur THEN [pair[p] EXCEPT !.timer = FALSE]
                                ELSE pair[p]]
    /\ UNCHANGED <<member, evicted, quitting, made, call, rows, crossed,
                   refused, failures>>

-----------------------------------------------------------------------------
(* The timers and the answers.                                             *)

Fire(c, p) ==
    /\ c \in Free /\ pair[p].timer
    /\ pair' = [pair EXCEPT ![p].timer = FALSE]
    /\ IF pair[p].away THEN call' = At(c, "ask", p, 0) /\ Crosses
                       ELSE UNCHANGED <<call, crossed>>
    /\ UNCHANGED <<room, member, here, evicted, quitting, cur, made, rows,
                   refused, turns, failures>>

\* publishLeft hears whether they are a member; if not, the pair is forgotten.
IsJoined(c) ==
    LET p == call[c].pair
    IN /\ call[c].pc = "ask"
       /\ IF room /\ member
          THEN Decide(c, p, pair[p]) /\ UNCHANGED cur
          ELSE /\ cur' = 0 /\ call' = Ends(c) /\ refused' = TRUE
               /\ UNCHANGED <<pair>>
       /\ UNCHANGED <<room, member, here, evicted, quitting, made, rows,
                      crossed, turns, failures>>

\* The database inserts a row: of publishLeft, which waits for its id, or of
\* handleArrival.  In a deleted room there is nothing to insert it into.
Insert(c) ==
    /\ call[c].pc \in {"left", "joined"}
    /\ IF room
       THEN /\ rows' = Append(rows, call[c].pc)
            /\ call' = IF call[c].pc = "joined" THEN Ends(c)
                       ELSE At(c, "wrote", call[c].pair, Len(rows) + 1)
       ELSE call' = Ends(c) /\ UNCHANGED rows
    /\ UNCHANGED <<room, member, here, evicted, quitting, cur, made, pair,
                   crossed, refused, turns, failures>>

\* Mutant of Wrote: nobody looks whether they are back.
WroteOnly(c) ==
    /\ call[c].pc = "wrote"
    /\ pair' = [pair EXCEPT ![call[c].pair].left = call[c].row,
                            ![call[c].pair].recent = TRUE]
    /\ call' = Ends(c)
    /\ UNCHANGED <<room, member, here, evicted, quitting, cur, made, rows,
                   crossed, refused, turns, failures>>

\* publishLeft has the id of its row.  If they came back meanwhile the row is
\* turned into "back" at once (markBack).
Wrote(c) ==
    LET p == call[c].pair
    IN /\ call[c].pc = "wrote"
       /\ pair' = [pair EXCEPT
                      ![p].left = IF pair[p].away THEN call[c].row ELSE 0,
                      ![p].recent = TRUE]
       /\ call' = IF pair[p].away THEN Ends(c) ELSE At(c, "mark", p, call[c].row)
       /\ UNCHANGED <<room, member, here, evicted, quitting, cur, made, rows,
                      crossed, refused, turns, failures>>

\* markBack: the row becomes "back".
Mark(c) ==
    /\ call[c].pc = "mark"
    /\ rows' = [rows EXCEPT ![call[c].row] = "back"]
    /\ call' = Ends(c)
    /\ UNCHANGED <<room, member, here, evicted, quitting, cur, made, pair,
                   crossed, refused, turns, failures>>

\* handleArrival of a person the process knows nothing of hears the last line
\* about them, and is silent if it says that they are in.
LastEvent(c) ==
    LET p == call[c].pair
        in == rows # <<>> /\ rows[Len(rows)] # "left"
    IN /\ call[c].pc = "last"
       /\ IF in THEN call' = Ends(c) /\ UNCHANGED <<pair, refused>>
                ELSE Announce(c, p, pair[p])
       /\ UNCHANGED <<room, member, here, evicted, quitting, cur, made, rows,
                      crossed, turns, failures>>

\* A write fails, or the answer to a query.
Fails(c) ==
    /\ failures < MaxFailures /\ call[c].pc \notin {"idle", "wrote"}
    /\ failures' = failures + 1
    /\ call' = Ends(c)
    /\ refused' = TRUE
    /\ UNCHANGED <<room, member, here, evicted, quitting, cur, made, pair,
                   rows, crossed, turns>>

\* The process restarts: the pairs and their timers are lost, and the calls.
Restart ==
    /\ failures < MaxFailures
    /\ failures' = failures + 1
    /\ here' = FALSE /\ quitting' = "no" /\ cur' = 0
    /\ pair' = [p \in Pairs |-> [pair[p] EXCEPT !.timer = FALSE]]
    /\ call' = [c \in Slots |-> Idle]
    /\ refused' = TRUE
    /\ UNCHANGED <<room, member, evicted, made, rows, crossed, turns>>

\* BACK_WINDOW_MS has passed since the row was written.
Age(p) == /\ pair[p].recent
          /\ pair' = [pair EXCEPT ![p].recent = FALSE]
          /\ UNCHANGED <<room, member, here, evicted, quitting, cur, made,
                         call, rows, crossed, refused, turns, failures>>

\* NOTICE_WINDOW_MS has passed since a row was counted.
Forget(p) == /\ pair[p].created > 0
             /\ pair' = [pair EXCEPT ![p].created = @ - 1]
             /\ UNCHANGED <<room, member, here, evicted, quitting, cur, made,
                            call, rows, crossed, refused, turns, failures>>

NoticesNext ==
    \/ \E c \in Slots :
          \/ Arrive(c) \/ QuitRow(c) \/ IsJoined(c) \/ Insert(c) \/ Wrote(c)
          \/ Mark(c) \/ LastEvent(c) \/ Fails(c)
          \/ \E kind \in {"lost", "left", "host"} : HallLeft(c, kind)
          \/ \E p \in Pairs : Fire(c, p)
    \/ \E p \in Pairs : Age(p) \/ Forget(p)
    \/ Evict \/ QuitAsk \/ Rejoin \/ ClearRoom \/ Restart

NoticesSpec == NoticesInit /\ [][NoticesNext]_noticesVars

-----------------------------------------------------------------------------
Settled == /\ room /\ quitting = "no" /\ Free = Slots
           /\ \A p \in Pairs : ~pair[p].timer
Last == rows[Len(rows)]

\* The last line about the person says that they are in the hall.
SaysIn == rows # <<>> /\ Last # "left"

\* When nothing is under way, the last line about the person says where they
\* are, and without a line they have never been there; unless two calls
\* overlapped or a row was not written.  A return that comes while the row of
\* the departure is being written is not lost (publishLeft, handleArrival).
\* Who was evicted may still be said to be in, until they come again; nobody
\* who is there is ever said to have left (evictRuntime, leaveHall).
LastLineTrue ==
    Settled /\ ~crossed /\ ~refused =>
        /\ here => SaysIn
        /\ SaysIn => here \/ evicted

=============================================================================
