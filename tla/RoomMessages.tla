----------------------------- MODULE RoomMessages -----------------------------
(***************************************************************************)
(* The texts of one chat room: the handlers sendMessage, editMessage,      *)
(* deleteMessage and joinRoom of chat/chat.gateway.ts with the rows they   *)
(* keep (messages/messages.service.ts), and the pages that show the room   *)
(* (frontend chat/[roomId]/page.tsx): the texts that wait for their echo   *)
(* (lib/chatOutgoing.ts) and the merging of a history into what is shown   *)
(* (lib/chatReconcile.ts).                                                 *)
(*                                                                         *)
(* Handlers run concurrently: between their queries anything may happen.   *)
(* What the server emits to a socket arrives in order, or is lost with it. *)
(* A row is named by its text and by how often the text had been stored.   *)
(***************************************************************************)
EXTENDS Integers, Sequences, FiniteSetsExt

CONSTANTS Pages, Moderators, Texts,
          Author,       \* text -> the page it is written on, or Elsewhere
          Old,          \* a text that may be in the room already
          Window,       \* HISTORY_PAGE_SIZE
          Skew,         \* page -> how far its clock is ahead
          MaxSends,     \* bound on the attempts to send a text, all together
          MaxChanges,   \* bound on the edits and deletions
          Elsewhere,    \* the pages that are not looked at
          MaxFaults     \* bound on broken sockets, failed queries and fetches

Clients == Pages \cup {Elsewhere}

ASSUME RoomAssumption ==
    /\ Old \in Texts /\ IsFiniteSet(Texts)
    /\ Moderators \subseteq Clients /\ Author \in [Texts -> Clients]
    /\ Window \in Nat \ {0} /\ Skew \in [Pages -> Nat]
    /\ MaxSends \in Nat \ {0} /\ MaxChanges \in Nat /\ MaxFaults \in Nat
    /\ Elsewhere \notin Pages

VARIABLES link,    \* pages whose socket is connected
          room,    \* sockets that are in the room, on the server
          inbox,   \* events on their way to a page
          db,      \* the rows of the room: id -> the version of its content
          born,    \* createdAt of every row there was
          clock,
          send,    \* handlers of sendMessage, by text and attempt
          change,  \* the handler of editMessage or deleteMessage of a page
          join,    \* the handler of joinRoom of a page
          fetch,   \* a history that a page has asked for over HTTP
          shown,   \* messages on a page: id -> version
          bubble,  \* the text on its page while it has no message
          queue,   \* OutgoingTextQueue
          sentAt,  \* the time its page put on a bubble
          since,   \* history: from when on the socket's history reaches a page
          stale,   \* history: rows of which a page was last told what was over
          gone,    \* history: texts that their author has dismissed or left
          paged,   \* history: texts that an older page brought to their page
          wiped,   \* history: texts whose bubble went when the page was renewed
          changes, faults

server == <<room, db, born, clock, send, change, join>>
page == <<shown, bubble, queue, sentAt, since, stale, gone, paged,
          wiped>>
vars == <<link, inbox, server, fetch, page, changes, faults>>

None == -1
Attempts == Texts \X (1..MaxSends)
Ids == Attempts
\* Times are even for rows and odd for bubbles, and so never equal.
Time == 0..(2 * Cardinality(Attempts) + 2)
Versions == 0..MaxChanges
Views == [Ids -> Versions \cup {None}]
Blank == [i \in Ids |-> None]
AtFirst == [Blank EXCEPT ![<<Old, 1>>] = 0]
Has(view) == {i \in Ids : view[i] # None}

Idle == [pc |-> "no", id |-> None, body |-> None, live |-> FALSE]
Asleep == [pc |-> "no", snap |-> Blank, from |-> None]

TypeOK ==
    /\ link \subseteq Pages /\ room \subseteq link
    /\ gone \cup paged \cup wiped \subseteq Texts
    /\ db \in Views /\ born \in [Ids -> Time \cup {None}] /\ clock \in Time
    /\ \A a \in Attempts : send[a].pc \in {"no", "ask", "insert", "tell", "echo", "told", "echoed"}
    /\ \A c \in Clients : change[c].pc \in {"no", "edit", "delete", "tellEdit", "tellGone"}
    /\ \A p \in Pages : /\ join[p].pc \in {"no", "ask", "read", "tell"}
                        /\ fetch[p].pc \in {"no", "page", "older", "gotPage", "gotOlder"}
                        /\ join[p].snap \in Views /\ fetch[p].snap \in Views
    /\ shown \in [Pages -> Views] /\ stale \in [Pages -> SUBSET Ids]
    /\ bubble \in [Texts -> {"no", "sending", "failed"}]
    /\ queue \in [Texts -> {"no", "sending", "failed"}]
    /\ since \in [Pages -> Time \cup {None}]

Init ==
    /\ link = {} /\ room = {} /\ inbox = [p \in Pages |-> <<>>]
    /\ db \in {Blank, AtFirst} /\ born = db /\ clock = 2
    /\ send = [a \in Attempts |-> Idle] /\ change = [c \in Clients |-> Idle]
    /\ join = [p \in Pages |-> Asleep] /\ fetch = [p \in Pages |-> Asleep]
    /\ shown = [p \in Pages |-> Blank] /\ bubble = [t \in Texts |-> "no"]
    /\ queue = [t \in Texts |-> "no"]
    /\ sentAt = [t \in Texts |-> IF t = Old /\ db # Blank THEN 0 ELSE None]
    /\ since = [p \in Pages |-> None] /\ stale = [p \in Pages |-> {}]
    /\ gone = {} /\ paged = {} /\ wiped = {} /\ changes = 0 /\ faults = 0

-----------------------------------------------------------------------------
(* The server.                                                             *)

\* server.to(roomId).emit.
ToRoom(event) ==
    inbox' = [p \in Pages |-> IF p \in room THEN Append(inbox[p], event) ELSE inbox[p]]

\* client.emit, to the socket that asked, if it is still there.
ToClient(p, live, event) ==
    inbox' = IF live THEN [inbox EXCEPT ![p] = Append(@, event)] ELSE inbox

RowOf(t) == {i \in Has(db) : i[1] = t}

\* sendMessage looks whether the text is there already; createdAt is taken on the
\* way to the insert.
SendAsk(a) ==
    /\ send[a].pc = "ask"
    /\ IF RowOf(a[1]) # {}
       THEN \E i \in RowOf(a[1]) :
                /\ send' = [send EXCEPT ![a] = [@ EXCEPT !.pc = "echo", !.id = i,
                                                         !.body = db[i]]]
                /\ UNCHANGED <<born, clock>>
       ELSE \E k \in 1..MaxSends :
                /\ born[<<a[1], k>>] = None
                /\ \A j \in 1..k - 1 : born[<<a[1], j>>] # None
                /\ born' = [born EXCEPT ![<<a[1], k>>] = clock]
                /\ clock' = clock + 2
                /\ send' = [send EXCEPT ![a] = [@ EXCEPT !.pc = "insert", !.id = <<a[1], k>>]]
    /\ UNCHANGED <<link, inbox, room, db, change, join, fetch, page, changes, faults>>

\* The insert; the unique index (senderId, clientMessageId) refuses a second row,
\* and the one that is there is read instead.
SendInsert(a) ==
    /\ send[a].pc = "insert"
    /\ IF RowOf(a[1]) # {}
       THEN \E i \in RowOf(a[1]) :
                /\ send' = [send EXCEPT ![a] = [@ EXCEPT !.pc = "echo", !.id = i,
                                                         !.body = db[i]]]
                /\ born' = [born EXCEPT ![send[a].id] = None]
                /\ UNCHANGED db
       ELSE /\ db' = [db EXCEPT ![send[a].id] = 0]
            /\ send' = [send EXCEPT ![a] = [@ EXCEPT !.pc = "tell", !.body = 0]]
            /\ UNCHANGED born
    /\ UNCHANGED <<link, inbox, room, clock, change, join, fetch, page, changes, faults>>

News(h) == [kind |-> "new", id |-> h.id, body |-> h.body]

\* A new message goes to the room, the echo of one that was there to its sender.
SendTell(a) ==
    /\ \/ /\ send[a].pc = "tell" /\ ToRoom(News(send[a]))
          /\ send' = [send EXCEPT ![a] = [Idle EXCEPT !.pc = "told"]]
       \/ /\ send[a].pc = "echo" /\ ToClient(Author[a[1]], send[a].live, News(send[a]))
          /\ send' = [send EXCEPT ![a] = [Idle EXCEPT !.pc = "echoed"]]
    /\ UNCHANGED <<link, room, db, born, clock, change, join, fetch, page, changes, faults>>

\* editMessage and deleteMessage change the row, if it is still there, and tell
\* the room.
ChangeRow(c) ==
    LET h == change[c]
    IN /\ h.pc \in {"edit", "delete"}
       /\ IF db[h.id] = None
          THEN change' = [change EXCEPT ![c] = Idle] /\ UNCHANGED db
          ELSE /\ db' = [db EXCEPT ![h.id] = IF h.pc = "edit" THEN h.body ELSE None]
               /\ change' = [change EXCEPT ![c].pc =
                      IF h.pc = "edit" THEN "tellEdit" ELSE "tellGone"]
       /\ UNCHANGED <<link, inbox, room, born, clock, send, join, fetch, page, changes, faults>>

ChangeTell(c) ==
    LET h == change[c]
    IN /\ h.pc \in {"tellEdit", "tellGone"}
       /\ ToRoom([kind |-> IF h.pc = "tellEdit" THEN "edit" ELSE "gone",
                  id |-> h.id, body |-> h.body])
       /\ change' = [change EXCEPT ![c] = Idle]
       /\ UNCHANGED <<link, room, db, born, clock, send, join, fetch, page, changes, faults>>

\* The rows of a set that are the newest, as many as the window holds.
Newest(ids) ==
    {i \in ids : Cardinality({j \in ids : born[j] > born[i]}) < Window}

Snapshot(ids) == [i \in Ids |-> IF i \in ids THEN db[i] ELSE None]

\* Mutant of JoinRoom: the socket enters the room after the history is read.
JoinRoomLate(p) ==
    \/ /\ join[p].pc = "ask" /\ join' = [join EXCEPT ![p].pc = "read"]
       /\ UNCHANGED <<room, inbox>>
    \/ /\ join[p].pc = "read"
       /\ join' = [join EXCEPT ![p] = [@ EXCEPT !.pc = "tell", !.snap = Snapshot(Newest(Has(db)))]]
       /\ UNCHANGED <<room, inbox>>
    \/ /\ join[p].pc = "tell" /\ room' = room \cup {p}
       /\ ToClient(p, TRUE, [kind |-> "history", snap |-> join[p].snap])
       /\ join' = [join EXCEPT ![p] = Asleep]

\* joinRoom: access, client.join; then the history; then, after other queries, it
\* is emitted.
JoinRoom(p) ==
    \/ /\ join[p].pc = "ask" /\ room' = room \cup {p}
       /\ join' = [join EXCEPT ![p].pc = "read"] /\ UNCHANGED inbox
    \/ /\ join[p].pc = "read"
       /\ join' = [join EXCEPT ![p] = [@ EXCEPT !.pc = "tell", !.snap = Snapshot(Newest(Has(db)))]]
       /\ UNCHANGED <<room, inbox>>
    \/ /\ join[p].pc = "tell"
       /\ ToClient(p, TRUE, [kind |-> "history", snap |-> join[p].snap])
       /\ join' = [join EXCEPT ![p] = Asleep] /\ UNCHANGED room

JoinStep(p) ==
    /\ JoinRoom(p)
    /\ UNCHANGED <<link, db, born, clock, send, change, fetch, page, changes, faults>>

\* getRoomMessagesBefore: the rows before one that is still there.
Before(id) == {i \in Has(db) : db[id] # None /\ born[i] < born[id]}

\* GET messages/room and messages/room/older read the rows.
FetchRead(p) ==
    /\ \/ /\ fetch[p].pc = "page"
          /\ fetch' = [fetch EXCEPT ![p] = [@ EXCEPT !.pc = "gotPage",
                 !.snap = Snapshot(Newest(Has(db)))]]
       \/ /\ fetch[p].pc = "older"
          /\ fetch' = [fetch EXCEPT ![p] = [@ EXCEPT !.pc = "gotOlder",
                 !.snap = Snapshot(Newest(Before(fetch[p].from)))]]
    /\ UNCHANGED <<link, inbox, server, page, changes, faults>>

-----------------------------------------------------------------------------
(* The page.                                                               *)

OfText(view, t) == {i \in Has(view) : i[1] = t}

Newer(snap, i) == Has(snap) # {} /\ \A j \in Has(snap) : born[i] > born[j]
Older(snap, i) == Has(snap) # {} /\ \A j \in Has(snap) : born[i] < born[j]

\* reconcileMessages: what stays of the messages that the history does not hold.
Kept(p, snap) ==
    {i \in Has(shown[p]) \ Has(snap) : Newer(snap, i) \/ Older(snap, i)}

\* Mutant of BubbleStays: only what is newer than the history stays.
BubbleNewer(t, snap) ==
    Has(snap) # {} /\ \A j \in Has(snap) : sentAt[t] > born[j]

\* Mutant of BubbleStays: every bubble is kept.
BubbleAlways(t, snap) == TRUE

\* A bubble stays while the history does not hold its text, or if it is newer.
BubbleStays(t, snap) ==
    \/ OfText(snap, t) = {}
    \/ Has(snap) # {} /\ \A j \in Has(snap) : sentAt[t] > born[j]

Covers(snap, i) == ~Newer(snap, i) /\ ~Older(snap, i)

\* What a page makes of a row when a history comes is over: the history is, or the
\* page keeps what it had, or it forgets a row that the history missed.
Overtaken(p, snap, i) ==
    IF i \in Has(snap) THEN snap[i] # db[i]
    ELSE IF i \in Kept(p, snap) THEN shown[p][i] # db[i]
    ELSE Covers(snap, i) /\ db[i] # None

Reaches(snap) ==
    IF Cardinality(Has(snap)) < Window THEN 0 ELSE Min({born[j] : j \in Has(snap)})

\* applyServerHistory.
Apply(p, snap) ==
    LET mine == {t \in Texts : Author[t] = p}
    IN /\ shown' = [shown EXCEPT ![p] = [i \in Ids |->
              IF i \in Kept(p, snap) THEN shown[p][i] ELSE snap[i]]]
       /\ queue' = [t \in Texts |->
              IF t \in mine /\ OfText(snap, t) # {} THEN "no" ELSE queue[t]]
       /\ bubble' = [t \in Texts |->
              IF t \in mine /\ ~BubbleStays(t, snap) THEN "no" ELSE bubble[t]]
       /\ stale' = [stale EXCEPT ![p] =
              {i \in Ids : Overtaken(p, snap, i) \/ (i \in stale[p] /\ ~Covers(snap, i))}]
       /\ UNCHANGED <<sentAt, gone, paged, wiped>>

\* What an event says of a row is over.
Heard(p, i, over) ==
    stale' = [stale EXCEPT ![p] = IF over THEN @ \cup {i} ELSE @ \ {i}]

\* onNewMessage, with OutgoingTextQueue.confirm and integrateEcho.
OnNew(p, e) ==
    LET t == e.id[1]
    IN IF shown[p][e.id] # None THEN UNCHANGED page
       ELSE /\ shown' = [shown EXCEPT ![p][e.id] = e.body]
            /\ queue' = IF Author[t] = p THEN [queue EXCEPT ![t] = "no"] ELSE queue
            /\ bubble' = IF Author[t] = p THEN [bubble EXCEPT ![t] = "no"] ELSE bubble
            /\ Heard(p, e.id, db[e.id] # e.body)
            /\ UNCHANGED <<sentAt, since, gone, paged, wiped>>

\* onMessageDeleted, onMessageEdited.
OnChange(p, e) ==
    IF e.kind = "edit" /\ shown[p][e.id] = None THEN UNCHANGED page
    ELSE LET body == IF e.kind = "gone" THEN None ELSE e.body
         IN /\ shown' = [shown EXCEPT ![p][e.id] = body]
            /\ Heard(p, e.id, db[e.id] # body)
            /\ UNCHANGED <<bubble, queue, sentAt, since, gone, paged, wiped>>

\* The next event of the socket is handled.
Handle(p) ==
    LET e == Head(inbox[p])
    IN /\ inbox[p] # <<>> /\ inbox' = [inbox EXCEPT ![p] = Tail(@)]
       /\ \/ e.kind = "new" /\ OnNew(p, e)
          \/ e.kind \in {"gone", "edit"} /\ OnChange(p, e)
          \/ /\ e.kind = "history" /\ Apply(p, e.snap)
             /\ since' = [since EXCEPT ![p] = Reaches(e.snap)]
       /\ UNCHANGED <<link, server, fetch, changes, faults>>

\* The answer of a fetch: the first page is merged, an older one is put in front
\* if the socket is connected by then.
Fetched(p) ==
    /\ \/ fetch[p].pc = "gotPage" /\ Apply(p, fetch[p].snap) /\ UNCHANGED since
       \/ LET extra == {i \in Has(fetch[p].snap) \ Has(shown[p]) : p \in link}
          IN /\ fetch[p].pc = "gotOlder"
             /\ shown' = [shown EXCEPT ![p] = [i \in Ids |->
                    IF i \in extra THEN fetch[p].snap[i] ELSE shown[p][i]]]
             /\ stale' = [stale EXCEPT ![p] =
                    (@ \ extra) \cup {i \in extra : fetch[p].snap[i] # db[i]}]
             /\ paged' = paged \cup {i[1] : i \in {j \in extra : Author[j[1]] = p}}
             /\ UNCHANGED <<bubble, queue, sentAt, since, gone, wiped>>
    /\ fetch' = [fetch EXCEPT ![p] = Asleep]
    /\ UNCHANGED <<link, inbox, server, changes, faults>>

Begun == {a \in Attempts : send[a].pc # "no"}

NextAttempt(t) == {k \in 1..MaxSends :
    /\ Cardinality(Begun) < MaxSends /\ <<t, k>> \notin Begun
    /\ \A j \in 1..k - 1 : <<t, j>> \in Begun}

Emit(t) == \E k \in NextAttempt(t) :
    send' = [send EXCEPT ![<<t, k>>] =
                 [Idle EXCEPT !.pc = "ask", !.live = Author[t] \in Pages]]

\* handleSend.
Write(t) ==
    /\ Author[t] \in link /\ sentAt[t] = None /\ Emit(t)
    /\ bubble' = [bubble EXCEPT ![t] = "sending"]
    /\ queue' = [queue EXCEPT ![t] = "sending"]
    /\ sentAt' = [sentAt EXCEPT ![t] = clock - 1 + Skew[Author[t]]]
    /\ UNCHANGED <<link, inbox, room, db, born, clock, change, join, fetch, shown,
                   since, stale, gone, paged, wiped, changes, faults>>

\* A text from another page; what that page shows is not looked at.
WriteElsewhere(t) ==
    /\ Author[t] = Elsewhere /\ (sentAt[t] = None \/ <<t, 1>> \in Begun) /\ Emit(t)
    /\ UNCHANGED <<link, inbox, room, db, born, clock, change, join, fetch, page,
                   changes, faults>>

\* The timer of a text: no echo for SEND_CONFIRM_TIMEOUT_MS.
TimeOut(t) ==
    /\ queue[t] = "sending" /\ queue' = [queue EXCEPT ![t] = "failed"]
    /\ bubble' = [bubble EXCEPT ![t] = IF @ = "no" THEN @ ELSE "failed"]
    /\ UNCHANGED <<link, inbox, server, fetch, shown, sentAt, since, stale, gone, paged,
                   wiped, changes, faults>>

\* handleRetryUnsent, on a bubble that shows its button.
Retry(t) ==
    /\ bubble[t] = "failed" /\ queue[t] # "no" /\ Author[t] \in link /\ Emit(t)
    /\ bubble' = [bubble EXCEPT ![t] = "sending"]
    /\ queue' = [queue EXCEPT ![t] = "sending"]
    /\ UNCHANGED <<link, inbox, room, db, born, clock, change, join, fetch, shown,
                   sentAt, since, stale, gone, paged, wiped, changes, faults>>

\* handleDismissUnsent.
Dismiss(t) ==
    /\ bubble[t] # "no" /\ bubble' = [bubble EXCEPT ![t] = "no"]
    /\ queue' = [queue EXCEPT ![t] = "no"] /\ gone' = gone \cup {t}
    /\ UNCHANGED <<link, inbox, server, fetch, shown, sentAt, since, stale, paged,
                   wiped, changes, faults>>

\* handleSaveEditedMessage and handleDeleteMessage, on a message that is shown.
Change(c, i, pc) ==
    /\ IF c \in Pages THEN c \in link /\ shown[c][i] # None ELSE db[i] # None
    /\ Author[i[1]] = c \/ (pc = "delete" /\ c \in Moderators)
    /\ change[c].pc = "no" /\ changes < MaxChanges /\ changes' = changes + 1
    /\ change' = [change EXCEPT ![c] = [Idle EXCEPT !.pc = pc, !.id = i, !.body = changes + 1]]
    /\ UNCHANGED <<link, inbox, room, db, born, clock, send, join, fetch, page, faults>>

\* The socket connects, and the page asks for the room.
Connect(p) ==
    /\ p \notin link /\ link' = link \cup {p}
    /\ join' = [join EXCEPT ![p] = [Asleep EXCEPT !.pc = "ask"]]
    /\ UNCHANGED <<inbox, room, db, born, clock, send, change, fetch, page, changes, faults>>

Fault == faults < MaxFaults /\ faults' = faults + 1

\* The page asks for a history over HTTP, or for what is older than all it shows.
Fetch(p, pc) ==
    /\ Fault /\ fetch[p].pc = "no"
    /\ \/ pc = "page" /\ fetch' = [fetch EXCEPT ![p].pc = pc]
       \/ /\ pc = "older" /\ p \in link
          /\ \E i \in Has(shown[p]) :
                 /\ \A j \in Has(shown[p]) : born[i] <= born[j]
                 /\ fetch' = [fetch EXCEPT ![p] = [@ EXCEPT !.pc = pc, !.from = i]]
    /\ UNCHANGED <<link, inbox, server, page, changes>>

Mine(a, p) == Author[a[1]] = p

\* The socket breaks: what was on its way is lost, requests perhaps; the handlers
\* that run go on, and their answers reach nobody.
Broken(p, lost) ==
    /\ link' = link \ {p} /\ room' = room \ {p} /\ inbox' = [inbox EXCEPT ![p] = <<>>]
    /\ join' = [join EXCEPT ![p] = Asleep]
    /\ send' = [a \in Attempts |->
           IF ~Mine(a, p) THEN send[a]
           ELSE IF lost /\ send[a].pc = "ask" THEN [Idle EXCEPT !.pc = "told"]
           ELSE [send[a] EXCEPT !.live = FALSE]]
    /\ change' = [change EXCEPT ![p] =
           IF lost /\ @.pc \in {"edit", "delete"} THEN Idle ELSE @]
    /\ UNCHANGED <<db, born, clock>>

\* The socket is lost; the list and its bubbles stay (Renew has them go).
Disconnect(p) ==
    /\ Fault /\ p \in link /\ \E lost \in BOOLEAN : Broken(p, lost)
    /\ since' = [since EXCEPT ![p] = None]
    /\ UNCHANGED <<fetch, shown, bubble, queue, sentAt, stale, gone, paged, wiped,
                   changes>>

\* The page leaves the room or is closed: nothing it knew stays.
Leave(p) ==
    LET mine == {t \in Texts : Author[t] = p}
        Cleared(f) == [t \in Texts |-> IF t \in mine THEN "no" ELSE f[t]]
    IN /\ Fault /\ p \in link /\ \E lost \in BOOLEAN : Broken(p, lost)
       /\ shown' = [shown EXCEPT ![p] = Blank] /\ stale' = [stale EXCEPT ![p] = {}]
       /\ bubble' = Cleared(bubble) /\ queue' = Cleared(queue)
       /\ gone' = gone \cup {t \in mine : sentAt[t] # None}
       /\ since' = [since EXCEPT ![p] = None] /\ fetch' = [fetch EXCEPT ![p] = Asleep]
       /\ paged' = paged \ mine /\ UNCHANGED <<sentAt, wiped, changes>>

\* A refresh of the token in the background installs a new user object: the page
\* lets go of its socket, if it has one (else Broken changes nothing), and empties
\* the list of the room that is open, its bubbles with it; the queue stays.
Renew(p) ==
    LET mine == {t \in Texts : Author[t] = p}
    IN /\ Fault /\ \E lost \in BOOLEAN : (lost => p \in link) /\ Broken(p, lost)
       /\ shown' = [shown EXCEPT ![p] = Blank] /\ stale' = [stale EXCEPT ![p] = {}]
       /\ bubble' = [t \in Texts |-> IF t \in mine THEN "no" ELSE bubble[t]]
       /\ wiped' = wiped \cup {t \in mine : bubble[t] # "no"}
       /\ since' = [since EXCEPT ![p] = None] /\ paged' = paged \ mine
       /\ UNCHANGED <<fetch, queue, sentAt, gone, changes>>

\* A query fails or its answer is lost: the handler ends with an error.  If the
\* row was changed nobody is told.
Untold(i) == stale' = [p \in Pages |-> stale[p] \cup {i}]

SendFails(a) ==
    /\ Fault /\ send[a].pc \in {"ask", "insert", "tell", "echo"}
    /\ send' = [send EXCEPT ![a] = [Idle EXCEPT !.pc = "told"]]
    /\ IF send[a].pc = "tell" THEN Untold(send[a].id) ELSE UNCHANGED stale
    /\ born' = IF send[a].pc = "insert" THEN [born EXCEPT ![send[a].id] = None] ELSE born
    /\ UNCHANGED <<link, inbox, room, db, clock, change, join, fetch, shown,
                   bubble, queue, sentAt, since, gone, paged, wiped, changes>>

ChangeFails(c) ==
    /\ Fault /\ change[c].pc # "no" /\ change' = [change EXCEPT ![c] = Idle]
    /\ IF change[c].pc \in {"tellEdit", "tellGone"} THEN Untold(change[c].id)
       ELSE UNCHANGED stale
    /\ UNCHANGED <<link, inbox, room, db, born, clock, send, join, fetch, shown,
                   bubble, queue, sentAt, since, gone, paged, wiped, changes>>

JoinFails(p) ==
    /\ Fault /\ join[p].pc # "no" /\ join' = [join EXCEPT ![p] = Asleep]
    /\ UNCHANGED <<link, inbox, room, db, born, clock, send, change, fetch, page, changes>>

Next ==
    \/ \E a \in Attempts : SendAsk(a) \/ SendInsert(a) \/ SendTell(a) \/ SendFails(a)
    \/ \E t \in Texts : Write(t) \/ WriteElsewhere(t) \/ TimeOut(t) \/ Retry(t) \/ Dismiss(t)
    \/ \E c \in Clients : \/ ChangeRow(c) \/ ChangeTell(c) \/ ChangeFails(c)
                          \/ \E i \in Ids, pc \in {"edit", "delete"} : Change(c, i, pc)
    \/ \E p \in Pages : \/ JoinStep(p) \/ JoinFails(p) \/ FetchRead(p) \/ Handle(p)
                        \/ Fetched(p) \/ Connect(p) \/ Disconnect(p) \/ Leave(p)
                        \/ Renew(p)
                        \/ \E pc \in {"page", "older"} : Fetch(p, pc)

Spec == Init /\ [][Next]_vars

-----------------------------------------------------------------------------
\* Nobody is about to tell of the row.
Settled(i) ==
    /\ \A a \in Attempts : send[a].pc = "tell" => send[a].id # i
    /\ \A c \in Clients : change[c].pc \in {"tellEdit", "tellGone"} => change[c].id # i

Calm(p) == inbox[p] = <<>> /\ join[p].pc = "no" /\ fetch[p].pc = "no"

\* A page that has its history and to which nothing is on its way shows the room
\* as it is, as far as the history reaches: every row, with its last content, and
\* nothing that was deleted.  The exceptions are the rows of which it was last
\* told by a history that was over when it came, and those whose handler failed
\* between the change and its telling (joinRoom, onRoomHistory, reconcileMessages).
ShowsTheRoom ==
    \A p \in Pages : since[p] # None /\ Calm(p) =>
        \A i \in Ids \ stale[p] : Settled(i) /\ born[i] >= since[p] =>
            shown[p][i] = db[i]

Stored(t) == \E i \in Ids :
    /\ i[1] = t /\ born[i] # None
    /\ \A a \in Attempts : send[a].pc = "insert" => send[a].id # i

\* A text that was written and neither dismissed nor left behind waits in the
\* queue, and is a bubble on its page, until it is in the database: neither a lost
\* socket, nor a history that was read before it, nor a failed handler takes it
\* from its author unsaved (chatOutgoing.ts, integrateEcho, reconcileMessages).
\* The exception is what the renewed page shows: a text that had its bubble then
\* still waits in the queue, but nothing shows it (page.tsx, setMessages).
TextKept ==
    \A t \in Texts : sentAt[t] # None /\ t \notin gone =>
        \/ Stored(t)
        \/ queue[t] # "no" /\ (bubble[t] # "no" \/ t \in wiped)

\* A bubble has its entry in the queue, so that it fails in time and can be sent
\* again, and its message is not shown beside it, unless an older page brought it
\* or the clock of the page is ahead (confirm, reconcileMessages, handleLoadOlder).
BubbleIsUnsent ==
    \A t \in Texts : \A p \in Pages \cap {Author[t]} :
        bubble[t] # "no" /\ Skew[p] = 0 =>
            /\ queue[t] # "no"
            /\ OfText(shown[p], t) # {} => t \in paged
=============================================================================
