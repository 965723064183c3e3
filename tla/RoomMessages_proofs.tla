------------------------- MODULE RoomMessages_proofs -------------------------
(***************************************************************************)
(* The invariants of RoomMessages for every number of pages, texts,        *)
(* attempts and faults.                                                    *)
(*                                                                         *)
(* TextKept follows from what may be told of a row: nobody hears of a row  *)
(* before it is in the table, whoever reads, tells or repeats it (KInv).   *)
(* BubbleIsUnsent adds what a page knows of its own texts: a bubble has    *)
(* its entry in the queue, and a row that stands beside it is older than   *)
(* the bubble (BInv). ShowsTheRoom adds, for each row and page, who is yet *)
(* to tell the page of what it does not show, and for each history on its  *)
(* way, that it holds every row that it reaches and that nobody will tell  *)
(* of (VInv).                                                              *)
(***************************************************************************)
EXTENDS RoomMessages, SequenceTheorems, FiniteSetTheorems, WellFoundedInduction,
        NaturalsInduction, TLAPS

\* The rows that are, or were, in the table: no handler is about to insert them.
Known == {i \in Ids : born[i] # None /\ \A a \in Attempts :
                         send[a].pc = "insert" => send[a].id # i}

Values == [Ids -> Int]
Sends == [pc : {"no", "ask", "insert", "tell", "echo", "told", "echoed"},
          id : Ids \cup {None}, body : Int, live : BOOLEAN]
Changes == [pc : {"no", "edit", "delete", "tellEdit", "tellGone"},
            id : Ids \cup {None}, body : Int, live : BOOLEAN]
Joins == [pc : {"no", "ask", "read", "tell"}, snap : Values, from : Ids \cup {None}]
Fetches == [pc : {"no", "page", "older", "gotPage", "gotOlder"}, snap : Values,
            from : Ids \cup {None}]
Events == [kind : {"new", "edit", "gone"}, id : Ids \cup {None}, body : Int]
          \cup [kind : {"history"}, snap : Values]

KTypes == /\ inbox \in [Pages -> Seq(Events)]
          /\ db \in Values /\ born \in Values /\ clock \in Nat /\ changes \in Nat
          /\ send \in [Attempts -> Sends] /\ change \in [Clients -> Changes]
          /\ join \in [Pages -> Joins] /\ fetch \in [Pages -> Fetches]
          /\ bubble \in [Texts -> {"no", "sending", "failed"}]
          /\ queue \in [Texts -> {"no", "sending", "failed"}]
          /\ sentAt = [t \in Texts |-> sentAt[t]]

\* What the table, the handlers, the events and the answers on their way may say,
\* if k is what is known.
Rows(d, k) == \A i \in Ids : d[i] # None => i \in k
Handlers(s, b, k) ==
    /\ \A a \in Attempts : s[a].pc \in {"tell", "echo"} => s[a].id \in k
    /\ \A a \in Attempts : s[a].pc = "insert" => s[a].id \in Ids /\ b[s[a].id] # None
    /\ \A a, c \in Attempts : s[a].pc = "insert" /\ s[c].pc = "insert" /\ a # c
                                 => s[a].id # s[c].id
Good(e, k) == /\ e.kind = "new" => e.id \in k
              /\ e.kind = "history" => Has(e.snap) \subseteq k
Mail(box, k) == \A p \in Pages : \A j \in 1..Len(box[p]) : Good(box[p][j], k)
Answers(j, f, k) == \A p \in Pages :
    /\ j[p].pc = "tell" => Has(j[p].snap) \subseteq k
    /\ f[p].pc \in {"gotPage", "gotOlder"} => Has(f[p].snap) \subseteq k
\* A text has its place: it waits, and is a bubble unless the page was renewed.
Held(t, w, b, q) == q[t] # "no" /\ (b[t] # "no" \/ t \in w)
Saved(at, g, w, b, q, k) == \A t \in Texts :
    at[t] # None /\ t \notin g /\ ~Held(t, w, b, q) => \E i \in k : i[1] = t

KInv == /\ KTypes /\ Rows(db, Known) /\ Handlers(send, born, Known)
        /\ Mail(inbox, Known) /\ Answers(join, fetch, Known)
        /\ Saved(sentAt, gone, wiped, bubble, queue, Known)

\* What is said of the next values is said of the values next.
LEMMA Primed ==
    /\ Rows(db', Known') => Rows(db, Known)'
    /\ Handlers(send', born', Known') => Handlers(send, born, Known)'
    /\ Mail(inbox', Known') => Mail(inbox, Known)'
    /\ Answers(join', fetch', Known') => Answers(join, fetch, Known)'
    /\ Saved(sentAt', gone', wiped', bubble', queue', Known')
          => Saved(sentAt, gone, wiped, bubble, queue, Known)'
<1>1. Rows(db', Known') => Rows(db, Known)'
  BY Zenon DEF Rows
<1>2. Handlers(send', born', Known') => Handlers(send, born, Known)'
  BY Zenon DEF Handlers
<1>3. Mail(inbox', Known') => Mail(inbox, Known)'
  BY Zenon DEF Mail, Good, Has
<1>4. Answers(join', fetch', Known') => Answers(join, fetch, Known)'
  BY Zenon DEF Answers, Has
<1>5. Saved(sentAt', gone', wiped', bubble', queue', Known')
         => Saved(sentAt, gone, wiped, bubble, queue, Known)'
  BY Zenon DEF Saved, Held
<1> QED BY <1>1, <1>2, <1>3, <1>4, <1>5

\* What is known stays fit to be told when more is known.
LEMMA MoreKnown ==
    ASSUME KInv, Known \subseteq Known'
    PROVE  /\ Mail(inbox, Known') /\ Answers(join, fetch, Known')
           /\ Saved(sentAt, gone, wiped, bubble, queue, Known')
<1>1. Mail(inbox, Known')
  BY DEF KInv, Mail, Good
<1>2. Answers(join, fetch, Known')
  BY DEF KInv, Answers
<1>3. Saved(sentAt, gone, wiped, bubble, queue, Known')
  BY DEF KInv, Saved
<1> QED BY <1>1, <1>2, <1>3

\* A step that takes no createdAt, stores no row, and lets no handler begin to
\* insert or to tell.
Quiet == /\ born' = born /\ db' \in Values /\ send' \in [Attempts -> Sends]
         /\ \A i \in Ids : db'[i] # None => db[i] # None
         /\ \A a \in Attempts : send'[a].pc \in {"insert", "tell", "echo"} =>
               send'[a].pc = send[a].pc /\ send'[a].id = send[a].id

LEMMA QuietKnown ==
    ASSUME KInv, Quiet
    PROVE  /\ Known \subseteq Known' /\ Rows(db', Known')
           /\ Handlers(send', born', Known')
<1>1. Known \subseteq Known'
  BY DEF Quiet, Known
<1>2. Rows(db', Known')
  BY <1>1 DEF KInv, Quiet, Rows
<1>3. Handlers(send', born', Known')
  BY <1>1 DEF KInv, Quiet, Handlers
<1> QED BY <1>1, <1>2, <1>3

\* Quiet steps that leave the queries and the mail alone.
LEMMA QuietInv ==
    ASSUME KInv, Quiet, KTypes', UNCHANGED inbox,
           Answers(join', fetch', Known'), Saved(sentAt', gone', wiped', bubble', queue', Known')
    PROVE  KInv'
<1>1. Mail(inbox', Known')
  BY QuietKnown, MoreKnown
<1> QED BY <1>1, QuietKnown, Primed DEF KInv

\* What is known stays known, with its createdAt, and is not stored again; a new
\* createdAt is the time of a handler that asked.
Grown == /\ Known \subseteq Known' /\ clock' \in {clock, clock + 2}
         /\ \A i \in Known : born'[i] = born[i] /\ (db'[i] # None => db[i] # None)
         /\ \A i \in Ids : born'[i] = born[i] \/ born'[i] = None
               \/ /\ born'[i] = clock /\ clock' = clock + 2
                  /\ \E a \in Attempts : a[1] = i[1] /\ send[a].pc = "ask"

-----------------------------------------------------------------------------
(* Records. *)

SendPcs == {"no", "ask", "insert", "tell", "echo", "told", "echoed"}

\* A handler goes on, with another row or another content.
To(r, x) == [r EXCEPT !.pc = x]
ToRow(r, x, i) == [r EXCEPT !.pc = x, !.id = i]
ToBody(r, x, b) == [r EXCEPT !.pc = x, !.body = b]
ToBoth(r, x, i, b) == [r EXCEPT !.pc = x, !.id = i, !.body = b]

LEMMA GoesOn ==
    ASSUME NEW r \in Sends, NEW x \in SendPcs, NEW i \in Ids, NEW b \in Int
    PROVE  /\ To(r, x) \in Sends /\ To(r, x).pc = x /\ To(r, x).id = r.id
           /\ ToRow(r, x, i) \in Sends /\ ToRow(r, x, i).pc = x /\ ToRow(r, x, i).id = i
           /\ ToBody(r, x, b) \in Sends /\ ToBody(r, x, b).pc = x
           /\ ToBody(r, x, b).id = r.id
           /\ ToBoth(r, x, i, b) \in Sends /\ ToBoth(r, x, i, b).pc = x
           /\ ToBoth(r, x, i, b).id = i
<1>1. To(r, x) \in Sends /\ To(r, x).pc = x /\ To(r, x).id = r.id
  BY DEF To, Sends, SendPcs
<1>2. ToRow(r, x, i) \in Sends /\ ToRow(r, x, i).pc = x /\ ToRow(r, x, i).id = i
  <2>1. ToRow(r, x, i) = [To(r, x) EXCEPT !.id = i]
    BY Zenon DEF To, ToRow
  <2> QED BY <1>1, <2>1 DEF Sends
<1>3. /\ ToBody(r, x, b) \in Sends /\ ToBody(r, x, b).pc = x
      /\ ToBody(r, x, b).id = r.id
  <2>1. ToBody(r, x, b) = [To(r, x) EXCEPT !.body = b]
    BY Zenon DEF To, ToBody
  <2> QED BY <1>1, <2>1 DEF Sends
<1>4. /\ ToBoth(r, x, i, b) \in Sends /\ ToBoth(r, x, i, b).pc = x
      /\ ToBoth(r, x, i, b).id = i
  <2>1. ToBoth(r, x, i, b) = [ToRow(r, x, i) EXCEPT !.body = b]
    BY Zenon DEF ToRow, ToBoth
  <2> QED BY <1>2, <2>1 DEF Sends
<1> QED BY <1>1, <1>2, <1>3, <1>4

\* The handlers that are not there yet, or no longer.
LEMMA IdleSends ==
    /\ Idle \in Sends /\ Idle.pc = "no" /\ Idle \in Changes
    /\ \A x \in {"told", "echoed", "ask"} :
          [Idle EXCEPT !.pc = x] \in Sends /\ [Idle EXCEPT !.pc = x].pc = x
<1>1. Idle \in Sends /\ Idle.pc = "no" /\ Idle \in Changes
  BY DEF Idle, Sends, Changes, None
<1>2. ASSUME NEW r \in Sends, NEW x \in {"told", "echoed", "ask"}
      PROVE  [r EXCEPT !.pc = x] \in Sends /\ [r EXCEPT !.pc = x].pc = x
  BY DEF Sends
<1> QED BY <1>1, <1>2

LEMMA AskingSend ==
    ASSUME NEW x \in BOOLEAN
    PROVE  LET v == [Idle EXCEPT !.pc = "ask", !.live = x]
           IN  v \in Sends /\ v.pc = "ask"
<1> DEFINE v1 == [Idle EXCEPT !.pc = "ask"]
           v2 == [v1 EXCEPT !.live = x]
<1>1. v1 \in Sends /\ v1.pc = "ask"
  BY IdleSends
<1>2. v2 = [Idle EXCEPT !.pc = "ask", !.live = x]
  BY Zenon
<1> HIDE DEF v1
<1>3. v2 \in Sends /\ v2.pc = "ask"
  BY <1>1 DEF Sends
<1> QED BY <1>2, <1>3

LEMMA AsleepTypes ==
    /\ Asleep \in Joins /\ Asleep \in Fetches /\ Asleep.pc = "no" /\ Blank \in Values
    /\ \A i \in Ids : Blank[i] = None
BY DEF Asleep, Joins, Fetches, Blank, Values, None

-----------------------------------------------------------------------------
(* Mail. *)

\* An event that may be told is put into inboxes, of the room or of one socket.
LEMMA Mailed ==
    ASSUME KInv, Known \subseteq Known', NEW e \in Events, Good(e, Known'),
           \/ ToRoom(e)
           \/ \E p, live : ToClient(p, live, e)
           \/ UNCHANGED inbox
    PROVE  inbox' \in [Pages -> Seq(Events)] /\ Mail(inbox', Known')
<1>1. inbox \in [Pages -> Seq(Events)]
  BY DEF KInv, KTypes
<1>2. /\ inbox' \in [Pages -> Seq(Events)]
      /\ \A p \in Pages : inbox'[p] = inbox[p] \/ inbox'[p] = Append(inbox[p], e)
  <2>1. CASE ToRoom(e)
    BY <1>1, <2>1 DEF ToRoom
  <2>2. ASSUME NEW p, NEW live, ToClient(p, live, e)
        PROVE  /\ inbox' \in [Pages -> Seq(Events)]
               /\ \A q \in Pages : inbox'[q] = inbox[q] \/ inbox'[q] = Append(inbox[q], e)
    <3>1. inbox' = inbox \/ inbox' = [inbox EXCEPT ![p] = Append(@, e)]
      BY <2>2, Zenon DEF ToClient
    <3>2. CASE inbox' = [inbox EXCEPT ![p] = Append(@, e)]
      <4>1. \A q \in Pages : inbox'[q] = IF q = p THEN Append(inbox[q], e) ELSE inbox[q]
        BY <1>1, <3>2
      <4>2. \A q \in Pages : inbox[q] \in Seq(Events) /\ Append(inbox[q], e) \in Seq(Events)
        BY <1>1
      <4>3. inbox' = [q \in Pages |-> IF q = p THEN Append(inbox[q], e) ELSE inbox[q]]
        BY <1>1, <3>2
      <4> QED BY <4>1, <4>2, <4>3
    <3> QED BY <1>1, <3>1, <3>2
  <2>3. CASE UNCHANGED inbox
    BY <1>1, <2>3
  <2> QED BY <2>1, <2>2, <2>3
<1>3. Mail(inbox, Known')
  BY MoreKnown
<1>4. ASSUME NEW p \in Pages, NEW j \in 1..Len(inbox'[p]) PROVE Good(inbox'[p][j], Known')
  <2>1. inbox[p] \in Seq(Events)
    BY <1>1
  <2>2. CASE inbox'[p] = inbox[p]
    BY <1>3, <2>2 DEF Mail
  <2>3. CASE inbox'[p] = Append(inbox[p], e)
    <3>1. (j \in 1..Len(inbox[p]) /\ inbox'[p][j] = inbox[p][j]) \/ inbox'[p][j] = e
      BY <1>4, <2>1, <2>3
    <3> QED BY <1>3, <3>1 DEF Mail
  <2> QED BY <1>2, <2>2, <2>3
<1>5. Mail(inbox', Known')
  BY <1>4, Zenon DEF Mail
<1> QED BY <1>2, <1>5

-----------------------------------------------------------------------------
(* The handlers of the server. *)

\* Who has a row that the table holds, or once held, may tell of it.
LEMMA RowsKnown ==
    ASSUME KInv
    PROVE  /\ \A t \in Texts : RowOf(t) \subseteq Known
           /\ \A s : Has(Snapshot(s)) \subseteq Known /\ Snapshot(s) \in Values
<1>1. \A i \in Ids : db[i] # None => i \in Known
  BY DEF KInv, Rows
<1>2. \A t \in Texts : RowOf(t) \subseteq Known
  BY <1>1 DEF RowOf, Has
<1>3. ASSUME NEW s PROVE Has(Snapshot(s)) \subseteq Known /\ Snapshot(s) \in Values
  BY <1>1 DEF Has, Snapshot, Values, KInv, KTypes, None
<1> QED BY <1>2, <1>3

\* One handler of sendMessage goes on, to something it may do.
LEMMA OneSend ==
    ASSUME KInv, NEW a \in Attempts, NEW v \in Sends,
           send' = [send EXCEPT ![a] = v], born' \in Values, db' \in Values,
           Known \subseteq Known',
           \A i \in Ids : db'[i] # None => i \in Known',
           \A i \in Ids : born'[i] # born[i] => i \notin Known /\
                          (born[i] = None \/ (send[a].pc = "insert" /\ send[a].id = i)),
           v.pc \in {"tell", "echo"} => v.id \in Known',
           v.pc = "insert" => v.id \in Ids /\ born'[v.id] # None /\ born[v.id] = None
    PROVE  /\ Rows(db', Known') /\ Handlers(send', born', Known')
           /\ send' \in [Attempts -> Sends]
<1>1. send \in [Attempts -> Sends] /\ Handlers(send, born, Known)
  BY DEF KInv, KTypes
<1>2. send' \in [Attempts -> Sends] /\ \A c \in Attempts : send'[c] = IF c = a THEN v ELSE send[c]
  BY <1>1
<1>3. Rows(db', Known')
  BY DEF Rows
<1>4. \A c \in Attempts : send'[c].pc \in {"tell", "echo"} => send'[c].id \in Known'
  BY <1>1, <1>2 DEF Handlers
<1>5. \A c \in Attempts : c # a /\ send[c].pc = "insert" =>
         /\ send[c].id \in Ids /\ born[send[c].id] # None
         /\ send[a].pc = "insert" => send[c].id # send[a].id
  BY <1>1 DEF Handlers
<1>6. \A c \in Attempts : send'[c].pc = "insert" => send'[c].id \in Ids /\ born'[send'[c].id] # None
  BY <1>2, <1>5
<1>7. \A c, d \in Attempts : send'[c].pc = "insert" /\ send'[d].pc = "insert" /\ c # d
                                 => send'[c].id # send'[d].id
  <2>1. ASSUME NEW c \in Attempts, c # a, send[c].pc = "insert", v.pc = "insert"
        PROVE  send[c].id # v.id
    BY <1>5, <2>1
  <2>2. \A c, d \in Attempts : send[c].pc = "insert" /\ send[d].pc = "insert" /\ c # d
                                  => send[c].id # send[d].id
    BY <1>1, Zenon DEF Handlers
  <2> QED BY <1>2, <2>1, <2>2
<1>8. Handlers(send', born', Known')
  BY <1>4, <1>6, <1>7, Zenon DEF Handlers
<1> QED BY <1>2, <1>3, <1>8

\* The step of a handler that leaves the pages alone.
LEMMA ServerInv ==
    ASSUME KInv, KTypes', Known \subseteq Known', Mail(inbox', Known'),
           Rows(db', Known'), Handlers(send', born', Known'),
           UNCHANGED <<join, fetch, page>>
    PROVE  KInv'
<1>1. Answers(join', fetch', Known') /\ Saved(sentAt', gone', wiped', bubble', queue', Known')
  BY MoreKnown DEF page
<1> QED BY <1>1, Primed DEF KInv

LEMMA SendAskInv == ASSUME KInv, NEW a \in Attempts, SendAsk(a) PROVE KInv' /\ Grown
<1>1. /\ UNCHANGED <<link, inbox, room, db, change, join, fetch, page, changes, faults>>
      /\ send[a].pc = "ask" /\ a[1] \in Texts
  BY DEF SendAsk, Attempts
<1>2. KTypes /\ send[a] \in Sends
  BY DEF KInv, KTypes
<1>3. ASSUME NEW i \in RowOf(a[1]), UNCHANGED <<born, clock>>,
             send' = [send EXCEPT ![a] = [@ EXCEPT !.pc = "echo", !.id = i, !.body = db[i]]]
      PROVE  KInv' /\ Grown
  <2> DEFINE v == ToBoth(send[a], "echo", i, db[i])
  <2>1. i \in Ids /\ i \in Known /\ db[i] \in Int
    BY <1>1, <1>2, RowsKnown DEF RowOf, Has, KTypes, Values
  <2>2. v \in Sends /\ v.pc = "echo" /\ v.id = i
    <3>1. "echo" \in SendPcs
      BY DEF SendPcs
    <3> QED BY <1>2, <2>1, <3>1, GoesOn
  <2>3. send' = [send EXCEPT ![a] = v]
    BY <1>3, Zenon DEF ToBoth
  <2> HIDE DEF v
  <2>4. Known \subseteq Known'
    BY <1>2, <1>3, <2>2, <2>3 DEF Known, KTypes
  <2>5. /\ Rows(db', Known') /\ Handlers(send', born', Known')
        /\ send' \in [Attempts -> Sends]
    <3>1. \A j \in Ids : db'[j] # None => j \in Known'
      BY <1>1, <2>4 DEF KInv, Rows
    <3> QED BY <1>1, <1>2, <1>3, <2>1, <2>2, <2>3, <2>4, <3>1, OneSend DEF KTypes
  <2>6. KTypes'
    BY <1>1, <1>2, <1>3, <2>5 DEF KTypes, page
  <2>7. Mail(inbox', Known')
    BY <1>1, <2>4, MoreKnown
  <2>8. Grown
    BY <1>1, <1>3, <2>4 DEF Grown
  <2> QED BY <1>1, <2>4, <2>5, <2>6, <2>7, <2>8, ServerInv
<1>4. ASSUME NEW k \in 1..MaxSends, born[<<a[1], k>>] = None,
             born' = [born EXCEPT ![<<a[1], k>>] = clock], clock' = clock + 2,
             send' = [send EXCEPT ![a] = [@ EXCEPT !.pc = "insert", !.id = <<a[1], k>>]]
      PROVE  KInv' /\ Grown
  <2> DEFINE i == <<a[1], k>>
             v == ToRow(send[a], "insert", i)
  <2>1. i \in Ids /\ i \notin Known /\ born[i] = None
    BY <1>1, <1>4 DEF Ids, Attempts, Known
  <2>2. send' = [send EXCEPT ![a] = v] /\ born' = [born EXCEPT ![i] = clock]
    BY <1>4, Zenon DEF ToRow
  <2> HIDE DEF i
  <2>3. v \in Sends /\ v.pc = "insert" /\ v.id = i
    <3>1. "insert" \in SendPcs
      BY DEF SendPcs
    <3> QED BY <1>2, <2>1, <3>1, <1>2, GoesOn
  <2> HIDE DEF v
  <2>4. /\ born' \in Values /\ born'[i] # None /\ clock' \in Nat
        /\ \A j \in Ids : j # i => born'[j] = born[j]
    <3>1. born \in [Ids -> Int] /\ clock \in Nat
      BY <1>2 DEF KTypes, Values
    <3>2. clock # None /\ clock \in Int /\ clock + 2 \in Nat
      BY <3>1 DEF None
    <3>3. born' \in [Ids -> Int] /\ born'[i] = clock /\ \A j \in Ids : j # i => born'[j] = born[j]
      BY <2>1, <2>2, <3>1, <3>2
    <3> QED BY <1>4, <3>2, <3>3 DEF Values
  <2>5. Known \subseteq Known'
    BY <1>2, <2>1, <2>2, <2>3, <2>4 DEF Known, KTypes
  <2>6. /\ Rows(db', Known') /\ Handlers(send', born', Known')
        /\ send' \in [Attempts -> Sends]
    <3>1. \A j \in Ids : db'[j] # None => j \in Known'
      BY <1>1, <2>5 DEF KInv, Rows
    <3>2. db' \in Values
      BY <1>1, <1>2 DEF KTypes
    <3>3. \A j \in Ids : born'[j] # born[j] => j \notin Known /\ born[j] = None
      BY <2>1, <2>4
    <3> QED BY <2>1, <2>2, <2>3, <2>4, <2>5, <3>1, <3>2, <3>3, OneSend
  <2>7. KTypes'
    BY <1>1, <1>2, <2>4, <2>6 DEF KTypes, page
  <2>8. Mail(inbox', Known')
    BY <1>1, <2>5, MoreKnown
  <2>9. Grown
    <3>1. a \in Attempts /\ a[1] = i[1] /\ send[a].pc = "ask"
      BY <1>1 DEF i
    <3>2. \A j \in Known : j # i
      BY <2>1
    <3>3. born'[i] = clock
      BY <1>2, <2>1, <2>2 DEF KTypes, Values
    <3> QED BY <1>1, <1>4, <2>4, <2>5, <3>1, <3>2, <3>3 DEF Grown, Known
  <2> QED BY <1>1, <2>5, <2>6, <2>7, <2>8, <2>9, ServerInv
<1> QED BY <1>3, <1>4, Zenon DEF SendAsk

LEMMA SendInsertInv == ASSUME KInv, NEW a \in Attempts, SendInsert(a) PROVE KInv' /\ Grown
<1> DEFINE x == send[a].id
<1>1. /\ UNCHANGED <<link, inbox, room, clock, change, join, fetch, page, changes, faults>>
      /\ send[a].pc = "insert" /\ a[1] \in Texts
  BY DEF SendInsert, Attempts
<1>2. /\ KTypes /\ send[a] \in Sends /\ send \in [Attempts -> Sends]
      /\ born \in [Ids -> Int] /\ db \in [Ids -> Int]
  BY DEF KInv, KTypes, Values
<1>3. /\ x \in Ids /\ born[x] # None /\ x \notin Known
      /\ \A c \in Attempts : c # a /\ send[c].pc = "insert" => send[c].id # x
  <2>1. Handlers(send, born, Known)
    BY DEF KInv
  <2> QED BY <1>1, <2>1 DEF Handlers, Known
<1> HIDE DEF x
<1>4. ASSUME NEW i \in RowOf(a[1]), UNCHANGED db,
             send' = [send EXCEPT ![a] = [@ EXCEPT !.pc = "echo", !.id = i, !.body = db[i]]],
             born' = [born EXCEPT ![send[a].id] = None]
      PROVE  KInv' /\ Grown
  <2> DEFINE v == ToBoth(send[a], "echo", i, db[i])
  <2>1. i \in Ids /\ i \in Known /\ db[i] \in Int
    BY <1>1, <1>2, RowsKnown DEF RowOf, Has
  <2>2. v \in Sends /\ v.pc = "echo" /\ v.id = i
    <3>1. "echo" \in SendPcs
      BY DEF SendPcs
    <3> QED BY <1>2, <2>1, <3>1, GoesOn
  <2>3. send' = [send EXCEPT ![a] = v] /\ born' = [born EXCEPT ![x] = None]
    BY <1>4, Zenon DEF ToBoth, x
  <2> HIDE DEF v
  <2>4. /\ born' \in Values /\ \A j \in Ids : j # x => born'[j] = born[j]
    <3>1. None \in Int
      BY DEF None
    <3> QED BY <1>2, <1>3, <2>3, <3>1 DEF Values
  <2>5. Known \subseteq Known'
    <3>1. \A j \in Known : j # x /\ j \in Ids /\ born[j] # None
      BY <1>3 DEF Known
    <3>2. \A c \in Attempts : send'[c].pc = "insert" => send'[c] = send[c]
      BY <1>2, <2>2, <2>3
    <3> QED BY <2>4, <3>1, <3>2 DEF Known
  <2>6. /\ Rows(db', Known') /\ Handlers(send', born', Known')
        /\ send' \in [Attempts -> Sends]
    <3>1. \A j \in Ids : db'[j] # None => j \in Known'
      BY <1>4, <2>5 DEF KInv, Rows
    <3>2. db' \in Values
      BY <1>2, <1>4 DEF Values
    <3>3. \A j \in Ids : born'[j] # born[j] => j \notin Known /\ send[a].pc = "insert" /\ send[a].id = j
      BY <1>1, <1>3, <2>4 DEF x
    <3> QED BY <2>1, <2>2, <2>3, <2>4, <2>5, <3>1, <3>2, <3>3, OneSend
  <2>7. KTypes'
    BY <1>1, <1>2, <1>4, <2>4, <2>6 DEF KTypes, page
  <2>8. Mail(inbox', Known')
    BY <1>1, <2>5, MoreKnown
  <2>9. Grown
    <3>1. \A j \in Known : j # x /\ j \in Ids
      BY <1>3 DEF Known
    <3>2. born'[x] = None
      BY <1>2, <1>3, <2>3
    <3> QED BY <1>1, <1>4, <2>4, <2>5, <3>1, <3>2 DEF Grown
  <2> QED BY <1>1, <2>5, <2>6, <2>7, <2>8, <2>9, ServerInv
<1>5. ASSUME db' = [db EXCEPT ![send[a].id] = 0], UNCHANGED born,
             send' = [send EXCEPT ![a] = [@ EXCEPT !.pc = "tell", !.body = 0]]
      PROVE  KInv' /\ Grown
  <2> DEFINE v == ToBody(send[a], "tell", 0)
  <2>1. v \in Sends /\ v.pc = "tell" /\ v.id = x
    <3>1. "tell" \in SendPcs /\ 0 \in Int
      BY DEF SendPcs
    <3> QED BY <1>2, <1>3, <3>1, GoesOn DEF x
  <2>2. send' = [send EXCEPT ![a] = v] /\ db' = [db EXCEPT ![x] = 0]
    BY <1>5, Zenon DEF ToBody, x
  <2> HIDE DEF v
  <2>3. db' \in Values /\ \A j \in Ids : j # x => db'[j] = db[j]
    BY <1>2, <1>3, <2>2 DEF Values
  <2>4. Known \subseteq Known' /\ x \in Known'
    <3>1. \A c \in Attempts : send'[c].pc = "insert" => c # a /\ send'[c] = send[c]
      BY <1>2, <2>1, <2>2
    <3>2. x \in Known'
      BY <1>3, <1>5, <3>1 DEF Known
    <3>3. Known \subseteq Known'
      BY <1>5, <3>1 DEF Known
    <3> QED BY <3>2, <3>3
  <2>5. /\ Rows(db', Known') /\ Handlers(send', born', Known')
        /\ send' \in [Attempts -> Sends]
    <3>1. \A j \in Ids : db'[j] # None => j \in Known'
      BY <2>3, <2>4 DEF KInv, Rows
    <3>2. born' \in Values /\ \A j \in Ids : born'[j] = born[j]
      BY <1>2, <1>5 DEF Values
    <3> QED BY <2>1, <2>2, <2>3, <2>4, <3>1, <3>2, OneSend
  <2>6. KTypes'
    BY <1>1, <1>2, <1>5, <2>3, <2>5 DEF KTypes, page
  <2>7. Mail(inbox', Known')
    BY <1>1, <2>4, MoreKnown
  <2>8. Grown
    <3>1. \A j \in Known : j # x /\ j \in Ids
      BY <1>3 DEF Known
    <3> QED BY <1>1, <1>5, <2>3, <2>4, <3>1 DEF Grown
  <2> QED BY <1>1, <2>4, <2>5, <2>6, <2>7, <2>8, ServerInv
<1> QED BY <1>4, <1>5, Zenon DEF SendInsert

LEMMA SendTellInv == ASSUME KInv, NEW a \in Attempts, SendTell(a) PROVE KInv'
<1> DEFINE e == News(send[a])
<1>1. UNCHANGED <<link, room, db, born, clock, change, join, fetch, page, changes, faults>>
  BY DEF SendTell
<1>2. KTypes /\ send[a] \in Sends /\ send \in [Attempts -> Sends]
  BY DEF KInv, KTypes
<1>3. PICK v \in Sends : v.pc \in {"told", "echoed"} /\ send' = [send EXCEPT ![a] = v]
  BY IdleSends, Zenon DEF SendTell
<1>4. Quiet
  BY <1>1, <1>2, <1>3 DEF Quiet, KTypes
<1>5. Known \subseteq Known' /\ Rows(db', Known') /\ Handlers(send', born', Known')
  BY <1>4, QuietKnown
<1>6. send[a].id \in Known
  <2>1. Handlers(send, born, Known)
    BY DEF KInv
  <2> QED BY <2>1 DEF SendTell, Handlers
<1>7. e \in Events /\ Good(e, Known')
  BY <1>2, <1>5, <1>6 DEF News, Events, Good, Sends
<1>8. ToRoom(e) \/ \E p, live : ToClient(p, live, e)
  BY Zenon DEF SendTell
<1> HIDE DEF e
<1>9. inbox' \in [Pages -> Seq(Events)] /\ Mail(inbox', Known')
  BY <1>5, <1>7, <1>8, Mailed
<1>10. KTypes'
  BY <1>1, <1>2, <1>4, <1>9 DEF Quiet, KTypes, page
<1> QED BY <1>1, <1>5, <1>9, <1>10, ServerInv

LEMMA SendFailsInv == ASSUME KInv, NEW a \in Attempts, SendFails(a) PROVE KInv' /\ Grown
<1> DEFINE x == send[a].id
           v == [Idle EXCEPT !.pc = "told"]
<1>1. /\ UNCHANGED <<link, inbox, room, db, clock, change, join, fetch, shown,
                     bubble, queue, sentAt, since, gone, paged, wiped, changes>>
      /\ send' = [send EXCEPT ![a] = v]
      /\ born' = IF send[a].pc = "insert" THEN [born EXCEPT ![x] = None] ELSE born
  BY DEF SendFails
<1>2. /\ KTypes /\ send[a] \in Sends /\ send \in [Attempts -> Sends]
      /\ born \in [Ids -> Int] /\ db \in [Ids -> Int]
  BY DEF KInv, KTypes, Values
<1>3. v \in Sends /\ v.pc = "told"
  BY IdleSends
<1> HIDE DEF v, x
<1>4. send[a].pc = "insert" => x \in Ids /\ x \notin Known
  <2>1. Handlers(send, born, Known)
    BY DEF KInv
  <2> QED BY <2>1 DEF Handlers, Known, x
<1>5. /\ born' \in Values
      /\ \A j \in Ids : born'[j] # born[j] => send[a].pc = "insert" /\ j = x
  <2>1. None \in Int
    BY DEF None
  <2> QED BY <1>1, <1>2, <1>4, <2>1 DEF Values
<1>6. Known \subseteq Known'
  <2>1. \A c \in Attempts : send'[c].pc = "insert" => send'[c] = send[c]
    BY <1>1, <1>2, <1>3
  <2>2. \A j \in Known : j \in Ids /\ born'[j] = born[j]
    BY <1>4, <1>5 DEF Known
  <2> QED BY <2>1, <2>2 DEF Known
<1>7. Rows(db', Known') /\ Handlers(send', born', Known') /\ send' \in [Attempts -> Sends]
  <2>1. \A j \in Ids : db'[j] # None => j \in Known'
    BY <1>1, <1>6 DEF KInv, Rows
  <2>2. db' \in Values
    BY <1>1, <1>2 DEF Values
  <2>3. \A j \in Ids : born'[j] # born[j] => j \notin Known /\ send[a].pc = "insert" /\ send[a].id = j
    BY <1>4, <1>5 DEF x
  <2> QED BY <1>1, <1>3, <1>5, <1>6, <2>1, <2>2, <2>3, OneSend
<1>8. KTypes'
  BY <1>1, <1>2, <1>5, <1>7 DEF KTypes
<1>9. /\ Mail(inbox', Known') /\ Answers(join', fetch', Known')
      /\ Saved(sentAt', gone', wiped', bubble', queue', Known')
  BY <1>1, <1>6, MoreKnown
<1>10. Grown
  <2>1. \A j \in Known : j \in Ids /\ born'[j] = born[j]
    BY <1>4, <1>5 DEF Known
  <2>2. \A j \in Ids : born'[j] = born[j] \/ born'[j] = None
    BY <1>1, <1>2
  <2> QED BY <1>1, <1>6, <2>1, <2>2 DEF Grown
<1> QED BY <1>7, <1>8, <1>9, <1>10, Primed DEF KInv

ChangePcs == {"no", "edit", "delete", "tellEdit", "tellGone"}

LEMMA ChangePc ==
    ASSUME NEW r \in Changes, NEW x \in ChangePcs
    PROVE  [r EXCEPT !.pc = x] \in Changes
BY DEF Changes, ChangePcs

LEMMA ChangeRowInv == ASSUME KInv, NEW c \in Clients, ChangeRow(c) PROVE KInv'
<1> DEFINE h == change[c]
<1>1. /\ UNCHANGED <<link, inbox, room, born, clock, send, join, fetch, page, changes, faults>>
      /\ h.pc \in {"edit", "delete"}
      /\ IF db[h.id] = None
         THEN change' = [change EXCEPT ![c] = Idle] /\ UNCHANGED db
         ELSE /\ db' = [db EXCEPT ![h.id] = IF h.pc = "edit" THEN h.body ELSE None]
              /\ change' = [change EXCEPT ![c].pc =
                     IF h.pc = "edit" THEN "tellEdit" ELSE "tellGone"]
  BY Zenon DEF ChangeRow
<1>2. /\ KTypes /\ h \in Changes /\ change \in [Clients -> Changes]
      /\ db \in [Ids -> Int] /\ send \in [Attempts -> Sends]
  BY DEF KInv, KTypes, Values
<1>3. change' \in [Clients -> Changes]
  <2>1. CASE change' = [change EXCEPT ![c] = Idle]
    BY <1>2, <2>1, IdleSends
  <2>2. ASSUME NEW x \in ChangePcs, change' = [change EXCEPT ![c].pc = x]
        PROVE  change' \in [Clients -> Changes]
    <3> DEFINE v == [change[c] EXCEPT !.pc = x]
    <3>1. v \in Changes
      BY <1>2, ChangePc
    <3>2. change' = [change EXCEPT ![c] = v]
      BY <2>2, Zenon
    <3> HIDE DEF v
    <3> QED BY <1>2, <3>1, <3>2
  <2>3. "tellEdit" \in ChangePcs /\ "tellGone" \in ChangePcs
    BY DEF ChangePcs
  <2> QED BY <1>1, <2>1, <2>2, <2>3
<1>4. db' \in [Ids -> Int] /\ \A i \in Ids : db'[i] # None => db[i] # None
  <2>1. CASE db' = db
    BY <1>2, <2>1
  <2>2. CASE /\ db[h.id] # None
             /\ db' = [db EXCEPT ![h.id] = IF h.pc = "edit" THEN h.body ELSE None]
    <3>1. (IF h.pc = "edit" THEN h.body ELSE None) \in Int
      BY <1>2 DEF Changes, None
    <3> DEFINE b == IF h.pc = "edit" THEN h.body ELSE None
               x == h.id
    <3>2. db' = [db EXCEPT ![x] = b] /\ db[x] # None /\ b \in Int
      BY <2>2, <3>1
    <3> HIDE DEF b, x
    <3> QED BY <1>2, <3>2
  <2> QED BY <1>1, <2>1, <2>2
<1> HIDE DEF h
<1>5. Quiet
  BY <1>1, <1>2, <1>4 DEF Quiet, Values
<1>6. Known \subseteq Known' /\ Rows(db', Known') /\ Handlers(send', born', Known')
  BY <1>5, QuietKnown
<1>7. KTypes'
  BY <1>1, <1>2, <1>3, <1>4 DEF KTypes, Values, page
<1>8. Mail(inbox', Known')
  BY <1>1, <1>6, MoreKnown
<1> QED BY <1>1, <1>6, <1>7, <1>8, ServerInv

LEMMA ChangeTellInv == ASSUME KInv, NEW c \in Clients, ChangeTell(c) PROVE KInv'
<1> DEFINE h == change[c]
           e == [kind |-> IF h.pc = "tellEdit" THEN "edit" ELSE "gone",
                 id |-> h.id, body |-> h.body]
<1>1. /\ UNCHANGED <<link, room, db, born, clock, send, join, fetch, page, changes, faults>>
      /\ ToRoom(e) /\ change' = [change EXCEPT ![c] = Idle]
  BY Zenon DEF ChangeTell
<1>2. /\ KTypes /\ h \in Changes /\ change \in [Clients -> Changes]
      /\ db \in Values /\ send \in [Attempts -> Sends]
  BY DEF KInv, KTypes
<1>3. e \in Events /\ Good(e, Known')
  BY <1>2 DEF Events, Changes, Good
<1> HIDE DEF e, h
<1>4. Quiet
  BY <1>1, <1>2 DEF Quiet
<1>5. Known \subseteq Known' /\ Rows(db', Known') /\ Handlers(send', born', Known')
  BY <1>4, QuietKnown
<1>6. inbox' \in [Pages -> Seq(Events)] /\ Mail(inbox', Known')
  BY <1>1, <1>3, <1>5, Mailed
<1>7. change' \in [Clients -> Changes]
  BY <1>1, <1>2, IdleSends
<1>8. KTypes'
  BY <1>1, <1>2, <1>6, <1>7 DEF KTypes, page
<1> QED BY <1>1, <1>5, <1>6, <1>8, ServerInv

\* A handler that ends with an error, and a change that is asked for.
LEMMA ChangeOnlyInv ==
    ASSUME KInv, NEW r \in Changes, NEW c, change' = [change EXCEPT ![c] = r],
           changes' \in Nat,
           UNCHANGED <<inbox, db, born, clock, send, join, fetch, bubble, queue, sentAt,
                       gone, wiped>>
    PROVE  KInv'
<1>1. KTypes /\ change \in [Clients -> Changes]
  BY DEF KInv, KTypes
<1>2. Quiet
  BY <1>1 DEF Quiet, KTypes
<1>3. Known \subseteq Known'
  BY <1>2, QuietKnown
<1>4. Answers(join', fetch', Known') /\ Saved(sentAt', gone', wiped', bubble', queue', Known')
  BY <1>3, MoreKnown
<1>5. KTypes'
  BY <1>1 DEF KTypes
<1> QED BY <1>2, <1>4, <1>5, QuietInv

LEMMA ChangesInv ==
    ASSUME KInv, NEW c \in Clients,
           \/ ChangeFails(c)
           \/ \E i \in Ids, pc \in {"edit", "delete"} : Change(c, i, pc)
    PROVE  KInv'
<1>1. CASE ChangeFails(c)
  BY <1>1, IdleSends, ChangeOnlyInv DEF ChangeFails, KInv, KTypes
<1>2. ASSUME NEW i \in Ids, NEW pc \in {"edit", "delete"}, Change(c, i, pc) PROVE KInv'
  <2> DEFINE v1 == [Idle EXCEPT !.pc = pc]
             v2 == [v1 EXCEPT !.id = i]
             v3 == [v2 EXCEPT !.body = changes + 1]
  <2>1. changes \in Nat
    BY DEF KInv, KTypes
  <2>2. v1 \in Changes
    BY IdleSends, ChangePc DEF ChangePcs
  <2>3. v3 = [Idle EXCEPT !.pc = pc, !.id = i, !.body = changes + 1]
    BY Zenon
  <2> HIDE DEF v1
  <2>4. v2 \in Changes
    BY <2>2 DEF Changes
  <2> HIDE DEF v2
  <2>5. v3 \in Changes
    BY <2>1, <2>4 DEF Changes
  <2>6. change' = [change EXCEPT ![c] = v3]
    BY <1>2, <2>3, Zenon DEF Change
  <2> HIDE DEF v3
  <2>7. /\ changes' = changes + 1
        /\ UNCHANGED <<inbox, db, born, clock, send, join, fetch, bubble, queue, sentAt,
                       gone, wiped>>
    BY <1>2 DEF Change, page
  <2>8. changes' \in Nat
    BY <2>1, <2>7
  <2> QED BY <2>5, <2>6, <2>7, <2>8, ChangeOnlyInv, Zenon
<1> QED BY <1>1, <1>2

-----------------------------------------------------------------------------
(* Histories. *)

FetchPcs == {"no", "page", "older", "gotPage", "gotOlder"}
With(r, x, s) == [r EXCEPT !.pc = x, !.snap = s]
From(r, x, i) == [r EXCEPT !.pc = x, !.from = i]
At(r, x) == [r EXCEPT !.pc = x]

\* A query of a history goes on: what it holds is known.
LEMMA QueryInv ==
    ASSUME KInv, NEW p \in Pages,
           \/ \E v \in Joins : /\ join' = [join EXCEPT ![p] = v] /\ UNCHANGED fetch
                               /\ v.pc = "tell" => Has(v.snap) \subseteq Known
           \/ \E v \in Fetches : /\ fetch' = [fetch EXCEPT ![p] = v] /\ UNCHANGED join
                                 /\ v.pc \in {"gotPage", "gotOlder"} => Has(v.snap) \subseteq Known,
           UNCHANGED <<db, born, clock, send, change, changes, bubble, queue, sentAt,
                       gone, wiped>>,
           \/ UNCHANGED inbox
           \/ \E e \in Events : Good(e, Known) /\ ToClient(p, TRUE, e)
    PROVE  KInv'
<1>1. KTypes /\ Answers(join, fetch, Known)
  BY DEF KInv
<1>2. Quiet
  BY <1>1 DEF Quiet, KTypes
<1>3. Known \subseteq Known' /\ Rows(db', Known') /\ Handlers(send', born', Known')
  BY <1>2, QuietKnown
<1>4. inbox' \in [Pages -> Seq(Events)] /\ Mail(inbox', Known')
  <2>1. CASE UNCHANGED inbox
    BY <1>1, <1>3, <2>1, MoreKnown DEF KTypes
  <2>2. ASSUME NEW e \in Events, Good(e, Known), ToClient(p, TRUE, e)
        PROVE  inbox' \in [Pages -> Seq(Events)] /\ Mail(inbox', Known')
    <3>1. Good(e, Known')
      BY <1>3, <2>2 DEF Good
    <3> QED BY <1>3, <2>2, <3>1, Mailed
  <2> QED BY <2>1, <2>2
<1>5. Saved(sentAt', gone', wiped', bubble', queue', Known')
  BY <1>3, MoreKnown
<1>6. Answers(join', fetch', Known') /\ join' \in [Pages -> Joins] /\ fetch' \in [Pages -> Fetches]
  <2>1. ASSUME NEW v \in Joins, join' = [join EXCEPT ![p] = v], UNCHANGED fetch,
               v.pc = "tell" => Has(v.snap) \subseteq Known
        PROVE  <1>6!:
    BY <1>1, <1>3, <2>1 DEF Answers, KTypes
  <2>2. ASSUME NEW v \in Fetches, fetch' = [fetch EXCEPT ![p] = v], UNCHANGED join,
               v.pc \in {"gotPage", "gotOlder"} => Has(v.snap) \subseteq Known
        PROVE  <1>6!:
    BY <1>1, <1>3, <2>2 DEF Answers, KTypes
  <2> QED BY <2>1, <2>2
<1>7. KTypes'
  BY <1>1, <1>4, <1>6 DEF KTypes
<1> QED BY <1>3, <1>4, <1>5, <1>6, <1>7, Primed DEF KInv

LEMMA JoinStepInv == ASSUME KInv, NEW p \in Pages, JoinStep(p) PROVE KInv'
<1>1. /\ JoinRoom(p)
      /\ UNCHANGED <<db, born, clock, send, change, fetch, changes, bubble, queue, sentAt,
                     gone, wiped>>
  BY DEF JoinStep, page
<1>2. /\ join[p] \in Joins /\ join[p].snap \in Values
      /\ join[p].pc = "tell" => Has(join[p].snap) \subseteq Known
  BY DEF KInv, KTypes, Answers, Joins
<1>3. ASSUME NEW v \in Joins, join' = [join EXCEPT ![p] = v],
             v.pc = "tell" => Has(v.snap) \subseteq Known,
             \/ UNCHANGED inbox
             \/ \E e \in Events : Good(e, Known) /\ ToClient(p, TRUE, e)
      PROVE  KInv'
  BY <1>1, <1>3, QueryInv, Zenon
<1>4. ASSUME join' = [join EXCEPT ![p].pc = "read"], UNCHANGED inbox PROVE KInv'
  <2> DEFINE v == At(join[p], "read")
  <2>1. v \in Joins /\ v.pc = "read"
    BY <1>2 DEF At, Joins
  <2>2. join' = [join EXCEPT ![p] = v]
    BY <1>4, Zenon DEF At
  <2> HIDE DEF v
  <2> QED BY <1>3, <1>4, <2>1, <2>2
<1>5. ASSUME UNCHANGED inbox, join' = [join EXCEPT ![p] =
                 [@ EXCEPT !.pc = "tell", !.snap = Snapshot(Newest(Has(db)))]]
      PROVE  KInv'
  <2> DEFINE s == Snapshot(Newest(Has(db)))
             v == With(join[p], "tell", s)
  <2>1. s \in Values /\ Has(s) \subseteq Known
    BY RowsKnown
  <2>2. join' = [join EXCEPT ![p] = v]
    BY <1>5, Zenon DEF With
  <2> HIDE DEF s
  <2>3. v \in Joins /\ v.snap = s
    <3>1. At(join[p], "tell") \in Joins
      BY <1>2 DEF At, Joins
    <3>2. v = [At(join[p], "tell") EXCEPT !.snap = s]
      BY Zenon DEF With, At
    <3> QED BY <2>1, <3>1, <3>2 DEF Joins
  <2> HIDE DEF v
  <2> QED BY <1>3, <1>5, <2>1, <2>2, <2>3
<1>6. ASSUME join[p].pc = "tell", join' = [join EXCEPT ![p] = Asleep],
             ToClient(p, TRUE, [kind |-> "history", snap |-> join[p].snap])
      PROVE  KInv'
  <2> DEFINE e == [kind |-> "history", snap |-> join[p].snap]
  <2>1. e \in Events /\ Good(e, Known)
    BY <1>2, <1>6 DEF Events, Good
  <2> HIDE DEF e
  <2> QED BY <1>3, <1>6, <2>1, AsleepTypes DEF e
<1> QED BY <1>1, <1>4, <1>5, <1>6, Zenon DEF JoinRoom

LEMMA JoinFailsInv == ASSUME KInv, NEW p \in Pages, JoinFails(p) PROVE KInv'
<1>1. /\ join' = [join EXCEPT ![p] = Asleep] /\ UNCHANGED inbox
      /\ UNCHANGED <<db, born, clock, send, change, fetch, changes, bubble, queue, sentAt,
                     gone, wiped>>
  BY DEF JoinFails, page
<1> QED BY <1>1, AsleepTypes, QueryInv

LEMMA FetchesInv ==
    ASSUME KInv, NEW p \in Pages,
           FetchRead(p) \/ \E pc \in {"page", "older"} : Fetch(p, pc)
    PROVE  KInv'
<1>1. UNCHANGED <<inbox, join, db, born, clock, send, change, changes, bubble, queue, sentAt,
                  gone, wiped>>
  BY DEF FetchRead, Fetch, Fault, page, server
<1>2. fetch[p] \in Fetches
  BY DEF KInv, KTypes
<1>3. ASSUME NEW v \in Fetches, fetch' = [fetch EXCEPT ![p] = v],
             v.pc \in {"gotPage", "gotOlder"} => Has(v.snap) \subseteq Known
      PROVE  KInv'
  BY <1>1, <1>3, QueryInv, Zenon
<1>4. ASSUME NEW x \in FetchPcs, NEW ids, fetch' = [fetch EXCEPT ![p] =
                 [@ EXCEPT !.pc = x, !.snap = Snapshot(ids)]]
      PROVE  KInv'
  <2> DEFINE s == Snapshot(ids)
             v == With(fetch[p], x, s)
  <2>1. s \in Values /\ Has(s) \subseteq Known
    BY RowsKnown
  <2>2. fetch' = [fetch EXCEPT ![p] = v]
    BY <1>4, Zenon DEF With
  <2>3. At(fetch[p], x) \in Fetches
    BY <1>2 DEF At, Fetches, FetchPcs
  <2>4. v = [At(fetch[p], x) EXCEPT !.snap = s]
    BY Zenon DEF With, At
  <2> HIDE DEF s, v
  <2>5. v \in Fetches /\ v.snap = s
    BY <2>1, <2>3, <2>4 DEF Fetches
  <2> QED BY <1>3, <2>1, <2>2, <2>5
<1>5. ASSUME fetch' = [fetch EXCEPT ![p].pc = "page"] PROVE KInv'
  <2> DEFINE v == At(fetch[p], "page")
  <2>1. v \in Fetches /\ v.pc = "page"
    BY <1>2 DEF At, Fetches
  <2>2. fetch' = [fetch EXCEPT ![p] = v]
    BY <1>5, Zenon DEF At
  <2> HIDE DEF v
  <2> QED BY <1>3, <2>1, <2>2
<1>6. ASSUME NEW i \in Ids,
             fetch' = [fetch EXCEPT ![p] = [@ EXCEPT !.pc = "older", !.from = i]]
      PROVE  KInv'
  <2> DEFINE v == From(fetch[p], "older", i)
  <2>1. At(fetch[p], "older") \in Fetches /\ At(fetch[p], "older").pc = "older"
    BY <1>2 DEF At, Fetches
  <2>2. v = [At(fetch[p], "older") EXCEPT !.from = i]
    BY Zenon DEF From, At
  <2>3. fetch' = [fetch EXCEPT ![p] = v]
    BY <1>6, Zenon DEF From
  <2> HIDE DEF v
  <2>4. v \in Fetches /\ v.pc = "older"
    BY <2>1, <2>2 DEF Fetches
  <2> QED BY <1>3, <2>3, <2>4
<1>7. CASE FetchRead(p)
  <2>1. "gotPage" \in FetchPcs /\ "gotOlder" \in FetchPcs
    BY DEF FetchPcs
  <2> QED BY <1>4, <1>7, <2>1, Zenon DEF FetchRead
<1>8. ASSUME NEW pc \in {"page", "older"}, Fetch(p, pc) PROVE KInv'
  <2>1. \A i \in Has(shown[p]) : i \in Ids
    BY DEF Has
  <2> QED BY <1>5, <1>6, <1>8, <2>1, Zenon DEF Fetch
<1> QED BY <1>7, <1>8

-----------------------------------------------------------------------------
(* The page. *)

\* A quiet step of a page.
LEMMA PageInv ==
    ASSUME KInv, Quiet, KTypes', Mail(inbox', Known'), Answers(join', fetch', Known'),
           \A t \in Texts : sentAt'[t] # None /\ t \notin gone'
                             /\ ~Held(t, wiped', bubble', queue') =>
              \/ sentAt[t] # None /\ t \notin gone /\ ~Held(t, wiped, bubble, queue)
              \/ \E i \in Known : i[1] = t
    PROVE  KInv'
<1>1. Known \subseteq Known' /\ Rows(db', Known') /\ Handlers(send', born', Known')
  BY QuietKnown
<1>2. Saved(sentAt, gone, wiped, bubble, queue, Known')
  BY <1>1, MoreKnown
<1>3. Saved(sentAt', gone', wiped', bubble', queue', Known')
  BY <1>1, <1>2 DEF Saved
<1> QED BY <1>1, <1>3, Primed DEF KInv

\* Nothing is taken from a text but what its row, which is known, takes.
Spared == /\ UNCHANGED <<sentAt, gone, wiped>>
          /\ bubble' \in [Texts -> {"no", "sending", "failed"}]
          /\ queue' \in [Texts -> {"no", "sending", "failed"}]
          /\ \A t \in Texts : bubble'[t] = "no" =>
                bubble[t] = "no" \/ \E i \in Known : i[1] = t
          /\ \A t \in Texts : queue'[t] = "no" =>
                queue[t] = "no" \/ \E i \in Known : i[1] = t

\* What a history takes from the texts it holds.
LEMMA ApplyBubbles ==
    ASSUME KInv, NEW p, NEW snap, Has(snap) \subseteq Known, Apply(p, snap)
    PROVE  Spared
<1>1. /\ UNCHANGED <<sentAt, gone, wiped>>
      /\ bubble' = [t \in Texts |->
             IF t \in {x \in Texts : Author[x] = p} /\ ~BubbleStays(t, snap)
             THEN "no" ELSE bubble[t]]
      /\ queue' = [t \in Texts |->
             IF t \in {x \in Texts : Author[x] = p} /\ OfText(snap, t) # {}
             THEN "no" ELSE queue[t]]
  BY Zenon DEF Apply
<1>2. /\ bubble \in [Texts -> {"no", "sending", "failed"}]
      /\ queue \in [Texts -> {"no", "sending", "failed"}]
  BY DEF KInv, KTypes
<1>3. ASSUME NEW t \in Texts, OfText(snap, t) # {} PROVE \E i \in Known : i[1] = t
  BY <1>3 DEF OfText
<1>4. \A t \in Texts : ~BubbleStays(t, snap) => OfText(snap, t) # {}
  BY DEF BubbleStays
<1>5. \A t \in Texts : bubble'[t] = "no" =>
         bubble[t] = "no" \/ \E i \in Known : i[1] = t
  BY <1>1, <1>3, <1>4
<1>6. \A t \in Texts : queue'[t] = "no" =>
         queue[t] = "no" \/ \E i \in Known : i[1] = t
  BY <1>1, <1>3
<1> QED BY <1>1, <1>2, <1>5, <1>6 DEF Spared

LEMMA HandleInv == ASSUME KInv, NEW p \in Pages, Handle(p) PROVE KInv'
<1> DEFINE e == Head(inbox[p])
<1>1. /\ inbox[p] # <<>> /\ inbox' = [inbox EXCEPT ![p] = Tail(@)]
      /\ UNCHANGED <<db, born, clock, send, change, join, fetch, changes>>
      /\ \/ e.kind = "new" /\ OnNew(p, e)
         \/ e.kind \in {"gone", "edit"} /\ OnChange(p, e)
         \/ e.kind = "history" /\ Apply(p, e.snap)
  BY DEF Handle, server
<1>2. KTypes /\ inbox[p] \in Seq(Events) /\ Mail(inbox, Known) /\ Answers(join, fetch, Known)
  BY DEF KInv, KTypes
<1>3. e \in Events /\ Good(e, Known)
  <2>1. Len(inbox[p]) \in Nat /\ Len(inbox[p]) # 0 /\ e = inbox[p][1] /\ e \in Events
    BY <1>1, <1>2
  <2> QED BY <1>2, <2>1 DEF Mail
<1>4. Quiet
  BY <1>1, <1>2 DEF Quiet, KTypes
<1>5. Known \subseteq Known'
  BY <1>4, QuietKnown
<1>6. inbox' \in [Pages -> Seq(Events)] /\ Mail(inbox', Known')
  <2> DEFINE q == Tail(inbox[p])
  <2>1. q \in Seq(Events) /\ \A j \in 1..Len(q) : j + 1 \in 1..Len(inbox[p]) /\ q[j] = inbox[p][j + 1]
    BY <1>1, <1>2
  <2>2. inbox' = [inbox EXCEPT ![p] = q]
    BY <1>1, Zenon
  <2>3. \A j \in 1..Len(q) : Good(q[j], Known)
    BY <1>2, <2>1 DEF Mail
  <2> HIDE DEF q
  <2>4. inbox \in [Pages -> Seq(Events)]
    BY <1>2 DEF KTypes
  <2>5. \A r \in Pages : inbox'[r] = IF r = p THEN q ELSE inbox[r]
    BY <2>2, <2>4
  <2>6. inbox' \in [Pages -> Seq(Events)]
    BY <2>1, <2>2, <2>4
  <2>7. ASSUME NEW r \in Pages, NEW j \in 1..Len(inbox'[r]) PROVE Good(inbox'[r][j], Known)
    BY <1>2, <2>3, <2>5, <2>7 DEF Mail
  <2>8. Mail(inbox', Known')
    BY <1>5, <2>7 DEF Mail, Good
  <2> QED BY <2>6, <2>8
<1> HIDE DEF e
<1>7. Spared
  <2>1. /\ bubble \in [Texts -> {"no", "sending", "failed"}]
        /\ queue \in [Texts -> {"no", "sending", "failed"}]
    BY <1>2 DEF KTypes
  <2>2. CASE e.kind = "new" /\ OnNew(p, e)
    <3> DEFINE t == e.id[1]
    <3>1. e.id \in Known
      BY <1>3, <2>2 DEF Good
    <3>2. /\ UNCHANGED <<sentAt, gone, wiped>>
          /\ bubble' = bubble \/ bubble' = [bubble EXCEPT ![t] = "no"]
          /\ queue' = queue \/ queue' = [queue EXCEPT ![t] = "no"]
      BY <2>2 DEF OnNew, page
    <3>3. t = e.id[1]
      OBVIOUS
    <3> HIDE DEF t
    <3>4. \A x \in Texts : bubble'[x] = "no" => bubble[x] = "no" \/ x = t
      BY <2>1, <3>2
    <3>5. \A x \in Texts : queue'[x] = "no" => queue[x] = "no" \/ x = t
      BY <2>1, <3>2
    <3>6. /\ bubble' \in [Texts -> {"no", "sending", "failed"}]
          /\ queue' \in [Texts -> {"no", "sending", "failed"}]
      BY <2>1, <3>2
    <3> QED BY <3>1, <3>2, <3>3, <3>4, <3>5, <3>6 DEF Spared
  <2>3. CASE OnChange(p, e)
    <3>1. UNCHANGED <<bubble, queue, sentAt, gone, wiped>>
      BY <2>3 DEF OnChange, page
    <3> QED BY <2>1, <3>1 DEF Spared
  <2>4. CASE e.kind = "history" /\ Apply(p, e.snap)
    <3>1. Has(e.snap) \subseteq Known
      BY <1>3, <2>4 DEF Good
    <3> QED BY <2>4, <3>1, ApplyBubbles
  <2> QED BY <1>1, <2>2, <2>3, <2>4
<1>8. KTypes'
  BY <1>1, <1>2, <1>6, <1>7 DEF KTypes, Spared
<1>9. Answers(join', fetch', Known')
  BY <1>1, <1>5, MoreKnown
<1> QED BY <1>4, <1>6, <1>7, <1>8, <1>9, PageInv DEF Spared, Held

LEMMA FetchedInv == ASSUME KInv, NEW p \in Pages, Fetched(p) PROVE KInv'
<1>1. /\ fetch' = [fetch EXCEPT ![p] = Asleep]
      /\ UNCHANGED <<inbox, db, born, clock, send, change, join, changes>>
      /\ \/ fetch[p].pc = "gotPage" /\ Apply(p, fetch[p].snap)
         \/ UNCHANGED <<bubble, queue, sentAt, gone, wiped>>
  BY DEF Fetched, server
<1>2. KTypes /\ Answers(join, fetch, Known)
  BY DEF KInv
<1>3. Quiet
  BY <1>1, <1>2 DEF Quiet, KTypes
<1>4. Known \subseteq Known'
  BY <1>3, QuietKnown
<1>5. Spared
  <2>1. CASE fetch[p].pc = "gotPage" /\ Apply(p, fetch[p].snap)
    <3>1. Has(fetch[p].snap) \subseteq Known
      BY <1>2, <2>1 DEF Answers
    <3> QED BY <2>1, <3>1, ApplyBubbles
  <2>2. CASE UNCHANGED <<bubble, queue, sentAt, gone, wiped>>
    BY <1>2, <2>2 DEF KTypes, Spared
  <2> QED BY <1>1, <2>1, <2>2
<1>6. fetch' \in [Pages -> Fetches] /\ Answers(join', fetch', Known')
  BY <1>1, <1>2, <1>4, AsleepTypes DEF KTypes, Answers
<1>7. KTypes'
  BY <1>1, <1>2, <1>5, <1>6 DEF KTypes, Spared
<1>8. Mail(inbox', Known')
  BY <1>1, <1>4, MoreKnown
<1> QED BY <1>3, <1>5, <1>6, <1>7, <1>8, PageInv DEF Spared, Held

\* A text that is sent, for the first time or again.
LEMMA EmitInv ==
    ASSUME KInv, NEW t \in Texts, Emit(t),
           UNCHANGED <<inbox, db, born, clock, change, join, fetch, changes, gone, wiped>>,
           \/ UNCHANGED <<bubble, queue, sentAt>>
           \/ /\ bubble' = [bubble EXCEPT ![t] = "sending"]
              /\ queue' = [queue EXCEPT ![t] = "sending"]
              /\ sentAt' = sentAt \/ \E n : sentAt' = [sentAt EXCEPT ![t] = n]
    PROVE  KInv'
<1>1. KTypes /\ send \in [Attempts -> Sends]
  BY DEF KInv, KTypes
<1>2. PICK k \in NextAttempt(t) : send' = [send EXCEPT ![<<t, k>>] =
          [Idle EXCEPT !.pc = "ask", !.live = Author[t] \in Pages]]
  BY Zenon DEF Emit
<1> DEFINE v == [Idle EXCEPT !.pc = "ask", !.live = Author[t] \in Pages]
<1>3. v \in Sends /\ v.pc = "ask"
  <2>1. (Author[t] \in Pages) \in BOOLEAN
    OBVIOUS
  <2> QED BY <2>1, AskingSend, Zenon
<1>4. send' = [send EXCEPT ![<<t, k>>] = v]
  BY <1>2, Zenon
<1> HIDE DEF v
<1>5. Quiet
  <2>1. send' \in [Attempts -> Sends]
    BY <1>1, <1>3, <1>4
  <2>2. \A a \in Attempts : send'[a] = send[a] \/ send'[a].pc = "ask"
    BY <1>1, <1>3, <1>4
  <2> QED BY <1>1, <2>1, <2>2 DEF Quiet, KTypes
<1>6. /\ bubble' \in [Texts -> {"no", "sending", "failed"}]
      /\ queue' \in [Texts -> {"no", "sending", "failed"}]
      /\ sentAt' = [x \in Texts |-> sentAt'[x]]
      /\ \A x \in Texts :
            \/ bubble'[x] = bubble[x] /\ queue'[x] = queue[x] /\ sentAt'[x] = sentAt[x]
            \/ bubble'[x] # "no" /\ queue'[x] # "no"
  BY <1>1 DEF KTypes
<1>7. Known \subseteq Known'
  BY <1>5, QuietKnown
<1>8. Mail(inbox', Known') /\ Answers(join', fetch', Known')
  BY <1>7, MoreKnown
<1>9. KTypes'
  BY <1>1, <1>5, <1>6 DEF KTypes, Quiet
<1> QED BY <1>5, <1>6, <1>8, <1>9, PageInv DEF Held

\* The steps of a page that send nothing.
LEMMA StillInv ==
    ASSUME KInv,
           UNCHANGED <<inbox, db, born, clock, send, change, fetch, changes, sentAt>>,
           join' \in [Pages -> Joins],
           \A p \in Pages : join'[p] = join[p] \/ join'[p].pc # "tell",
           bubble' \in [Texts -> {"no", "sending", "failed"}],
           queue' \in [Texts -> {"no", "sending", "failed"}],
           gone \subseteq gone', wiped \subseteq wiped',
           \A t \in Texts : bubble'[t] = "no" => bubble[t] = "no" \/ t \in gone',
           \A t \in Texts : queue'[t] = "no" => queue[t] = "no" \/ t \in gone'
    PROVE  KInv'
<1>1. KTypes /\ Answers(join, fetch, Known)
  BY DEF KInv
<1>2. Quiet
  BY <1>1 DEF Quiet, KTypes
<1>3. Known \subseteq Known'
  BY <1>2, QuietKnown
<1>4. Mail(inbox', Known')
  BY <1>3, MoreKnown
<1>5. Answers(join', fetch', Known')
  BY <1>1, <1>3 DEF Answers
<1>6. KTypes'
  BY <1>1 DEF KTypes
<1> QED BY <1>2, <1>4, <1>5, <1>6, PageInv DEF Held

LEMMA TextInv ==
    ASSUME KInv, NEW t \in Texts,
           Write(t) \/ WriteElsewhere(t) \/ TimeOut(t) \/ Retry(t) \/ Dismiss(t)
    PROVE  KInv'
<1>1. KTypes
  BY DEF KInv
<1>2. CASE Write(t)
  <2>1. Emit(t) /\ bubble' = [bubble EXCEPT ![t] = "sending"]
        /\ queue' = [queue EXCEPT ![t] = "sending"]
        /\ UNCHANGED <<inbox, db, born, clock, change, join, fetch, changes, gone, wiped>>
        /\ sentAt' = [sentAt EXCEPT ![t] = clock - 1 + Skew[Author[t]]]
    BY <1>2, Zenon DEF Write
  <2> QED BY <2>1, EmitInv
<1>3. CASE WriteElsewhere(t)
  BY <1>3, EmitInv DEF WriteElsewhere, page
<1>4. CASE TimeOut(t)
  <2>1. bubble' = [bubble EXCEPT ![t] = IF @ = "no" THEN @ ELSE "failed"]
        /\ queue' = [queue EXCEPT ![t] = "failed"]
        /\ UNCHANGED <<inbox, server, fetch, sentAt, gone, wiped, changes>>
    BY <1>4, Zenon DEF TimeOut
  <2> QED BY <1>1, <2>1, StillInv DEF KTypes, server
<1>5. CASE Retry(t)
  BY <1>5, EmitInv DEF Retry
<1>6. CASE Dismiss(t)
  <2>1. bubble' = [bubble EXCEPT ![t] = "no"] /\ gone' = gone \cup {t}
        /\ queue' = [queue EXCEPT ![t] = "no"]
        /\ UNCHANGED <<inbox, server, fetch, sentAt, wiped, changes>>
    BY <1>6, Zenon DEF Dismiss
  <2> QED BY <1>1, <2>1, StillInv DEF KTypes, server
<1> QED BY <1>2, <1>3, <1>4, <1>5, <1>6

LEMMA ConnectInv == ASSUME KInv, NEW p \in Pages, Connect(p) PROVE KInv'
<1> DEFINE v == [Asleep EXCEPT !.pc = "ask"]
<1>1. v \in Joins /\ v.pc = "ask"
  BY AsleepTypes DEF Joins
<1>2. /\ join' = [join EXCEPT ![p] = v]
      /\ UNCHANGED <<inbox, db, born, clock, send, change, fetch, changes, bubble, queue, sentAt,
                     gone, wiped>>
  BY DEF Connect, page
<1> HIDE DEF v
<1>3. KTypes
  BY DEF KInv
<1> QED BY <1>1, <1>2, <1>3, StillInv DEF KTypes

\* What a broken socket takes with it.
LEMMA BrokenParts ==
    ASSUME KInv, NEW p \in Pages, NEW lost \in BOOLEAN, Broken(p, lost)
    PROVE  /\ Quiet /\ clock' = clock /\ change' \in [Clients -> Changes]
           /\ inbox' \in [Pages -> Seq(Events)] /\ Mail(inbox', Known')
           /\ join' \in [Pages -> Joins]
           /\ \A q \in Pages : join'[q] = join[q] \/ join'[q].pc = "no"
<1>1. /\ KTypes /\ send \in [Attempts -> Sends] /\ change \in [Clients -> Changes]
      /\ inbox \in [Pages -> Seq(Events)] /\ Mail(inbox, Known)
  BY DEF KInv, KTypes
<1>2. /\ inbox' = [inbox EXCEPT ![p] = <<>>] /\ join' = [join EXCEPT ![p] = Asleep]
      /\ UNCHANGED <<db, born, clock>>
      /\ send' = [a \in Attempts |->
             IF ~Mine(a, p) THEN send[a]
             ELSE IF lost /\ send[a].pc = "ask" THEN [Idle EXCEPT !.pc = "told"]
             ELSE [send[a] EXCEPT !.live = FALSE]]
      /\ change' = [change EXCEPT ![p] =
             IF lost /\ @.pc \in {"edit", "delete"} THEN Idle ELSE @]
  BY Zenon DEF Broken
<1>3. \A r \in Sends : LET w == [r EXCEPT !.live = FALSE]
                       IN  w \in Sends /\ w.pc = r.pc /\ w.id = r.id
  BY DEF Sends
<1>4. ASSUME NEW a \in Attempts
      PROVE  /\ send'[a] \in Sends
             /\ send'[a].pc \in {"insert", "tell", "echo"} =>
                   send'[a].pc = send[a].pc /\ send'[a].id = send[a].id
  <2> DEFINE o == [Idle EXCEPT !.pc = "told"]
             w == [send[a] EXCEPT !.live = FALSE]
  <2>1. o \in Sends /\ o.pc = "told"
    BY IdleSends
  <2>2. w \in Sends /\ w.pc = send[a].pc /\ w.id = send[a].id
    BY <1>1, <1>3
  <2>3. send'[a] = send[a] \/ send'[a] = o \/ send'[a] = w
    BY <1>2, Zenon
  <2> HIDE DEF o, w
  <2> QED BY <1>1, <2>1, <2>2, <2>3
<1>5. Quiet
  <2>1. send' \in [Attempts -> Sends]
    <3>1. send' = [a \in Attempts |-> send'[a]]
      BY <1>2
    <3> QED BY <1>4, <3>1
  <2> QED BY <1>1, <1>2, <1>4, <2>1 DEF Quiet, KTypes
<1>6. Known \subseteq Known'
  BY <1>5, QuietKnown
<1>7. change' \in [Clients -> Changes]
  BY <1>1, <1>2, IdleSends
<1>8. inbox' \in [Pages -> Seq(Events)] /\ Mail(inbox', Known')
  <2>1. \A q \in Pages : inbox'[q] = inbox[q] \/ inbox'[q] = <<>>
    BY <1>1, <1>2
  <2>2. inbox' \in [Pages -> Seq(Events)]
    BY <1>1, <1>2
  <2>3. Mail(inbox, Known')
    BY <1>6, MoreKnown
  <2>4. ASSUME NEW q \in Pages, NEW j \in 1..Len(inbox'[q]) PROVE Good(inbox'[q][j], Known')
    <3>1. inbox'[q] # <<>>
      BY <2>4
    <3> QED BY <2>1, <2>3, <3>1 DEF Mail
  <2> QED BY <2>2, <2>4, Zenon DEF Mail
<1>9. join' \in [Pages -> Joins] /\ \A q \in Pages : join'[q] = join[q] \/ join'[q].pc = "no"
  BY <1>1, <1>2, AsleepTypes DEF KTypes
<1> QED BY <1>2, <1>5, <1>7, <1>8, <1>9

LEMMA BreakInv ==
    ASSUME KInv, NEW p \in Pages, Disconnect(p) \/ Leave(p) \/ Renew(p)
    PROVE  KInv'
<1>1. KTypes /\ Answers(join, fetch, Known)
  BY DEF KInv
<1>2. PICK lost \in BOOLEAN : Broken(p, lost)
  BY Zenon DEF Disconnect, Leave, Renew
<1>3. /\ Quiet /\ clock' = clock /\ change' \in [Clients -> Changes]
      /\ inbox' \in [Pages -> Seq(Events)] /\ Mail(inbox', Known')
      /\ join' \in [Pages -> Joins]
      /\ \A q \in Pages : join'[q] = join[q] \/ join'[q].pc = "no"
  BY <1>2, BrokenParts
<1>4. Known \subseteq Known'
  BY <1>3, QuietKnown
<1> DEFINE mine == {t \in Texts : Author[t] = p}
           Cleared(f) == [t \in Texts |-> IF t \in mine THEN "no" ELSE f[t]]
<1>5. /\ UNCHANGED <<sentAt, changes>>
      /\ \/ UNCHANGED <<fetch, bubble, queue, gone, wiped>>
         \/ /\ bubble' = Cleared(bubble) /\ queue' = Cleared(queue)
            /\ gone' = gone \cup {t \in mine : sentAt[t] # None}
            /\ fetch' = [fetch EXCEPT ![p] = Asleep] /\ UNCHANGED wiped
         \/ /\ bubble' = Cleared(bubble) /\ UNCHANGED <<fetch, queue, gone>>
            /\ wiped' = wiped \cup {t \in mine : bubble[t] # "no"}
  BY Zenon DEF Disconnect, Leave, Renew
<1>6. /\ bubble' \in [Texts -> {"no", "sending", "failed"}]
      /\ queue' \in [Texts -> {"no", "sending", "failed"}]
      /\ \A t \in Texts : sentAt'[t] # None /\ t \notin gone'
                           /\ ~Held(t, wiped', bubble', queue') =>
            sentAt[t] # None /\ t \notin gone /\ ~Held(t, wiped, bubble, queue)
  BY <1>1, <1>5 DEF KTypes, Held
<1>7. /\ fetch' \in [Pages -> Fetches]
      /\ \A q \in Pages : fetch'[q] = fetch[q] \/ fetch'[q].pc = "no"
  BY <1>1, <1>5, AsleepTypes DEF KTypes
<1>8. Answers(join', fetch', Known')
  BY <1>1, <1>3, <1>4, <1>7 DEF Answers
<1>9. KTypes'
  BY <1>1, <1>3, <1>5, <1>6, <1>7 DEF KTypes, Quiet
<1> QED BY <1>3, <1>6, <1>8, <1>9, PageInv

-----------------------------------------------------------------------------
\* One lemma per handler, each by what it lets somebody hear of a row.
LEMMA NextInv == ASSUME KInv, [Next]_vars PROVE KInv'
<1>1. ASSUME NEW a \in Attempts,
             SendAsk(a) \/ SendInsert(a) \/ SendTell(a) \/ SendFails(a)
      PROVE  KInv'
  BY <1>1, SendAskInv, SendInsertInv, SendTellInv, SendFailsInv
<1>2. ASSUME NEW t \in Texts,
             Write(t) \/ WriteElsewhere(t) \/ TimeOut(t) \/ Retry(t) \/ Dismiss(t)
      PROVE  KInv'
  BY <1>2, TextInv
<1>3. ASSUME NEW c \in Clients,
             \/ ChangeRow(c) \/ ChangeTell(c) \/ ChangeFails(c)
             \/ \E i \in Ids, pc \in {"edit", "delete"} : Change(c, i, pc)
      PROVE  KInv'
  BY <1>3, ChangeRowInv, ChangeTellInv, ChangesInv
<1>4. ASSUME NEW p \in Pages,
             \/ JoinStep(p) \/ JoinFails(p) \/ FetchRead(p) \/ Handle(p)
             \/ Fetched(p) \/ Connect(p) \/ Disconnect(p) \/ Leave(p)
             \/ Renew(p) \/ \E pc \in {"page", "older"} : Fetch(p, pc)
      PROVE  KInv'
  BY <1>4, JoinStepInv, JoinFailsInv, FetchesInv, HandleInv, FetchedInv, ConnectInv, BreakInv
<1>5. ASSUME UNCHANGED vars PROVE KInv'
  <2>1. UNCHANGED <<inbox, db, born, clock, send, change, join, fetch, changes,
                    bubble, queue, sentAt, gone, wiped>>
    BY <1>5 DEF vars, server, page
  <2>2. KTypes
    BY DEF KInv
  <2> QED BY <2>1, <2>2, StillInv DEF KTypes
<1> QED BY <1>1, <1>2, <1>3, <1>4, <1>5, Zenon DEF Next

\* At first nothing is known but the old row, if there is one.
LEMMA InitInv == Init => KInv
<1> SUFFICES ASSUME Init PROVE KInv
  OBVIOUS
<1>1. <<Old, 1>> \in Ids /\ None \in Int /\ 0 # None
  BY RoomAssumption DEF Ids, Attempts, None
<1>2. AtFirst \in Values /\ \A i \in Ids : AtFirst[i] = IF i = <<Old, 1>> THEN 0 ELSE None
  BY <1>1, AsleepTypes DEF AtFirst, Values
<1>3. db \in Values /\ born = db /\ (db = Blank \/ db = AtFirst)
  BY <1>2, AsleepTypes DEF Init
<1>4. \A a \in Attempts : send[a] = Idle
  BY DEF Init
<1>5. \A p \in Pages : join[p] = Asleep /\ fetch[p] = Asleep /\ inbox[p] = <<>>
  BY DEF Init
<1>6. Known = {i \in Ids : db[i] # None}
  BY <1>3, <1>4, IdleSends DEF Known
<1>7. KTypes
  BY <1>1, <1>3, AsleepTypes, IdleSends DEF Init, KTypes
<1>8. Rows(db, Known) /\ Handlers(send, born, Known)
  BY <1>4, <1>6, IdleSends DEF Rows, Handlers
<1>9. Mail(inbox, Known) /\ Answers(join, fetch, Known)
  BY <1>5, AsleepTypes DEF Mail, Answers
<1>10. Saved(sentAt, gone, wiped, bubble, queue, Known)
  <2>1. ASSUME NEW t \in Texts, sentAt[t] # None PROVE \E i \in Known : i[1] = t
    <3>1. t = Old /\ db # Blank
      BY <2>1 DEF Init
    <3>2. <<Old, 1>> \in Known
      BY <1>1, <1>2, <1>3, <1>6, <3>1
    <3> QED BY <3>1, <3>2
  <2> QED BY <2>1 DEF Saved
<1> QED BY <1>7, <1>8, <1>9, <1>10 DEF KInv

\* A text that was written and neither dismissed nor left waits in the queue, and
\* is a bubble on its page unless the page was renewed, until its row is stored:
\* what takes a text off is an echo or a history, and both tell only of rows that
\* are, or were, in the table (integrateEcho, reconcileMessages, confirm;
\* sendMessage and joinRoom on the server).
THEOREM TextsAreKept == Spec => []TextKept
<1>1. KInv => TextKept
  <2>1. ASSUME KInv, NEW t \in Texts, NEW i \in Known, i[1] = t PROVE Stored(t)
    BY <2>1 DEF Known, Stored
  <2> QED BY <2>1 DEF KInv, Saved, Held, TextKept
<1> QED BY <1>1, InitInv, NextInv, PTL DEF Spec

\* Steps that store nothing, and let no handler begin to insert.
LEMMA StillGrown ==
    ASSUME KInv, UNCHANGED <<born, clock>>,
           \A i \in Ids : db'[i] # None => db[i] # None \/ i \notin Known,
           \A a \in Attempts : send'[a].pc = "insert" =>
              send[a].pc = "insert" /\ send'[a].id = send[a].id
    PROVE  Grown
<1>1. Known \subseteq Known'
  BY DEF Known
<1>2. \A i \in Known : i \in Ids
  BY DEF Known
<1> QED BY <1>1, <1>2 DEF Grown

LEMMA EmitGrown ==
    ASSUME KInv, NEW t \in Texts, Emit(t), UNCHANGED <<db, born, clock>>
    PROVE  /\ Grown
           /\ \A a \in Attempts : send'[a].pc # "no" => send[a].pc # "no" \/ a[1] = t
<1>1. send \in [Attempts -> Sends]
  BY DEF KInv, KTypes
<1>2. PICK k \in NextAttempt(t) : send' = [send EXCEPT ![<<t, k>>] =
          [Idle EXCEPT !.pc = "ask", !.live = Author[t] \in Pages]]
  BY Zenon DEF Emit
<1> DEFINE v == [Idle EXCEPT !.pc = "ask", !.live = Author[t] \in Pages]
<1>3. v.pc = "ask"
  <2>1. (Author[t] \in Pages) \in BOOLEAN
    OBVIOUS
  <2> QED BY <2>1, AskingSend, Zenon
<1>4. send' = [send EXCEPT ![<<t, k>>] = v]
  BY <1>2, Zenon
<1> HIDE DEF v
<1>5. \A a \in Attempts : send'[a] = send[a] \/ (send'[a] = v /\ a = <<t, k>>)
  BY <1>1, <1>4
<1> QED BY <1>3, <1>5, StillGrown

LEMMA BrokenGrown ==
    ASSUME KInv, NEW p \in Pages, NEW lost \in BOOLEAN, Broken(p, lost)
    PROVE  /\ Grown
           /\ \A a \in Attempts : send'[a].pc # "no" => send[a].pc # "no"
<1>1. Quiet /\ clock' = clock
  BY BrokenParts
<1>2. Grown
  BY <1>1, StillGrown DEF Quiet
<1>3. \A r \in Sends : [r EXCEPT !.live = FALSE].pc = r.pc
  BY DEF Sends
<1>4. ASSUME NEW a \in Attempts, send'[a].pc # "no" PROVE send[a].pc # "no"
  <2>1. send[a] \in Sends
    BY DEF KInv, KTypes
  <2>2. \/ send'[a] = send[a]
        \/ send[a].pc = "ask"
        \/ send'[a] = [send[a] EXCEPT !.live = FALSE]
    BY Zenon DEF Broken
  <2> QED BY <1>3, <1>4, <2>1, <2>2
<1> QED BY <1>2, <1>4

\* The handlers of sendMessage go on only if they began.
LEMMA SendBegan ==
    ASSUME KInv, NEW a \in Attempts,
           SendAsk(a) \/ SendInsert(a) \/ SendTell(a) \/ SendFails(a)
    PROVE  /\ Grown
           /\ \A c \in Attempts : send'[c].pc # "no" => send[c].pc # "no"
<1>1. send \in [Attempts -> Sends]
  BY DEF KInv, KTypes
<1>2. send[a].pc # "no" /\ \E v : send' = [send EXCEPT ![a] = v]
  BY Zenon DEF SendAsk, SendInsert, SendTell, SendFails
<1>3. \A c \in Attempts : send'[c].pc # "no" => send[c].pc # "no"
  BY <1>1, <1>2
<1>4. CASE SendTell(a)
  <2>1. UNCHANGED <<db, born, clock>>
    BY <1>4 DEF SendTell
  <2>2. PICK v \in Sends : v.pc \in {"told", "echoed"} /\ send' = [send EXCEPT ![a] = v]
    BY <1>4, IdleSends, Zenon DEF SendTell
  <2>3. \A c \in Attempts : send'[c] = send[c] \/ send'[c] = v
    BY <1>1, <2>2
  <2> QED BY <1>3, <2>1, <2>2, <2>3, StillGrown
<1> QED BY <1>3, <1>4, SendAskInv, SendInsertInv, SendFailsInv

Texting(t) == Write(t) \/ WriteElsewhere(t) \/ Retry(t)

LEMMA ChangeRowGrown ==
    ASSUME KInv, NEW c \in Clients, ChangeRow(c)
    PROVE  UNCHANGED send /\ Grown
<1>1. db \in [Ids -> Int]
  BY DEF KInv, KTypes, Values
<1>2. \/ db' = db
      \/ db[change[c].id] # None /\ \E v : db' = [db EXCEPT ![change[c].id] = v]
  BY Zenon DEF ChangeRow
<1>3. \A i \in Ids : db'[i] # None => db[i] # None
  BY <1>1, <1>2
<1>4. UNCHANGED <<send, born, clock>>
  BY DEF ChangeRow
<1> QED BY <1>3, <1>4, StillGrown

\* Every step: what is known grows, and only a text that is sent begins.
LEMMA NextGrown ==
    ASSUME KInv, [Next]_vars
    PROVE  /\ Grown
           /\ \A a \in Attempts : send'[a].pc # "no" =>
                 send[a].pc # "no" \/ Texting(a[1])
<1> DEFINE Goal == /\ Grown
                   /\ \A a \in Attempts : send'[a].pc # "no" =>
                         send[a].pc # "no" \/ Texting(a[1])
<1>1. ASSUME UNCHANGED <<db, born, clock, send>> PROVE Goal
  BY <1>1, StillGrown
<1>2. ASSUME NEW a \in Attempts,
             SendAsk(a) \/ SendInsert(a) \/ SendTell(a) \/ SendFails(a)
      PROVE  Goal
  BY <1>2, SendBegan
<1>3. ASSUME NEW t \in Texts,
             Write(t) \/ WriteElsewhere(t) \/ TimeOut(t) \/ Retry(t) \/ Dismiss(t)
      PROVE  Goal
  <2>1. CASE Texting(t)
    <3>1. Emit(t) /\ UNCHANGED <<db, born, clock>>
      BY <2>1 DEF Texting, Write, WriteElsewhere, Retry
    <3> QED BY <2>1, <3>1, EmitGrown
  <2>2. CASE TimeOut(t) \/ Dismiss(t)
    BY <1>1, <2>2 DEF TimeOut, Dismiss, server
  <2> QED BY <1>3, <2>1, <2>2 DEF Texting
<1>4. ASSUME NEW c \in Clients,
             \/ ChangeRow(c) \/ ChangeTell(c) \/ ChangeFails(c)
             \/ \E i \in Ids, pc \in {"edit", "delete"} : Change(c, i, pc)
      PROVE  Goal
  <2>1. CASE ChangeRow(c)
    BY <2>1, ChangeRowGrown
  <2>2. CASE ChangeTell(c) \/ ChangeFails(c)
    BY <1>1, <2>2 DEF ChangeTell, ChangeFails
  <2>3. CASE \E i \in Ids, pc \in {"edit", "delete"} : Change(c, i, pc)
    BY <1>1, <2>3 DEF Change
  <2> QED BY <1>4, <2>1, <2>2, <2>3
<1>5. ASSUME NEW p \in Pages,
             \/ JoinStep(p) \/ JoinFails(p) \/ FetchRead(p) \/ Handle(p)
             \/ Fetched(p) \/ Connect(p) \/ Disconnect(p) \/ Leave(p)
             \/ Renew(p) \/ \E pc \in {"page", "older"} : Fetch(p, pc)
      PROVE  Goal
  <2>1. CASE Disconnect(p) \/ Leave(p) \/ Renew(p)
    <3>1. \E lost \in BOOLEAN : Broken(p, lost)
      BY <2>1 DEF Disconnect, Leave, Renew
    <3> QED BY <3>1, BrokenGrown
  <2>2. CASE JoinStep(p) \/ JoinFails(p) \/ FetchRead(p) \/ Handle(p) \/ Fetched(p) \/ Connect(p)
    BY <1>1, <2>2 DEF JoinStep, JoinFails, FetchRead, Handle, Fetched, Connect, server
  <2>3. CASE \E pc \in {"page", "older"} : Fetch(p, pc)
    BY <1>1, <2>3 DEF Fetch, server
  <2> QED BY <1>5, <2>1, <2>2, <2>3
<1>6. CASE UNCHANGED vars
  BY <1>1, <1>6 DEF vars, server
<1> QED BY <1>2, <1>3, <1>4, <1>5, <1>6, Zenon DEF Next

-----------------------------------------------------------------------------
(* The bubbles. *)

Marks == {"no", "sending", "failed"}

PTypes == /\ shown \in [Pages -> Values] /\ queue \in [Texts -> Marks]
          /\ sentAt \in [Texts -> Int] /\ since = [p \in Pages |-> since[p]]
          /\ stale = [p \in Pages |-> stale[p]]

\* A page shows what was in the table.
ShownKnown == \A p \in Pages : Has(shown[p]) \subseteq Known

\* The texts of the pages that are looked at have the time of their bubble before
\* anything else, and a page whose clock is right puts it before createdAt.
Own == {t \in Texts : Author[t] \in Pages}
Sent == \A t \in Own :
    /\ bubble[t] # "no" => sentAt[t] # None
    /\ \A a \in Attempts : a[1] = t /\ send[a].pc # "no" => sentAt[t] # None
    /\ \A i \in Ids : i[1] = t /\ born[i] # None => sentAt[t] # None
Early ==
    /\ 0 < clock
    /\ \A t \in Own : Skew[Author[t]] = 0 =>
          /\ sentAt[t] < clock
          /\ \A i \in Ids : i[1] = t /\ born[i] # None => sentAt[t] <= born[i]

BInv == KInv /\ PTypes /\ ShownKnown /\ Sent /\ Early /\ BubbleIsUnsent

LEMMA IdTypes == \A i \in Ids : i[1] \in Texts
BY DEF Ids, Attempts

LEMMA ShownNext ==
    ASSUME KInv, Grown,
           \A p \in Pages : \A i \in Ids : shown'[p][i] # None => i \in Known
    PROVE  ShownKnown'
BY DEF ShownKnown, Has, Grown

LEMMA SentNext ==
    ASSUME BInv, Grown,
           \A a \in Attempts : send'[a].pc # "no" => send[a].pc # "no" \/ sentAt'[a[1]] # None,
           \A t \in Own : bubble'[t] # "no" => bubble[t] # "no" \/ sentAt'[t] # None,
           \A t \in Own : sentAt'[t] = sentAt[t] \/ (sentAt[t] = None /\ sentAt'[t] # None)
    PROVE  Sent'
<1>1. \A t \in Own : sentAt[t] # None => sentAt'[t] # None
  OBVIOUS
<1>2. \A i \in Ids : i[1] \in Own /\ born'[i] # None => sentAt[i[1]] # None
  BY DEF BInv, Sent, Grown, Ids
<1>3. ASSUME NEW t \in Own
      PROVE  /\ bubble'[t] # "no" => sentAt'[t] # None
             /\ \A a \in Attempts : a[1] = t /\ send'[a].pc # "no" => sentAt'[t] # None
             /\ \A i \in Ids : i[1] = t /\ born'[i] # None => sentAt'[t] # None
  BY <1>1, <1>2 DEF BInv, Sent
<1> QED BY <1>3, Zenon DEF Sent, Own

LEMMA EarlyNext ==
    ASSUME BInv, Grown,
           \A t \in Own : sentAt'[t] = sentAt[t] \/
              (sentAt[t] = None /\ sentAt'[t] = clock - 1 + Skew[Author[t]])
    PROVE  Early'
<1>1. clock \in Nat /\ clock' \in Int /\ clock <= clock'
  BY DEF BInv, KInv, KTypes, Grown
<1>2. \A i \in Ids : born[i] \in Int
  BY DEF BInv, KInv, KTypes, Values
<1>3. ASSUME NEW t \in Own, Skew[Author[t]] = 0
      PROVE  /\ sentAt'[t] < clock'
             /\ \A i \in Ids : i[1] = t /\ born'[i] # None => sentAt'[t] <= born'[i]
  <2>1. sentAt[t] \in Int /\ sentAt[t] < clock
    BY <1>3 DEF BInv, PTypes, Early, Own
  <2>2. sentAt'[t] \in Int /\ sentAt'[t] < clock
    BY <1>1, <1>3, <2>1
  <2>3. ASSUME NEW i \in Ids, i[1] = t, born'[i] # None PROVE sentAt'[t] <= born'[i]
    <3>1. CASE born'[i] = born[i]
      <4>1. sentAt[t] # None /\ sentAt[t] <= born[i]
        BY <1>3, <2>3, <3>1 DEF BInv, Sent, Early
      <4> QED BY <3>1, <4>1
    <3>2. CASE born'[i] = clock
      BY <1>1, <2>2, <3>2
    <3> QED BY <2>3, <3>1, <3>2 DEF Grown
  <2> QED BY <1>1, <2>1, <2>2, <2>3
<1>4. 0 < clock'
  BY <1>1 DEF BInv, Early
<1> QED BY <1>3, <1>4, Zenon DEF Early, Own

\* Steps that leave the page alone.
LEMMA AwayB ==
    ASSUME BInv, Grown, KInv', UNCHANGED <<shown, bubble, queue, sentAt, paged>>, PTypes',
           \A a \in Attempts : send'[a].pc # "no" => send[a].pc # "no" \/ a[1] \notin Own
    PROVE  BInv'
<1>1. ShownKnown'
  BY ShownNext DEF BInv, ShownKnown, Has
<1>2. Sent'
  <2>1. \A a \in Attempts : a[1] \in Texts
    BY DEF Attempts
  <2>2. \A a \in Attempts : send'[a].pc # "no" /\ send[a].pc = "no" => a[1] \notin Own
    OBVIOUS
  <2>3. ASSUME NEW t \in Own
        PROVE  /\ bubble'[t] # "no" => sentAt'[t] # None
               /\ \A a \in Attempts : a[1] = t /\ send'[a].pc # "no" => sentAt'[t] # None
               /\ \A i \in Ids : i[1] = t /\ born'[i] # None => sentAt'[t] # None
    BY <2>2 DEF BInv, Sent, Grown, Ids
  <2> QED BY <2>3, Zenon DEF Sent, Own
<1>3. Early'
  BY EarlyNext
<1>4. BubbleIsUnsent'
  BY DEF BInv, BubbleIsUnsent, OfText, Has
<1> QED BY <1>1, <1>2, <1>3, <1>4 DEF BInv

\* Steps of the page that write no text.
LEMMA PageB ==
    ASSUME BInv, Grown, KInv', UNCHANGED <<sentAt>>, PTypes',
           \A a \in Attempts : send'[a].pc # "no" => send[a].pc # "no",
           \A t \in Own : bubble'[t] # "no" => bubble[t] # "no",
           \A p \in Pages : \A i \in Ids : shown'[p][i] # None => i \in Known,
           BubbleIsUnsent'
    PROVE  BInv'
BY ShownNext, SentNext, EarlyNext DEF BInv

\* A history that holds a text of the page holds a row that is not older than
\* its bubble.
LEMMA BubbleGoes ==
    ASSUME BInv, NEW t \in Own, Skew[Author[t]] = 0, NEW snap, Has(snap) \subseteq Known,
           OfText(snap, t) # {}
    PROVE  ~BubbleStays(t, snap)
<1>1. PICK i \in Ids : snap[i] # None /\ i[1] = t
  BY DEF OfText, Has
<1>2. i \in Has(snap) /\ born[i] # None /\ born[i] \in Int
  BY <1>1 DEF Has, Known, BInv, KInv, KTypes, Values
<1>3. sentAt[t] <= born[i] /\ sentAt[t] \in Int
  BY <1>1, <1>2 DEF BInv, Early, PTypes, Own
<1>4. ~(sentAt[t] > born[i])
  BY <1>2, <1>3
<1> QED BY <1>2, <1>4 DEF BubbleStays

LEMMA ApplyB ==
    ASSUME BInv, NEW p \in Pages, NEW snap \in Values, Has(snap) \subseteq Known,
           Apply(p, snap)
    PROVE  /\ shown' \in [Pages -> Values] /\ queue' \in [Texts -> Marks]
           /\ stale' = [q \in Pages |-> stale'[q]] /\ UNCHANGED sentAt
           /\ \A t \in Own : bubble'[t] # "no" => bubble[t] # "no"
           /\ \A q \in Pages : \A i \in Ids : shown'[q][i] # None => i \in Known
           /\ BubbleIsUnsent'
<1> DEFINE mine == {t \in Texts : Author[t] = p}
<1>1. /\ shown' = [shown EXCEPT ![p] = [i \in Ids |->
              IF i \in Kept(p, snap) THEN shown[p][i] ELSE snap[i]]]
      /\ queue' = [t \in Texts |->
              IF t \in mine /\ OfText(snap, t) # {} THEN "no" ELSE queue[t]]
      /\ bubble' = [t \in Texts |->
              IF t \in mine /\ ~BubbleStays(t, snap) THEN "no" ELSE bubble[t]]
      /\ UNCHANGED <<sentAt, gone, paged>>
      /\ \E x : stale' = [stale EXCEPT ![p] = x]
  BY Zenon DEF Apply
<1>2. PTypes /\ shown \in [Pages -> Values]
  BY DEF BInv, PTypes
<1>3. /\ shown' \in [Pages -> Values]
      /\ \A q \in Pages : q # p => shown'[q] = shown[q]
      /\ \A i \in Ids : shown'[p][i] = IF i \in Kept(p, snap) THEN shown[p][i] ELSE snap[i]
  BY <1>1, <1>2 DEF Values
<1>4. queue' \in [Texts -> Marks]
  BY <1>1, <1>2 DEF PTypes, Marks
<1>5. stale' = [q \in Pages |-> stale'[q]]
  BY <1>1, <1>2 DEF PTypes
<1>6. \A t \in Own : bubble'[t] # "no" => bubble[t] # "no"
  BY <1>1 DEF Own
<1>7. \A i \in Kept(p, snap) : i \in Ids /\ shown[p][i] # None
  BY DEF Kept, Has
<1>8. \A q \in Pages : \A i \in Ids : shown'[q][i] # None => i \in Known
  BY <1>3, <1>7 DEF BInv, ShownKnown, Has
<1>9. ASSUME NEW t \in Texts, NEW q \in Pages \cap {Author[t]}, bubble'[t] # "no", Skew[q] = 0
      PROVE  /\ queue'[t] # "no"
             /\ (\E i \in Ids : shown'[q][i] # None /\ i[1] = t) => t \in paged
  <2>1. t \in Own /\ bubble[t] # "no" /\ Skew[Author[t]] = 0
    BY <1>6, <1>9 DEF Own
  <2>2. queue[t] # "no" /\ ((\E i \in Ids : shown[q][i] # None /\ i[1] = t) => t \in paged)
    BY <1>9, <2>1 DEF BInv, BubbleIsUnsent, OfText, Has
  <2>3. CASE q = p
    <3>1. BubbleStays(t, snap)
      BY <1>1, <1>9, <2>3
    <3>2. OfText(snap, t) = {}
      BY <2>1, <3>1, BubbleGoes
    <3>3. \A i \in Ids : shown'[q][i] # None /\ i[1] = t => shown[q][i] # None
      BY <1>3, <2>3, <3>2 DEF OfText, Has
    <3> QED BY <1>1, <2>2, <3>2, <3>3
  <2>4. CASE q # p
    BY <1>1, <1>3, <1>9, <2>2, <2>4
  <2> QED BY <2>3, <2>4
<1>10. BubbleIsUnsent'
  BY <1>1, <1>9 DEF BubbleIsUnsent, OfText, Has
<1> QED BY <1>1, <1>3, <1>4, <1>5, <1>6, <1>8, <1>10

\* The next event of a page is one that may be told.
LEMMA HeadGood ==
    ASSUME KInv, NEW p \in Pages, inbox[p] # <<>>
    PROVE  LET e == Head(inbox[p])
           IN  /\ e \in Events /\ Good(e, Known) /\ e = inbox[p][1]
               /\ inbox[p] \in Seq(Events) /\ Len(inbox[p]) \in Nat \ {0}
<1>1. inbox[p] \in Seq(Events) /\ Mail(inbox, Known)
  BY DEF KInv, KTypes
<1>2. Len(inbox[p]) \in Nat /\ Len(inbox[p]) # 0 /\ Head(inbox[p]) = inbox[p][1]
      /\ Head(inbox[p]) \in Events
  BY <1>1
<1> QED BY <1>1, <1>2 DEF Mail

\* One row of a page is set to what an event says of it.
Put(f, p, r, n) == [f EXCEPT ![p] = [f[p] EXCEPT ![r] = n]]

LEMMA SetRow ==
    ASSUME shown \in [Pages -> Values], NEW p \in Pages, NEW r, NEW n \in Int,
           shown' = Put(shown, p, r, n)
    PROVE  /\ shown' \in [Pages -> Values]
           /\ \A q \in Pages : q # p => shown'[q] = shown[q]
           /\ \A i \in Ids : shown'[p][i] = IF i = r THEN n ELSE shown[p][i]
<1> DEFINE v == [shown[p] EXCEPT ![r] = n]
<1>1. shown[p] \in [Ids -> Int]
  BY DEF Values
<1>2. v \in [Ids -> Int] /\ \A i \in Ids : v[i] = IF i = r THEN n ELSE shown[p][i]
  BY <1>1
<1>3. shown' = [shown EXCEPT ![p] = v]
  BY DEF Put
<1> HIDE DEF v
<1> QED BY <1>2, <1>3 DEF Values

LEMMA OnNewB ==
    ASSUME BInv, NEW p \in Pages, NEW e \in Events, Good(e, Known), e.kind = "new",
           OnNew(p, e)
    PROVE  /\ PTypes' /\ UNCHANGED sentAt
           /\ \A t \in Own : bubble'[t] # "no" => bubble[t] # "no"
           /\ \A q \in Pages : \A i \in Ids : shown'[q][i] # None => i \in Known
           /\ BubbleIsUnsent'
<1> DEFINE x == e.id
<1>1. x \in Known /\ x \in Ids /\ e.body \in Int /\ x[1] \in Texts
  BY IdTypes DEF Good, Known, Events
<1>2. PTypes /\ shown \in [Pages -> Values] /\ ShownKnown
  BY DEF BInv, PTypes
<1>3. bubble \in [Texts -> Marks] /\ queue \in [Texts -> Marks]
  BY DEF BInv, KInv, KTypes, PTypes, Marks
<1>4. CASE UNCHANGED page
  <2>1. UNCHANGED <<shown, queue, bubble, sentAt, since, stale, paged>>
    BY <1>4 DEF page
  <2>2. PTypes'
    BY <1>2, <2>1 DEF PTypes
  <2>3. BubbleIsUnsent'
    BY <2>1 DEF BInv, BubbleIsUnsent, OfText, Has
  <2> QED BY <1>2, <2>1, <2>2, <2>3 DEF ShownKnown, Has
<1>5. ASSUME shown' = Put(shown, p, x, e.body),
             queue' = IF Author[x[1]] = p THEN [queue EXCEPT ![x[1]] = "no"] ELSE queue,
             bubble' = IF Author[x[1]] = p THEN [bubble EXCEPT ![x[1]] = "no"] ELSE bubble,
             NEW s, stale' = [stale EXCEPT ![p] = s], UNCHANGED <<sentAt, since, gone, paged>>
      PROVE  /\ PTypes' /\ UNCHANGED sentAt
             /\ \A t \in Own : bubble'[t] # "no" => bubble[t] # "no"
             /\ \A q \in Pages : \A i \in Ids : shown'[q][i] # None => i \in Known
             /\ BubbleIsUnsent'
  <2> HIDE DEF x
  <2>1. /\ shown' \in [Pages -> Values]
        /\ \A q \in Pages : q # p => shown'[q] = shown[q]
        /\ \A i \in Ids : shown'[p][i] = IF i = x THEN e.body ELSE shown[p][i]
    BY <1>1, <1>2, <1>5, SetRow
  <2>2. PTypes'
    BY <1>1, <1>2, <1>3, <1>5, <2>1 DEF PTypes, Marks
  <2>3. \A t \in Texts : /\ Author[t] = p /\ t = x[1] => bubble'[t] = "no"
                         /\ bubble'[t] # "no" => bubble'[t] = bubble[t] /\ queue'[t] = queue[t]
    BY <1>1, <1>3, <1>5
  <2>4. \A q \in Pages : \A i \in Ids : shown'[q][i] # None => i \in Known
    BY <1>1, <1>2, <2>1 DEF ShownKnown, Has
  <2>5. ASSUME NEW t \in Texts, NEW q \in Pages \cap {Author[t]}, bubble'[t] # "no", Skew[q] = 0
        PROVE  /\ queue'[t] # "no"
               /\ (\E i \in Ids : shown'[q][i] # None /\ i[1] = t) => t \in paged
    <3>1. bubble[t] # "no" /\ queue'[t] = queue[t] /\ ~(q = p /\ t = x[1])
      BY <2>3, <2>5
    <3>2. \A i \in Ids : shown'[q][i] # None /\ i[1] = t => shown[q][i] # None
      BY <2>1, <3>1
    <3> QED BY <2>5, <3>1, <3>2 DEF BInv, BubbleIsUnsent, OfText, Has
  <2>6. BubbleIsUnsent'
    BY <1>5, <2>5 DEF BubbleIsUnsent, OfText, Has
  <2> QED BY <1>5, <2>2, <2>3, <2>4, <2>6 DEF Own
<1> HIDE DEF x
<1>6. \/ UNCHANGED page
      \/ /\ shown' = Put(shown, p, x, e.body)
         /\ queue' = IF Author[x[1]] = p THEN [queue EXCEPT ![x[1]] = "no"] ELSE queue
         /\ bubble' = IF Author[x[1]] = p THEN [bubble EXCEPT ![x[1]] = "no"] ELSE bubble
         /\ \E s : stale' = [stale EXCEPT ![p] = s]
         /\ UNCHANGED <<sentAt, since, gone, paged>>
  BY Zenon DEF OnNew, Heard, Put, x
<1> QED BY <1>4, <1>5, <1>6

LEMMA OnChangeB ==
    ASSUME BInv, NEW p \in Pages, NEW e \in Events, e.kind \in {"gone", "edit"},
           OnChange(p, e)
    PROVE  /\ PTypes' /\ UNCHANGED <<sentAt, bubble>>
           /\ \A q \in Pages : \A i \in Ids : shown'[q][i] # None => i \in Known
           /\ BubbleIsUnsent'
<1> DEFINE x == e.id
           b == IF e.kind = "gone" THEN None ELSE e.body
<1>1. b \in Int
  BY DEF Events, None
<1>2. PTypes /\ shown \in [Pages -> Values] /\ ShownKnown
  BY DEF BInv, PTypes
<1>3. \/ UNCHANGED page
      \/ /\ e.kind = "edit" => shown[p][x] # None
         /\ shown' = Put(shown, p, x, b)
         /\ \E s : stale' = [stale EXCEPT ![p] = s]
         /\ UNCHANGED <<bubble, queue, sentAt, since, gone, paged>>
  BY Zenon DEF OnChange, Heard, Put
<1>4. e.kind = "gone" => b = None
  OBVIOUS
<1> HIDE DEF x, b
<1>5. CASE UNCHANGED page
  <2>1. UNCHANGED <<shown, queue, bubble, sentAt, since, stale, paged>>
    BY <1>5 DEF page
  <2>2. PTypes'
    BY <1>2, <2>1 DEF PTypes
  <2>3. BubbleIsUnsent'
    BY <2>1 DEF BInv, BubbleIsUnsent, OfText, Has
  <2> QED BY <1>2, <2>1, <2>2, <2>3 DEF ShownKnown, Has
<1>6. ASSUME e.kind = "edit" => shown[p][x] # None,
             shown' = Put(shown, p, x, b),
             NEW s, stale' = [stale EXCEPT ![p] = s],
             UNCHANGED <<bubble, queue, sentAt, since, gone, paged>>
      PROVE  /\ PTypes' /\ UNCHANGED <<sentAt, bubble>>
             /\ \A q \in Pages : \A i \in Ids : shown'[q][i] # None => i \in Known
             /\ BubbleIsUnsent'
  <2>1. /\ shown' \in [Pages -> Values]
        /\ \A q \in Pages : q # p => shown'[q] = shown[q]
        /\ \A i \in Ids : shown'[p][i] = IF i = x THEN b ELSE shown[p][i]
    BY <1>1, <1>2, <1>6, SetRow
  <2>2. \A q \in Pages : \A i \in Ids : shown'[q][i] # None => shown[q][i] # None
    BY <1>4, <1>6, <2>1
  <2>3. PTypes'
    BY <1>2, <1>6, <2>1 DEF PTypes
  <2>4. BubbleIsUnsent'
    BY <1>6, <2>2 DEF BInv, BubbleIsUnsent, OfText, Has
  <2> QED BY <1>2, <1>6, <2>2, <2>3, <2>4 DEF ShownKnown, Has
<1> QED BY <1>3, <1>5, <1>6

LEMMA HandleB == ASSUME BInv, NEW p \in Pages, Handle(p), Grown, KInv' PROVE BInv'
<1> DEFINE e == Head(inbox[p])
<1>1. KInv
  BY DEF BInv
<1>2. /\ inbox[p] # <<>> /\ UNCHANGED send
      /\ \/ e.kind = "new" /\ OnNew(p, e)
         \/ e.kind \in {"gone", "edit"} /\ OnChange(p, e)
         \/ /\ e.kind = "history" /\ Apply(p, e.snap)
            /\ since' = [since EXCEPT ![p] = Reaches(e.snap)]
  BY DEF Handle, server
<1>3. e \in Events /\ Good(e, Known)
  BY <1>1, <1>2, HeadGood
<1> HIDE DEF e
<1>4. CASE e.kind = "new" /\ OnNew(p, e)
  BY <1>2, <1>3, <1>4, OnNewB, PageB
<1>5. CASE e.kind \in {"gone", "edit"} /\ OnChange(p, e)
  BY <1>2, <1>3, <1>5, OnChangeB, PageB
<1>6. CASE /\ e.kind = "history" /\ Apply(p, e.snap)
           /\ since' = [since EXCEPT ![p] = Reaches(e.snap)]
  <2>1. e.snap \in Values /\ Has(e.snap) \subseteq Known
    BY <1>3, <1>6 DEF Events, Good
  <2>2. since' = [q \in Pages |-> since'[q]]
    BY <1>6 DEF BInv, PTypes
  <2>3. PTypes'
    BY <1>6, <2>1, <2>2, ApplyB DEF BInv, PTypes
  <2> QED BY <1>2, <1>6, <2>1, <2>3, ApplyB, PageB
<1> QED BY <1>2, <1>4, <1>5, <1>6

LEMMA FetchedB == ASSUME BInv, NEW p \in Pages, Fetched(p), Grown, KInv' PROVE BInv'
<1> DEFINE s == fetch[p].snap
           extra == {i \in Has(s) \ Has(shown[p]) : p \in link}
<1>1. UNCHANGED send
  BY DEF Fetched, server
<1>2. PTypes /\ shown \in [Pages -> Values] /\ ShownKnown
  BY DEF BInv, PTypes
<1>3. s \in Values /\ (fetch[p].pc \in {"gotPage", "gotOlder"} => Has(s) \subseteq Known)
  BY DEF BInv, KInv, KTypes, Answers, Fetches
<1>4. \/ fetch[p].pc = "gotPage" /\ Apply(p, s) /\ UNCHANGED since
      \/ /\ fetch[p].pc = "gotOlder"
         /\ shown' = [shown EXCEPT ![p] = [i \in Ids |->
                IF i \in extra THEN s[i] ELSE shown[p][i]]]
         /\ stale' = [stale EXCEPT ![p] =
                (@ \ extra) \cup {i \in extra : s[i] # db[i]}]
         /\ paged' = paged \cup {i[1] : i \in {j \in extra : Author[j[1]] = p}}
         /\ UNCHANGED <<bubble, queue, sentAt, since, gone>>
  BY Zenon DEF Fetched
<1> HIDE DEF s
<1>5. CASE fetch[p].pc = "gotPage" /\ Apply(p, s) /\ UNCHANGED since
  <2>1. PTypes'
    BY <1>2, <1>3, <1>5, ApplyB DEF PTypes
  <2> QED BY <1>1, <1>3, <1>5, <2>1, ApplyB, PageB
<1>6. CASE /\ fetch[p].pc = "gotOlder"
           /\ shown' = [shown EXCEPT ![p] = [i \in Ids |->
                  IF i \in extra THEN s[i] ELSE shown[p][i]]]
           /\ stale' = [stale EXCEPT ![p] =
                  (@ \ extra) \cup {i \in extra : s[i] # db[i]}]
           /\ paged' = paged \cup {i[1] : i \in {j \in extra : Author[j[1]] = p}}
           /\ UNCHANGED <<bubble, queue, sentAt, since, gone>>
  <2>1. \A i \in extra : i \in Has(s) /\ i \in Ids
    BY DEF Has
  <2>2. \A i \in extra : Author[i[1]] = p => i[1] \in paged'
    BY <1>6
  <2> HIDE DEF extra
  <2>3. /\ shown' \in [Pages -> Values]
        /\ \A q \in Pages : q # p => shown'[q] = shown[q]
        /\ \A i \in Ids : shown'[p][i] = IF i \in extra THEN s[i] ELSE shown[p][i]
    BY <1>2, <1>3, <1>6 DEF Values
  <2>4. PTypes'
    BY <1>2, <1>6, <2>3 DEF PTypes
  <2>5. \A q \in Pages : \A i \in Ids : shown'[q][i] # None => i \in Known
    BY <1>2, <1>3, <1>6, <2>1, <2>3 DEF ShownKnown, Has
  <2>6. ASSUME NEW t \in Texts, NEW q \in Pages \cap {Author[t]}, bubble'[t] # "no", Skew[q] = 0
        PROVE  /\ queue'[t] # "no"
               /\ (\E i \in Ids : shown'[q][i] # None /\ i[1] = t) => t \in paged'
    <3>1. /\ queue[t] # "no"
          /\ (\E i \in Ids : shown[q][i] # None /\ i[1] = t) => t \in paged
      BY <1>6, <2>6 DEF BInv, BubbleIsUnsent, OfText, Has
    <3>2. ASSUME NEW i \in Ids, shown'[q][i] # None, i[1] = t PROVE t \in paged'
      <4>1. CASE q = p /\ i \in extra
        BY <2>2, <2>6, <3>2, <4>1
      <4>2. CASE ~(q = p /\ i \in extra)
        <5>1. shown[q][i] # None
          BY <2>3, <3>2, <4>2
        <5>2. t \in paged
          BY <3>1, <3>2, <5>1
        <5> QED BY <1>6, <5>2
      <4> QED BY <4>1, <4>2
    <3> QED BY <1>6, <3>1, <3>2
  <2>7. BubbleIsUnsent'
    BY <2>6 DEF BubbleIsUnsent, OfText, Has
  <2> QED BY <1>1, <1>6, <2>4, <2>5, <2>7, PageB
<1> QED BY <1>4, <1>5, <1>6

\* A text that its author writes, or tries again.
LEMMA TextB ==
    ASSUME BInv, NEW t \in Texts, Grown, KInv', link \subseteq Pages,
           Write(t) \/ WriteElsewhere(t) \/ TimeOut(t) \/ Retry(t) \/ Dismiss(t)
    PROVE  BInv'
<1>1. KInv /\ PTypes /\ ShownKnown /\ Sent /\ Early /\ BubbleIsUnsent
  BY DEF BInv
<1>2. bubble \in [Texts -> Marks] /\ queue \in [Texts -> Marks] /\ sentAt \in [Texts -> Int]
  BY <1>1 DEF KInv, KTypes, PTypes, Marks
<1>3. UNCHANGED <<shown, since, stale, paged>>
  BY DEF Write, WriteElsewhere, TimeOut, Retry, Dismiss, page
<1>4. ShownKnown'
  BY <1>1, <1>3, ShownNext DEF ShownKnown, Has
<1>5. CASE Write(t)
  <2>1. /\ Author[t] \in link /\ sentAt[t] = None /\ Emit(t)
        /\ bubble' = [bubble EXCEPT ![t] = "sending"]
        /\ queue' = [queue EXCEPT ![t] = "sending"]
        /\ sentAt' = [sentAt EXCEPT ![t] = clock - 1 + Skew[Author[t]]]
        /\ UNCHANGED <<db, born, clock>>
    BY <1>5, Zenon DEF Write
  <2>2. t \in Own => clock - 1 + Skew[Author[t]] \in Int /\ clock - 1 + Skew[Author[t]] # None
    BY <1>1, RoomAssumption DEF Own, Early, KInv, KTypes, None
  <2>3. \A x \in Texts : x # t => sentAt'[x] = sentAt[x] /\ bubble'[x] = bubble[x] /\ queue'[x] = queue[x]
    BY <1>2, <2>1
  <2>4. /\ sentAt'[t] = clock - 1 + Skew[Author[t]] /\ queue'[t] = "sending"
    BY <1>2, <2>1
  <2>5. \A x \in Own : sentAt'[x] = sentAt[x] \/
              (sentAt[x] = None /\ sentAt'[x] = clock - 1 + Skew[Author[x]])
    BY <2>1, <2>3, <2>4 DEF Own
  <2>6. \A x \in Own : sentAt'[x] = sentAt[x] \/ (sentAt[x] = None /\ sentAt'[x] # None)
    BY <2>1, <2>2, <2>3, <2>4 DEF Own
  <2>7. \A a \in Attempts : send'[a].pc # "no" => send[a].pc # "no" \/ a[1] = t
    BY <1>1, <2>1, EmitGrown
  <2>8. Sent'
    <3>1. \A x \in Own : x = t => sentAt'[x] # None
      BY <2>2, <2>4
    <3>2. ASSUME NEW x \in Own
          PROVE  /\ bubble'[x] # "no" => sentAt'[x] # None
                 /\ \A a \in Attempts : a[1] = x /\ send'[a].pc # "no" => sentAt'[x] # None
                 /\ \A i \in Ids : i[1] = x /\ born'[i] # None => sentAt'[x] # None
      BY <1>1, <2>1, <2>3, <2>7, <3>1 DEF Sent, Own
    <3> QED BY <3>2, Zenon DEF Sent, Own
  <2>9. Early'
    BY <2>5, EarlyNext
  <2>10. BubbleIsUnsent'
    <3>1. t \in Own => OfText(shown[Author[t]], t) = {}
      BY <1>1, <2>1 DEF Sent, ShownKnown, Own, OfText, Has, Known
    <3>2. ASSUME NEW x \in Texts, NEW q \in Pages \cap {Author[x]}, bubble'[x] # "no", Skew[q] = 0
          PROVE  queue'[x] # "no" /\ (OfText(shown[q], x) # {} => x \in paged)
      BY <1>1, <2>3, <2>4, <3>1, <3>2 DEF BubbleIsUnsent, Own
    <3> QED BY <1>3, <3>2 DEF BubbleIsUnsent, OfText, Has
  <2>11. PTypes'
    <3>1. clock - 1 + Skew[Author[t]] \in Int
      BY <2>1, <2>2, <1>5 DEF Own
    <3>2. sentAt' \in [Texts -> Int] /\ queue' \in [Texts -> Marks]
      BY <1>2, <2>1, <3>1 DEF Marks
    <3> QED BY <1>1, <1>3, <3>2 DEF PTypes
  <2> QED BY <1>4, <2>8, <2>9, <2>10, <2>11 DEF BInv
<1>6. CASE WriteElsewhere(t)
  <2>1. Emit(t) /\ UNCHANGED <<db, born, clock, shown, bubble, queue, sentAt, since, stale, paged>>
        /\ t \notin Own
    BY <1>6, RoomAssumption DEF WriteElsewhere, page, Own
  <2>2. PTypes'
    BY <1>1, <2>1 DEF PTypes
  <2> QED BY <1>1, <2>1, <2>2, EmitGrown, AwayB
<1>7. CASE Retry(t)
  <2>1. /\ bubble[t] = "failed" /\ Emit(t)
        /\ bubble' = [bubble EXCEPT ![t] = "sending"]
        /\ queue' = [queue EXCEPT ![t] = "sending"]
        /\ UNCHANGED <<db, born, clock, sentAt>>
    BY <1>7 DEF Retry
  <2>2. \A a \in Attempts : send'[a].pc # "no" => send[a].pc # "no" \/ a[1] = t
    BY <1>1, <2>1, EmitGrown
  <2>3. /\ \A x \in Texts : x # t => bubble'[x] = bubble[x] /\ queue'[x] = queue[x]
        /\ queue'[t] = "sending"
    BY <1>2, <2>1
  <2>4. Sent'
    <3>1. ASSUME NEW x \in Own
          PROVE  /\ bubble'[x] # "no" => sentAt'[x] # None
                 /\ \A a \in Attempts : a[1] = x /\ send'[a].pc # "no" => sentAt'[x] # None
                 /\ \A i \in Ids : i[1] = x /\ born'[i] # None => sentAt'[x] # None
      BY <1>1, <2>1, <2>2, <2>3 DEF Sent, Own
    <3> QED BY <3>1, Zenon DEF Sent, Own
  <2>5. Early'
    BY <2>1, EarlyNext
  <2>6. BubbleIsUnsent'
    BY <1>1, <1>3, <2>1, <2>3 DEF BubbleIsUnsent, OfText, Has
  <2>7. PTypes'
    BY <1>1, <1>2, <1>3, <2>1 DEF PTypes, Marks
  <2> QED BY <1>4, <2>4, <2>5, <2>6, <2>7 DEF BInv
<1>8. CASE TimeOut(t)
  <2>1. /\ queue[t] = "sending" /\ queue' = [queue EXCEPT ![t] = "failed"]
        /\ bubble' = [bubble EXCEPT ![t] = IF @ = "no" THEN @ ELSE "failed"]
        /\ UNCHANGED <<send, sentAt>>
    BY <1>8 DEF TimeOut, server
  <2>2. \A x \in Texts : (bubble'[x] # "no" => bubble[x] # "no") /\ (queue'[x] = "no" => queue[x] = "no")
    BY <1>2, <2>1
  <2>3. BubbleIsUnsent'
    BY <1>1, <1>3, <2>2 DEF BubbleIsUnsent, OfText, Has
  <2>4. PTypes'
    BY <1>1, <1>2, <1>3, <2>1 DEF PTypes, Marks
  <2> QED BY <1>1, <1>3, <2>1, <2>2, <2>3, <2>4, PageB DEF Own, ShownKnown, Has
<1>9. CASE Dismiss(t)
  <2>1. /\ queue' = [queue EXCEPT ![t] = "no"] /\ bubble' = [bubble EXCEPT ![t] = "no"]
        /\ UNCHANGED <<send, sentAt>>
    BY <1>9 DEF Dismiss, server
  <2>2. \A x \in Texts : bubble'[x] # "no" => bubble[x] # "no" /\ queue'[x] = queue[x]
    BY <1>2, <2>1
  <2>3. BubbleIsUnsent'
    BY <1>1, <1>3, <2>2 DEF BubbleIsUnsent, OfText, Has
  <2>4. PTypes'
    BY <1>1, <1>2, <1>3, <2>1 DEF PTypes, Marks
  <2> QED BY <1>1, <1>3, <2>1, <2>2, <2>3, <2>4, PageB DEF Own, ShownKnown, Has
<1> QED BY <1>5, <1>6, <1>7, <1>8, <1>9

LEMMA BreakB ==
    ASSUME BInv, NEW p \in Pages, Disconnect(p) \/ Leave(p) \/ Renew(p), Grown, KInv'
    PROVE  BInv'
<1>1. KInv /\ PTypes /\ ShownKnown /\ Sent /\ Early /\ BubbleIsUnsent
  BY DEF BInv
<1>2. bubble \in [Texts -> Marks] /\ queue \in [Texts -> Marks] /\ shown \in [Pages -> Values]
  BY <1>1 DEF KInv, KTypes, PTypes, Marks
<1>3. \A a \in Attempts : send'[a].pc # "no" => send[a].pc # "no"
  <2>1. \E lost \in BOOLEAN : Broken(p, lost)
    BY DEF Disconnect, Leave, Renew
  <2> QED BY <1>1, <2>1, BrokenGrown
<1>4. CASE Disconnect(p)
  <2>1. UNCHANGED <<shown, bubble, queue, sentAt, stale, paged>> /\ since' = [since EXCEPT ![p] = None]
    BY <1>4 DEF Disconnect
  <2>2. PTypes'
    BY <1>1, <2>1 DEF PTypes
  <2> QED BY <1>3, <2>1, <2>2, AwayB
<1>5. CASE Leave(p) \/ Renew(p)
  <2> DEFINE mine == {t \in Texts : Author[t] = p}
  <2>1. /\ shown' = [shown EXCEPT ![p] = Blank] /\ stale' = [stale EXCEPT ![p] = {}]
        /\ bubble' = [t \in Texts |-> IF t \in mine THEN "no" ELSE bubble[t]]
        /\ \/ queue' = [t \in Texts |-> IF t \in mine THEN "no" ELSE queue[t]]
           \/ UNCHANGED queue
        /\ since' = [since EXCEPT ![p] = None] /\ paged' = paged \ mine
        /\ UNCHANGED sentAt
    BY <1>5, Zenon DEF Leave, Renew
  <2>2. /\ shown' \in [Pages -> Values]
        /\ \A q \in Pages : shown'[q] = IF q = p THEN Blank ELSE shown[q]
    BY <1>2, <2>1, AsleepTypes
  <2>3. PTypes'
    BY <1>1, <1>2, <2>1, <2>2 DEF PTypes, Marks
  <2>4. BubbleIsUnsent'
    BY <1>1, <2>1, <2>2 DEF BubbleIsUnsent, OfText, Has
  <2>5. \A q \in Pages : \A i \in Ids : shown'[q][i] # None => i \in Known
    BY <1>1, <2>2, AsleepTypes DEF ShownKnown, Has
  <2> QED BY <1>3, <2>1, <2>3, <2>4, <2>5, PageB DEF Own
<1> QED BY <1>4, <1>5

LEMMA LinkNext == ASSUME link \subseteq Pages, [Next]_vars PROVE link' \subseteq Pages
<1>1. ASSUME NEW p \in Pages,
             \/ JoinStep(p) \/ JoinFails(p) \/ FetchRead(p) \/ Handle(p)
             \/ Fetched(p) \/ Connect(p) \/ Disconnect(p) \/ Leave(p)
             \/ Renew(p) \/ \E pc \in {"page", "older"} : Fetch(p, pc)
      PROVE  link' \subseteq Pages
  BY <1>1 DEF JoinStep, JoinFails, FetchRead, Handle, Fetched, Connect, Disconnect, Leave,
              Renew, Fetch, Broken
<1>2. ASSUME NEW a \in Attempts,
             SendAsk(a) \/ SendInsert(a) \/ SendTell(a) \/ SendFails(a)
      PROVE  link' = link
  BY <1>2 DEF SendAsk, SendInsert, SendTell, SendFails
<1>3. ASSUME NEW t \in Texts,
             Write(t) \/ WriteElsewhere(t) \/ TimeOut(t) \/ Retry(t) \/ Dismiss(t)
      PROVE  link' = link
  BY <1>3 DEF Write, WriteElsewhere, TimeOut, Retry, Dismiss
<1>4. ASSUME NEW c \in Clients,
             \/ ChangeRow(c) \/ ChangeTell(c) \/ ChangeFails(c)
             \/ \E i \in Ids, pc \in {"edit", "delete"} : Change(c, i, pc)
      PROVE  link' = link
  BY <1>4 DEF ChangeRow, ChangeTell, ChangeFails, Change
<1>5. UNCHANGED vars => link' = link
  BY DEF vars
<1> QED BY <1>1, <1>2, <1>3, <1>4, <1>5, Zenon DEF Next

LEMMA NextB == ASSUME BInv, link \subseteq Pages, [Next]_vars PROVE BInv'
<1>1. KInv /\ PTypes
  BY DEF BInv
<1>2. KInv' /\ Grown
  BY <1>1, NextInv, NextGrown
<1>3. ASSUME UNCHANGED <<shown, bubble, queue, sentAt, paged, since>>, PTypes',
             \A a \in Attempts : send'[a].pc # "no" => send[a].pc # "no"
      PROVE  BInv'
  BY <1>2, <1>3, AwayB
<1>4. ASSUME UNCHANGED <<shown, queue, sentAt, since>>,
             stale' = [p \in Pages |-> stale'[p]]
      PROVE  PTypes'
  BY <1>1, <1>4 DEF PTypes
<1>5. ASSUME UNCHANGED page PROVE PTypes'
  BY <1>1, <1>5 DEF PTypes, page
<1>6. ASSUME UNCHANGED page, UNCHANGED send PROVE BInv'
  BY <1>3, <1>5, <1>6 DEF page
<1>7. ASSUME NEW a \in Attempts,
             SendAsk(a) \/ SendInsert(a) \/ SendTell(a) \/ SendFails(a)
      PROVE  BInv'
  <2>1. UNCHANGED <<shown, bubble, queue, sentAt, paged, since>>
    BY <1>7 DEF SendAsk, SendInsert, SendTell, SendFails, page
  <2>2. stale' = stale \/ stale' = [p \in Pages |-> stale[p] \cup {send[a].id}]
    BY <1>7 DEF SendAsk, SendInsert, SendTell, SendFails, page, Untold
  <2>3. stale' = [p \in Pages |-> stale'[p]]
    BY <1>1, <2>2 DEF PTypes
  <2> QED BY <1>1, <1>3, <1>4, <1>7, <2>1, <2>3, SendBegan
<1>8. ASSUME NEW t \in Texts,
             Write(t) \/ WriteElsewhere(t) \/ TimeOut(t) \/ Retry(t) \/ Dismiss(t)
      PROVE  BInv'
  BY <1>2, <1>8, TextB
<1>9. ASSUME NEW c \in Clients,
             \/ ChangeRow(c) \/ ChangeTell(c) \/ ChangeFails(c)
             \/ \E i \in Ids, pc \in {"edit", "delete"} : Change(c, i, pc)
      PROVE  BInv'
  <2>1. CASE ChangeRow(c) \/ ChangeTell(c)
    BY <1>6, <2>1 DEF ChangeRow, ChangeTell
  <2>2. CASE \E i \in Ids, pc \in {"edit", "delete"} : Change(c, i, pc)
    BY <1>6, <2>2 DEF Change
  <2>3. CASE ChangeFails(c)
    <3>1. UNCHANGED <<send, shown, bubble, queue, sentAt, paged, since>>
      BY <2>3 DEF ChangeFails
    <3>2. stale' = stale \/ stale' = [p \in Pages |-> stale[p] \cup {change[c].id}]
      BY <2>3 DEF ChangeFails, Untold
    <3>3. stale' = [p \in Pages |-> stale'[p]]
      BY <1>1, <3>2 DEF PTypes
    <3> QED BY <1>3, <1>4, <3>1, <3>3
  <2> QED BY <1>9, <2>1, <2>2, <2>3
<1>10. ASSUME NEW p \in Pages,
              \/ JoinStep(p) \/ JoinFails(p) \/ FetchRead(p) \/ Handle(p)
              \/ Fetched(p) \/ Connect(p) \/ Disconnect(p) \/ Leave(p)
              \/ Renew(p) \/ \E pc \in {"page", "older"} : Fetch(p, pc)
       PROVE  BInv'
  <2>1. CASE JoinStep(p) \/ JoinFails(p) \/ FetchRead(p) \/ Connect(p)
    BY <1>6, <2>1 DEF JoinStep, JoinFails, FetchRead, Connect, server
  <2>2. CASE \E pc \in {"page", "older"} : Fetch(p, pc)
    BY <1>6, <2>2 DEF Fetch, server
  <2>3. CASE Handle(p) \/ Fetched(p)
    BY <1>2, <2>3, HandleB, FetchedB
  <2>4. CASE Disconnect(p) \/ Leave(p) \/ Renew(p)
    BY <1>2, <2>4, BreakB
  <2> QED BY <1>10, <2>1, <2>2, <2>3, <2>4
<1>11. CASE UNCHANGED vars
  BY <1>6, <1>11 DEF vars, server
<1> QED BY <1>7, <1>8, <1>9, <1>10, <1>11, Zenon DEF Next

LEMMA InitB == Init => BInv /\ link \subseteq Pages
<1> SUFFICES ASSUME Init PROVE BInv /\ link \subseteq Pages
  OBVIOUS
<1>1. KInv
  BY InitInv
<1>2. /\ shown = [p \in Pages |-> Blank] /\ queue = [t \in Texts |-> "no"]
      /\ bubble = [t \in Texts |-> "no"] /\ clock = 2 /\ link = {} /\ db \in {Blank, AtFirst}
      /\ born = db /\ since = [p \in Pages |-> None] /\ stale = [p \in Pages |-> {}]
      /\ sentAt = [t \in Texts |-> IF t = Old /\ db # Blank THEN 0 ELSE None]
      /\ send = [a \in Attempts |-> Idle]
  BY DEF Init
<1>3. Blank \in Values /\ (\A i \in Ids : Blank[i] = None) /\ Idle.pc = "no"
      /\ AtFirst = [Blank EXCEPT ![<<Old, 1>>] = 0]
  BY AsleepTypes, IdleSends DEF AtFirst
<1>4. PTypes
  BY <1>2, <1>3 DEF PTypes, None, Marks
<1>5. ShownKnown
  BY <1>2, <1>3 DEF ShownKnown, Has
<1>6. BubbleIsUnsent
  BY <1>2 DEF BubbleIsUnsent
<1>7. \A i \in Ids : born[i] # None => i[1] = Old /\ born[i] = 0 /\ db # Blank
  BY <1>2, <1>3 DEF Values
<1>8. Sent
  <2>1. \A t \in Texts : bubble[t] = "no"
    BY <1>2
  <2>2. \A a \in Attempts : send[a].pc = "no"
    BY <1>2, <1>3
  <2>3. ASSUME NEW t \in Texts, NEW i \in Ids, i[1] = t, born[i] # None PROVE sentAt[t] # None
    BY <1>2, <1>7, <2>3 DEF None
  <2> QED BY <2>1, <2>2, <2>3 DEF Sent, Own
<1>9. Early
  <2>1. \A t \in Texts : sentAt[t] \in {0, -1}
    BY <1>2 DEF None
  <2>2. \A t \in Texts : sentAt[t] < clock /\ sentAt[t] <= 0
    BY <1>2, <2>1
  <2>3. \A t \in Texts : \A i \in Ids : born[i] # None => sentAt[t] <= born[i]
    BY <1>7, <2>2
  <2>4. 0 < clock
    BY <1>2
  <2>5. \A t \in Own : t \in Texts
    BY DEF Own
  <2>6. \A t \in Own : sentAt[t] < clock
    BY <2>2, <2>5
  <2>7. \A t \in Own : \A i \in Ids : born[i] # None => sentAt[t] <= born[i]
    BY <2>3, <2>5
  <2> QED BY <2>4, <2>6, <2>7, Zenon DEF Early
<1> QED BY <1>1, <1>2, <1>4, <1>5, <1>6, <1>8, <1>9 DEF BInv

\* A bubble has its entry in the queue and no message beside it: an echo takes the
\* bubble and the entry at once, and a history that holds the text holds a row
\* that is not older than the bubble (confirm, integrateEcho, reconcileMessages).
THEOREM BubblesAreUnsent == Spec => []BubbleIsUnsent
<1> DEFINE Inv == BInv /\ link \subseteq Pages
<1>1. Init => Inv
  BY InitB
<1>2. Inv /\ [Next]_vars => Inv'
  BY NextB, LinkNext
<1>3. Inv => BubbleIsUnsent
  BY DEF BInv
<1> HIDE DEF Inv
<1> QED BY <1>1, <1>2, <1>3, PTL DEF Spec

-----------------------------------------------------------------------------
(* What a page shows of the room. *)

\* What an event is to a page that shows m of the row i.
Counts(e, i, m) == /\ e.kind \in {"new", "edit", "gone"} /\ e.id = i
                   /\ e.kind = "edit" => m # None
                   /\ e.kind = "new" => m = None
Waits(box, i, m) == \E j \in 1..Len(box) : Counts(box[j], i, m)
ToTell(s, c, i, m) ==
    \/ \E a \in Attempts : s[a].pc = "tell" /\ s[a].id = i /\ m = None
    \/ \E x \in Clients : /\ c[x].id = i /\ c[x].pc \in {"tellEdit", "tellGone"}
                          /\ c[x].pc = "tellEdit" => m # None

\* The page shows the row as it is, was last told of it by what was over, or will
\* be told of it.
Right(p, i) == \/ i \in stale[p] \/ shown[p][i] = db[i]
               \/ Waits(inbox[p], i, shown[p][i]) \/ ToTell(send, change, i, shown[p][i])

Comes(p, S) ==
    \/ join[p].pc = "tell" /\ join[p].snap = S
    \/ \E j \in 1..Len(inbox[p]) : inbox[p][j].kind = "history" /\ inbox[p][j].snap = S
Live(p) == since[p] # None \/ \E S : Comes(p, S)

ViewInv == \A p \in Pages : since[p] # None =>
               \A i \in Ids : born[i] >= since[p] => Right(p, i)
\* A row that a history on its way misses, as far as it reaches, comes after it.
HistInv == \A p \in Pages : \A S : Comes(p, S) =>
               \A i \in Ids : S[i] = None /\ db[i] # None /\ shown[p][i] = None
                                 /\ born[i] >= Reaches(S) => Right(p, i)
\* A history that misses nothing, as far as it reaches.
Whole(S) == \A i \in Ids : S[i] = None /\ db[i] # None => ~(born[i] >= Reaches(S))
InRoom == \A p \in Pages : Live(p) \/ join[p].pc = "read" => p \in room
Borns == \A i \in Ids : born[i] # None => born[i] \in Nat

VInv == BInv /\ link \subseteq Pages /\ Borns /\ ViewInv /\ HistInv /\ InRoom

LEMMA MoreTold ==
    ASSUME NEW p \in Pages, NEW i, 
           \/ i \in stale'[p] \/ shown'[p][i] = db'[i]
           \/ Waits(inbox'[p], i, shown'[p][i]) \/ ToTell(send', change', i, shown'[p][i])
    PROVE  Right(p, i)'
BY DEF Right, Waits, ToTell, Counts

LEMMA RightNow ==
    ASSUME NEW p \in Pages, NEW i, Right(p, i)'
    PROVE  \/ i \in stale'[p] \/ shown'[p][i] = db'[i]
           \/ Waits(inbox'[p], i, shown'[p][i]) \/ ToTell(send', change', i, shown'[p][i])
BY DEF Right, Waits, ToTell, Counts

LEMMA ComesKnown ==
    ASSUME KInv, NEW p \in Pages, NEW S, Comes(p, S)
    PROVE  Has(S) \subseteq Known /\ S \in Values
<1>1. CASE join[p].pc = "tell" /\ join[p].snap = S
  BY <1>1 DEF KInv, KTypes, Answers, Joins
<1>2. ASSUME NEW j \in 1..Len(inbox[p]), inbox[p][j].kind = "history", inbox[p][j].snap = S
      PROVE  Has(S) \subseteq Known /\ S \in Values
  <2>1. inbox[p][j] \in Events /\ Good(inbox[p][j], Known)
    BY DEF KInv, KTypes, Mail
  <2> QED BY <1>2, <2>1 DEF Good, Events
<1> QED BY <1>1, <1>2 DEF Comes

\* What reaches as far does so after the step.
LEMMA ReachesNext ==
    ASSUME KInv, Grown, NEW S, Has(S) \subseteq Known
    PROVE  Reaches(S)' = Reaches(S)
<1>1. \A j \in Has(S) : born'[j] = born[j]
  BY DEF Grown
<1>2. {born'[j] : j \in Has(S)} = {born[j] : j \in Has(S)}
  BY <1>1
<1>3. Reaches(S)' = IF Cardinality(Has(S)) < Window THEN 0 ELSE Min({born'[j] : j \in Has(S)})
  BY DEF Reaches, Has
<1> QED BY <1>2, <1>3 DEF Reaches

LEMMA KeepViews ==
    ASSUME VInv, Grown, KInv',
           \A p \in Pages : since'[p] \in {since[p], None},
           \A p \in Pages : \A S : Comes(p, S)' => Comes(p, S) \/ Whole(S)',
           \A p \in Pages : Live(p)' =>
              /\ \A i \in Ids \ Known : Right(p, i)'
              /\ \A i \in Known : Right(p, i) => Right(p, i)'
              /\ \A i \in Known : db'[i] # None /\ shown'[p][i] = None =>
                    shown[p][i] = None \/ Right(p, i)'
    PROVE  ViewInv' /\ HistInv'
<1>1. KInv /\ ViewInv /\ HistInv
  BY DEF VInv, BInv
<1>2. \A i \in Known : i \in Ids /\ born'[i] = born[i] /\ (db'[i] # None => db[i] # None)
  BY DEF Grown, Known
<1>3. ASSUME NEW p \in Pages, since'[p] # None, NEW i \in Ids, born'[i] >= since'[p]
      PROVE  Right(p, i)'
  <2>1. Live(p)' /\ since'[p] = since[p]
    BY <1>3 DEF Live
  <2> QED BY <1>1, <1>2, <1>3, <2>1 DEF ViewInv
<1>4. ASSUME NEW p \in Pages, NEW S, Comes(p, S)', NEW i \in Ids, S[i] = None,
             db'[i] # None, shown'[p][i] = None, born'[i] >= Reaches(S)'
      PROVE  Right(p, i)'
  <2>1. Live(p)' /\ Comes(p, S)
    <3>1. ~Whole(S)'
      BY <1>4 DEF Whole
    <3> QED BY <1>4, <3>1 DEF Live
  <2>2. Reaches(S)' = Reaches(S)
    BY <1>1, <2>1, ComesKnown, ReachesNext
  <2>3. CASE i \in Known
    <3>1. born[i] >= Reaches(S) /\ db[i] # None
      BY <1>2, <1>4, <2>2, <2>3
    <3>2. shown[p][i] = None => Right(p, i)
      BY <1>1, <1>4, <2>1, <3>1 DEF HistInv
    <3> QED BY <1>4, <2>1, <2>3, <3>2
  <2> QED BY <2>1, <2>3
<1>5. ViewInv'
  BY <1>3 DEF ViewInv
<1>6. HistInv'
  BY <1>4 DEF HistInv
<1> QED BY <1>5, <1>6

\* The words on their way to a page stay on their way, and others come after them.
Longer(box, new) == \A j \in 1..Len(box) : j \in 1..Len(new) /\ new[j] = box[j]

LEMMA StillWaits ==
    ASSUME NEW box, NEW new, Longer(box, new), NEW i, NEW m, Waits(box, i, m)
    PROVE  Waits(new, i, m)
BY DEF Longer, Waits

\* Steps in which no page changes what it shows.
LEMMA StillViews ==
    ASSUME VInv, Grown, KInv',
           \A p \in Pages : since'[p] \in {since[p], None},
           \A p \in Pages : \A S : Comes(p, S)' => Comes(p, S) \/ Whole(S)',
           \A p \in Pages : Live(p)' =>
              /\ shown'[p] = shown[p] /\ stale[p] \subseteq stale'[p]
              /\ Longer(inbox[p], inbox'[p]),
           \A i \in Ids \ Known : db'[i] = None \/ ToTell(send', change', i, None),
           \A p \in Pages : Live(p)' => \A i \in Known :
              /\ db'[i] = db[i] \/ (Right(p, i) => Right(p, i)')
              /\ ToTell(send, change, i, shown[p][i]) =>
                    ToTell(send', change', i, shown[p][i]) \/ Right(p, i)'
    PROVE  ViewInv' /\ HistInv'
<1>1. KInv /\ ShownKnown
  BY DEF VInv, BInv
<1>2. ASSUME NEW p \in Pages, Live(p)'
      PROVE  /\ \A i \in Ids \ Known : Right(p, i)'
             /\ \A i \in Known : Right(p, i) => Right(p, i)'
             /\ \A i \in Known : db'[i] # None /\ shown'[p][i] = None =>
                   shown[p][i] = None \/ Right(p, i)'
  <2>1. ASSUME NEW i \in Ids \ Known PROVE Right(p, i)'
    <3>1. shown'[p][i] = None
      BY <1>1, <1>2 DEF ShownKnown, Has
    <3> QED BY <1>2, <3>1, MoreTold
  <2>2. ASSUME NEW i \in Known, Right(p, i) PROVE Right(p, i)'
    <3>0. shown'[p][i] = shown[p][i]
      BY <1>2
    <3>1. CASE i \in stale[p]
      BY <1>2, <3>1, MoreTold
    <3>2. CASE Waits(inbox[p], i, shown[p][i])
      BY <1>2, <3>0, <3>2, StillWaits, MoreTold
    <3>3. CASE ToTell(send, change, i, shown[p][i])
      <4>1. ToTell(send', change', i, shown[p][i]) \/ Right(p, i)'
        BY <1>2, <3>3
      <4>2. ToTell(send', change', i, shown'[p][i]) \/ Right(p, i)'
        BY <3>0, <4>1
      <4> QED BY <4>2, MoreTold
    <3>4. CASE shown[p][i] = db[i]
      <4>1. CASE db'[i] = db[i]
        BY <3>0, <3>4, <4>1, MoreTold
      <4> QED BY <1>2, <2>2, <4>1
    <3> QED BY <2>2, <3>1, <3>2, <3>3, <3>4 DEF Right
  <2>3. \A i \in Known : shown'[p][i] = shown[p][i]
    BY <1>2
  <2> QED BY <2>1, <2>2, <2>3
<1> QED BY <1>2, KeepViews

\* The words that are in an inbox, or are put into it.
Tells(e) == \/ ToRoom(e) \/ (\E p, live : ToClient(p, live, e))
            \/ UNCHANGED inbox

LEMMA BoxGrows ==
    ASSUME KInv, NEW e, Tells(e)
    PROVE  \A p \in Pages :
              /\ Longer(inbox[p], inbox'[p])
              /\ \A j \in 1..Len(inbox'[p]) :
                    (j \in 1..Len(inbox[p]) /\ inbox'[p][j] = inbox[p][j]) \/ inbox'[p][j] = e
<1>1. inbox \in [Pages -> Seq(Events)]
  BY DEF KInv, KTypes
<1>2. \A p \in Pages : inbox'[p] = inbox[p] \/ inbox'[p] = Append(inbox[p], e)
  <2>1. CASE ToRoom(e)
    BY <1>1, <2>1 DEF ToRoom
  <2>2. ASSUME NEW p, NEW live, ToClient(p, live, e)
        PROVE  \A q \in Pages : inbox'[q] = inbox[q] \/ inbox'[q] = Append(inbox[q], e)
    <3>1. inbox' = inbox \/ inbox' = [inbox EXCEPT ![p] = Append(@, e)]
      BY <2>2, Zenon DEF ToClient
    <3> QED BY <1>1, <3>1
  <2>3. CASE UNCHANGED inbox
    BY <1>1, <2>3
  <2> QED BY <2>1, <2>2, <2>3 DEF Tells
<1>3. ASSUME NEW p \in Pages
      PROVE  /\ Longer(inbox[p], inbox'[p])
             /\ \A j \in 1..Len(inbox'[p]) :
                   (j \in 1..Len(inbox[p]) /\ inbox'[p][j] = inbox[p][j]) \/ inbox'[p][j] = e
  <2> DEFINE s == inbox[p]
             n == Len(s)
             t == Append(s, e)
  <2>1. s \in Seq(Events) /\ n \in Nat
    BY <1>1
  <2>2. CASE inbox'[p] = s
    BY <2>2 DEF Longer
  <2>3. CASE inbox'[p] = t
    <3>1. \A v : Len(Append(s, v)) = Len(s) + 1 /\ Append(s, v)[Len(s) + 1] = v
                 /\ \A j \in 1..Len(s) : Append(s, v)[j] = s[j]
      BY <2>1
    <3>2. Len(t) = n + 1 /\ t[n + 1] = e /\ \A j \in 1..n : t[j] = s[j]
      BY <3>1
    <3> HIDE DEF t, s
    <3>3. Longer(s, t)
      BY <2>1, <3>2 DEF Longer
    <3>4. \A j \in 1..Len(t) : (j \in 1..n /\ t[j] = s[j]) \/ t[j] = e
      BY <2>1, <3>2
    <3> QED BY <2>3, <3>3, <3>4 DEF s
  <2> QED BY <1>2, <2>2, <2>3
<1> QED BY <1>3

\* Steps that put no history into an inbox, and in which no join goes on.
LEMMA WordViews ==
    ASSUME VInv, Grown, KInv', UNCHANGED <<shown, since, join, room>>, NEW e,
           Tells(e), e.kind # "history",
           \A p \in Pages : stale[p] \subseteq stale'[p],
           \A i \in Ids \ Known : db'[i] = None \/ ToTell(send', change', i, None),
           \A p \in Pages : Live(p)' => \A i \in Known :
              /\ db'[i] = db[i] \/ (Right(p, i) => Right(p, i)')
              /\ ToTell(send, change, i, shown[p][i]) =>
                    ToTell(send', change', i, shown[p][i]) \/ Right(p, i)'
    PROVE  ViewInv' /\ HistInv' /\ InRoom'
<1>1. KInv /\ InRoom
  BY DEF VInv, BInv
<1>2. \A p \in Pages : Longer(inbox[p], inbox'[p])
  BY <1>1, BoxGrows
<1>3. ASSUME NEW p \in Pages, NEW S, Comes(p, S)' PROVE Comes(p, S)
  <2>1. \A j \in 1..Len(inbox'[p]) :
           (j \in 1..Len(inbox[p]) /\ inbox'[p][j] = inbox[p][j]) \/ inbox'[p][j] = e
    BY <1>1, BoxGrows
  <2> QED BY <1>3, <2>1 DEF Comes
<1>4. \A p \in Pages : Live(p)' => Live(p)
  BY <1>3 DEF Live
<1>5. InRoom'
  BY <1>1, <1>4 DEF InRoom
<1> QED BY <1>2, <1>3, <1>5, StillViews

\* A handler that moves and has told, or has nothing to tell.
LEMMA SendMoves ==
    ASSUME KInv, NEW a \in Attempts, NEW v, send' = [send EXCEPT ![a] = v], UNCHANGED change,
           NEW i, NEW m, ToTell(send, change, i, m)
    PROVE  \/ ToTell(send', change', i, m)
           \/ send[a].pc = "tell" /\ send[a].id = i /\ m = None
<1>1. send \in [Attempts -> Sends]
  BY DEF KInv, KTypes
<1>2. \A c \in Attempts : c # a => send'[c] = send[c]
  BY <1>1
<1> QED BY <1>2 DEF ToTell

LEMMA ChangeMoves ==
    ASSUME KInv, NEW c \in Clients, NEW v, change' = [change EXCEPT ![c] = v], UNCHANGED send,
           NEW i, NEW m, ToTell(send, change, i, m)
    PROVE  \/ ToTell(send', change', i, m)
           \/ /\ change[c].id = i /\ change[c].pc \in {"tellEdit", "tellGone"}
              /\ change[c].pc = "tellEdit" => m # None
<1>1. change \in [Clients -> Changes]
  BY DEF KInv, KTypes
<1>2. \A x \in Clients : x # c => change'[x] = change[x]
  BY <1>1
<1> QED BY <1>2 DEF ToTell

LEMMA NoRow == ASSUME KInv, NEW i \in Ids \ Known PROVE db[i] = None
BY DEF KInv, Rows

NoEvent == [kind |-> "new", id |-> None, body |-> None]

LEMMA SilentTells == UNCHANGED inbox => Tells(NoEvent) /\ NoEvent.kind # "history"
BY DEF Tells, NoEvent

LEMMA SendAskV ==
    ASSUME VInv, Grown, KInv', NEW a \in Attempts, SendAsk(a)
    PROVE  ViewInv' /\ HistInv' /\ InRoom'
<1>1. KInv
  BY DEF VInv, BInv
<1>2. /\ send[a].pc = "ask" /\ \E v : send' = [send EXCEPT ![a] = v]
      /\ UNCHANGED <<shown, since, join, room, inbox, stale, db, change>>
  BY Zenon DEF SendAsk, page
<1>3. ASSUME NEW p \in Pages, NEW i \in Known, ToTell(send, change, i, shown[p][i])
      PROVE  ToTell(send', change', i, shown[p][i])
  BY <1>1, <1>2, <1>3, SendMoves
<1> QED BY <1>1, <1>2, <1>3, NoRow, SilentTells, WordViews

LEMMA SendInsertV ==
    ASSUME VInv, Grown, KInv', NEW a \in Attempts, SendInsert(a)
    PROVE  ViewInv' /\ HistInv' /\ InRoom'
<1> DEFINE x == send[a].id
<1>1. KInv /\ send \in [Attempts -> Sends] /\ db \in [Ids -> Int]
  BY DEF VInv, BInv, KInv, KTypes, Values
<1>2. /\ send[a].pc = "insert" /\ \E v : send' = [send EXCEPT ![a] = v]
      /\ UNCHANGED <<shown, since, join, room, inbox, stale, change>>
      /\ \/ UNCHANGED db
         \/ /\ db' = [db EXCEPT ![x] = 0]
            /\ send' = [send EXCEPT ![a] = [@ EXCEPT !.pc = "tell", !.body = 0]]
  BY Zenon DEF SendInsert, page
<1>3. ASSUME NEW p \in Pages, NEW i \in Known, ToTell(send, change, i, shown[p][i])
      PROVE  ToTell(send', change', i, shown[p][i])
  BY <1>1, <1>2, <1>3, SendMoves
<1>4. x \notin Known
  BY <1>1, <1>2 DEF Known
<1>5. \A i \in Ids : db'[i] = db[i] \/ (i = x /\ ToTell(send', change', i, None))
  <2>1. CASE /\ db' = [db EXCEPT ![x] = 0]
             /\ send' = [send EXCEPT ![a] = [@ EXCEPT !.pc = "tell", !.body = 0]]
    <3> DEFINE v == ToBody(send[a], "tell", 0)
    <3>1. v.pc = "tell" /\ v.id = x
      <4>1. "tell" \in SendPcs /\ 0 \in Int /\ send[a] \in Sends /\ Ids # {}
        BY <1>1, RoomAssumption DEF SendPcs, Ids, Attempts
      <4> QED BY <4>1, GoesOn
    <3>2. send' = [send EXCEPT ![a] = v]
      BY <2>1, Zenon DEF ToBody
    <3> HIDE DEF v
    <3>3. send'[a] = v
      BY <1>1, <3>2
    <3> QED BY <1>1, <2>1, <3>1, <3>3 DEF ToTell
  <2> QED BY <1>2, <2>1
<1> HIDE DEF x
<1>6. \A i \in Known : i \in Ids
  BY DEF Known
<1> QED BY <1>1, <1>2, <1>3, <1>4, <1>5, <1>6, NoRow, SilentTells, WordViews

\* An event that counts is put into the inbox of a page.
LEMMA TellsRight ==
    ASSUME KInv, KInv', NEW e, ToRoom(e), NEW p \in Pages, p \in room, NEW i,
           Counts(e, i, shown[p][i]), UNCHANGED shown
    PROVE  Right(p, i)'
<1>1. inbox \in [Pages -> Seq(Events)]
  BY DEF KInv, KTypes
<1>2. inbox'[p] = Append(inbox[p], e)
  BY <1>1 DEF ToRoom
<1> DEFINE s == inbox[p]
<1>3. \A v : Len(Append(s, v)) = Len(s) + 1 /\ Append(s, v)[Len(s) + 1] = v /\ Len(s) \in Nat
  BY <1>1
<1>4. Len(s) + 1 \in 1..Len(inbox'[p]) /\ inbox'[p][Len(s) + 1] = e
  BY <1>2, <1>3
<1>5. Waits(inbox'[p], i, shown'[p][i])
  BY <1>4 DEF Waits
<1> QED BY <1>5, MoreTold

\* Who sees the room is in it.
LEMMA LiveInRoom ==
    ASSUME VInv, UNCHANGED <<since, join>>, NEW e, Tells(e), e.kind # "history",
           NEW p \in Pages, Live(p)'
    PROVE  p \in room
<1>1. KInv /\ InRoom
  BY DEF VInv, BInv
<1>2. \A j \in 1..Len(inbox'[p]) :
           (j \in 1..Len(inbox[p]) /\ inbox'[p][j] = inbox[p][j]) \/ inbox'[p][j] = e
  BY <1>1, BoxGrows
<1>3. Live(p)
  BY <1>2 DEF Live, Comes
<1> QED BY <1>1, <1>3 DEF InRoom

LEMMA SendTellV ==
    ASSUME VInv, Grown, KInv', NEW a \in Attempts, SendTell(a)
    PROVE  ViewInv' /\ HistInv' /\ InRoom'
<1> DEFINE e == News(send[a])
<1>1. KInv /\ send \in [Attempts -> Sends]
  BY DEF VInv, BInv, KInv, KTypes
<1>2. /\ \E v : send' = [send EXCEPT ![a] = v]
      /\ UNCHANGED <<shown, since, join, room, stale, db, change>>
      /\ \/ send[a].pc = "tell" /\ ToRoom(e)
         \/ send[a].pc = "echo" /\ \E p, live : ToClient(p, live, e)
  BY Zenon DEF SendTell, page
<1>3. Tells(e) /\ e.kind = "new" /\ e.id = send[a].id
  BY <1>2 DEF Tells, News
<1> HIDE DEF e
<1>4. ASSUME NEW p \in Pages, Live(p)', NEW i \in Known, ToTell(send, change, i, shown[p][i])
      PROVE  ToTell(send', change', i, shown[p][i]) \/ Right(p, i)'
  <2>1. \/ ToTell(send', change', i, shown[p][i])
        \/ send[a].pc = "tell" /\ send[a].id = i /\ shown[p][i] = None
    BY <1>1, <1>2, <1>4, SendMoves
  <2>2. CASE send[a].pc = "tell" /\ send[a].id = i /\ shown[p][i] = None
    <3>1. p \in room
      BY <1>2, <1>3, <1>4, LiveInRoom
    <3>2. ToRoom(e) /\ Counts(e, i, shown[p][i])
      BY <1>2, <1>3, <2>2 DEF Counts
    <3> QED BY <1>1, <1>2, <3>1, <3>2, TellsRight
  <2> QED BY <2>1, <2>2
<1> QED BY <1>1, <1>2, <1>3, <1>4, NoRow, WordViews

LEMMA UntoldStale ==
    ASSUME NEW i, Untold(i), NEW p \in Pages
    PROVE  stale[p] \subseteq stale'[p] /\ Right(p, i)'
BY DEF Untold, Right

LEMMA SendFailsV ==
    ASSUME VInv, Grown, KInv', NEW a \in Attempts, SendFails(a)
    PROVE  ViewInv' /\ HistInv' /\ InRoom'
<1>1. KInv
  BY DEF VInv, BInv
<1>2. /\ \E v : send' = [send EXCEPT ![a] = v]
      /\ UNCHANGED <<shown, since, join, room, inbox, db, change>>
      /\ IF send[a].pc = "tell" THEN Untold(send[a].id) ELSE UNCHANGED stale
  BY Zenon DEF SendFails
<1>3. ASSUME NEW p \in Pages, NEW i \in Known, ToTell(send, change, i, shown[p][i])
      PROVE  ToTell(send', change', i, shown[p][i]) \/ Right(p, i)'
  BY <1>1, <1>2, <1>3, SendMoves, UntoldStale
<1>4. \A p \in Pages : stale[p] \subseteq stale'[p]
  BY <1>2, UntoldStale
<1> QED BY <1>1, <1>2, <1>3, <1>4, NoRow, SilentTells, WordViews

LEMMA ChangeRowV ==
    ASSUME VInv, Grown, KInv', NEW c \in Clients, ChangeRow(c)
    PROVE  ViewInv' /\ HistInv' /\ InRoom'
<1> DEFINE h == change[c]
<1>1. KInv /\ change \in [Clients -> Changes] /\ db \in [Ids -> Int]
  BY DEF VInv, BInv, KInv, KTypes, Values
<1>2. /\ UNCHANGED <<shown, since, join, room, inbox, stale, send>> /\ h.pc \in {"edit", "delete"}
      /\ IF db[h.id] = None
         THEN change' = [change EXCEPT ![c] = Idle] /\ UNCHANGED db
         ELSE /\ db' = [db EXCEPT ![h.id] = IF h.pc = "edit" THEN h.body ELSE None]
              /\ change' = [change EXCEPT ![c] = To(@, IF h.pc = "edit" THEN "tellEdit" ELSE "tellGone")]
  BY Zenon DEF ChangeRow, page, To
<1>3. \E v : change' = [change EXCEPT ![c] = v]
  BY <1>2, Zenon
<1>4. ASSUME NEW p \in Pages, NEW i \in Known, ToTell(send, change, i, shown[p][i])
      PROVE  ToTell(send', change', i, shown[p][i])
  BY <1>1, <1>2, <1>3, <1>4, ChangeMoves
<1>5. ASSUME NEW p \in Pages, NEW i \in Known, db'[i] # db[i], Right(p, i) PROVE Right(p, i)'
  <2>1. i = h.id /\ db[i] # None /\ i \in Ids
    BY <1>1, <1>2, <1>5 DEF Known
  <2>2. change'[c] = To(h, IF h.pc = "edit" THEN "tellEdit" ELSE "tellGone")
    BY <1>1, <1>2, <2>1
  <2>3. /\ change'[c].id = i
        /\ change'[c].pc = IF h.pc = "edit" THEN "tellEdit" ELSE "tellGone"
    <3>1. \A x \in ChangePcs : To(h, x).id = h.id /\ To(h, x).pc = x
      BY <1>1 DEF To, Changes
    <3> QED BY <2>1, <2>2, <3>1 DEF ChangePcs
  <2>4. CASE shown[p][i] # None \/ h.pc = "delete"
    <3>1. ToTell(send', change', i, shown'[p][i])
      BY <1>2, <2>3, <2>4 DEF ToTell
    <3> QED BY <3>1, MoreTold
  <2>5. CASE shown[p][i] = None
    <3>1. i \in stale[p] \/ Waits(inbox[p], i, shown[p][i]) \/ ToTell(send, change, i, shown[p][i])
      BY <1>5, <2>1, <2>5 DEF Right
    <3> QED BY <1>2, <1>4, <3>1, MoreTold
  <2> QED BY <2>4, <2>5
<1>6. \A i \in Ids \ Known : db'[i] = None
  BY <1>1, <1>2, NoRow
<1> QED BY <1>2, <1>4, <1>5, <1>6, SilentTells, WordViews

LEMMA ChangeTellV ==
    ASSUME VInv, Grown, KInv', NEW c \in Clients, ChangeTell(c)
    PROVE  ViewInv' /\ HistInv' /\ InRoom'
<1> DEFINE h == change[c]
           e == [kind |-> IF h.pc = "tellEdit" THEN "edit" ELSE "gone",
                 id |-> h.id, body |-> h.body]
<1>1. KInv
  BY DEF VInv, BInv
<1>2. /\ UNCHANGED <<shown, since, join, room, stale, db, send>> /\ ToRoom(e)
      /\ change' = [change EXCEPT ![c] = Idle]
  BY Zenon DEF ChangeTell, page
<1>3. /\ Tells(e) /\ e.id = h.id /\ e.kind \in {"edit", "gone"}
      /\ e.kind = "edit" => h.pc = "tellEdit"
  BY <1>2 DEF Tells
<1> HIDE DEF e
<1>4. ASSUME NEW p \in Pages, Live(p)', NEW i \in Known, ToTell(send, change, i, shown[p][i])
      PROVE  ToTell(send', change', i, shown[p][i]) \/ Right(p, i)'
  <2>1. \/ ToTell(send', change', i, shown[p][i])
        \/ /\ h.id = i /\ h.pc \in {"tellEdit", "tellGone"}
           /\ h.pc = "tellEdit" => shown[p][i] # None
    BY <1>1, <1>2, <1>4, ChangeMoves
  <2>2. CASE h.id = i /\ (h.pc = "tellEdit" => shown[p][i] # None)
    <3>1. p \in room
      BY <1>2, <1>3, <1>4, LiveInRoom
    <3>2. Counts(e, i, shown[p][i])
      BY <1>3, <2>2 DEF Counts
    <3> QED BY <1>1, <1>2, <3>1, <3>2, TellsRight
  <2> QED BY <2>1, <2>2
<1> QED BY <1>1, <1>2, <1>3, <1>4, NoRow, WordViews

LEMMA ChangesV ==
    ASSUME VInv, Grown, KInv', NEW c \in Clients,
           \/ ChangeFails(c)
           \/ \E i \in Ids, pc \in {"edit", "delete"} : Change(c, i, pc)
    PROVE  ViewInv' /\ HistInv' /\ InRoom'
<1>1. KInv
  BY DEF VInv, BInv
<1>2. /\ \E v : change' = [change EXCEPT ![c] = v]
      /\ UNCHANGED <<shown, since, join, room, inbox, db, send>>
      /\ \/ change[c].pc \in {"tellEdit", "tellGone"} /\ Untold(change[c].id)
         \/ change[c].pc \notin {"tellEdit", "tellGone"} /\ UNCHANGED stale
  <2>1. CASE ChangeFails(c)
    BY <2>1, Zenon DEF ChangeFails
  <2>2. ASSUME NEW i \in Ids, NEW pc \in {"edit", "delete"}, Change(c, i, pc) PROVE <1>2!:
    <3>1. /\ change[c].pc = "no" /\ \E v : change' = [change EXCEPT ![c] = v]
          /\ UNCHANGED <<shown, since, join, room, inbox, db, send, stale>>
      BY <2>2, Zenon DEF Change, page
    <3> QED BY <3>1
  <2> QED BY <2>1, <2>2
<1>3. ASSUME NEW p \in Pages, NEW i \in Known, ToTell(send, change, i, shown[p][i])
      PROVE  ToTell(send', change', i, shown[p][i]) \/ Right(p, i)'
  BY <1>1, <1>2, <1>3, ChangeMoves, UntoldStale
<1>4. \A p \in Pages : stale[p] \subseteq stale'[p]
  BY <1>2, UntoldStale
<1> QED BY <1>1, <1>2, <1>3, <1>4, NoRow, SilentTells, WordViews

LEMMA TextV ==
    ASSUME VInv, Grown, KInv', NEW t \in Texts,
           Write(t) \/ WriteElsewhere(t) \/ TimeOut(t) \/ Retry(t) \/ Dismiss(t)
    PROVE  ViewInv' /\ HistInv' /\ InRoom'
<1>1. KInv /\ send \in [Attempts -> Sends]
  BY DEF VInv, BInv, KInv, KTypes
<1>2. /\ UNCHANGED <<shown, since, stale, join, room, inbox, db, change>>
      /\ UNCHANGED send \/ Emit(t)
  BY Zenon DEF Write, WriteElsewhere, TimeOut, Retry, Dismiss, page, server
<1>3. \A a \in Attempts : send[a].pc = "tell" => send'[a] = send[a]
  <2>1. CASE Emit(t)
    <3>1. PICK k \in NextAttempt(t) : \E v : send' = [send EXCEPT ![<<t, k>>] = v]
      BY <2>1, Zenon DEF Emit
    <3>2. ~(send[<<t, k>>].pc = "tell")
      BY DEF NextAttempt, Begun, Attempts
    <3> QED BY <1>1, <3>1, <3>2
  <2> QED BY <1>2, <2>1
<1>4. ASSUME NEW p \in Pages, NEW i \in Known, ToTell(send, change, i, shown[p][i])
      PROVE  ToTell(send', change', i, shown[p][i])
  BY <1>2, <1>3, <1>4 DEF ToTell
<1> QED BY <1>1, <1>2, <1>4, NoRow, SilentTells, WordViews

\* Steps that touch neither rows nor words.
LEMMA QuietV ==
    ASSUME VInv, Grown, KInv',
           UNCHANGED <<shown, since, stale, join, room, inbox, db, change, send>>
    PROVE  ViewInv' /\ HistInv' /\ InRoom'
BY NoRow, SilentTells, WordViews DEF VInv, BInv

LEMMA FetchesV ==
    ASSUME VInv, Grown, KInv', NEW p \in Pages,
           FetchRead(p) \/ \E pc \in {"page", "older"} : Fetch(p, pc)
    PROVE  ViewInv' /\ HistInv' /\ InRoom'
<1>1. UNCHANGED <<shown, since, stale, join, room, inbox, db, change, send>>
  BY DEF FetchRead, Fetch, page, server
<1> QED BY <1>1, QuietV

\* A join that begins, or fails, has nothing on its way.
LEMMA JoinEndsV ==
    ASSUME VInv, Grown, KInv', NEW p \in Pages, NEW v, v.pc \in {"no", "ask"},
           join' = [join EXCEPT ![p] = v],
           UNCHANGED <<shown, since, stale, room, inbox, db, change, send>>
    PROVE  ViewInv' /\ HistInv' /\ InRoom'
<1>1. KInv /\ InRoom /\ join \in [Pages -> Joins]
  BY DEF VInv, BInv, KInv, KTypes
<1>2. \A q \in Pages : join'[q] = join[q] \/ join'[q].pc \in {"no", "ask"}
  BY <1>1
<1>3. \A q \in Pages : \A S : Comes(q, S)' => Comes(q, S)
  BY <1>2 DEF Comes
<1>4. InRoom'
  BY <1>1, <1>2, <1>3 DEF InRoom, Live
<1>5. \A q \in Pages : Longer(inbox[q], inbox'[q])
  BY DEF Longer
<1> QED BY <1>1, <1>3, <1>4, <1>5, NoRow, StillViews

LEMMA ConnectV ==
    ASSUME VInv, Grown, KInv', NEW p \in Pages, Connect(p) \/ JoinFails(p)
    PROVE  ViewInv' /\ HistInv' /\ InRoom'
<1>1. UNCHANGED <<shown, since, stale, room, inbox, db, change, send>>
  BY DEF Connect, JoinFails, page
<1> DEFINE v == [Asleep EXCEPT !.pc = "ask"]
<1>2. v.pc = "ask" /\ Asleep.pc = "no"
  BY DEF Asleep
<1>3. join' = [join EXCEPT ![p] = v] \/ join' = [join EXCEPT ![p] = Asleep]
  BY DEF Connect, JoinFails
<1> HIDE DEF v
<1> QED BY <1>1, <1>2, <1>3, JoinEndsV

LEMMA BreakV ==
    ASSUME VInv, Grown, KInv', NEW p \in Pages,
           Disconnect(p) \/ Leave(p) \/ Renew(p)
    PROVE  ViewInv' /\ HistInv' /\ InRoom'
<1>0. /\ shown' = shown \/ shown' = [shown EXCEPT ![p] = Blank]
      /\ stale' = stale \/ stale' = [stale EXCEPT ![p] = {}]
      /\ since' = [since EXCEPT ![p] = None]
  BY Zenon DEF Disconnect, Leave, Renew
<1>1. /\ KInv /\ InRoom /\ join \in [Pages -> Joins] /\ inbox \in [Pages -> Seq(Events)]
      /\ send \in [Attempts -> Sends] /\ change \in [Clients -> Changes] /\ PTypes
  BY DEF VInv, BInv, KInv, KTypes
<1>2. PICK lost \in BOOLEAN : Broken(p, lost)
  BY Zenon DEF Disconnect, Leave, Renew
<1>3. /\ room' = room \ {p} /\ inbox' = [inbox EXCEPT ![p] = <<>>]
      /\ join' = [join EXCEPT ![p] = Asleep] /\ UNCHANGED db
      /\ send' = [a \in Attempts |->
             IF ~Mine(a, p) THEN send[a]
             ELSE IF lost /\ send[a].pc = "ask" THEN [Idle EXCEPT !.pc = "told"]
             ELSE [send[a] EXCEPT !.live = FALSE]]
      /\ change' = [change EXCEPT ![p] =
             IF lost /\ @.pc \in {"edit", "delete"} THEN Idle ELSE @]
  BY <1>2, Zenon DEF Broken
<1>4. since'[p] = None /\ join'[p].pc = "no" /\ inbox'[p] = <<>> /\ Len(inbox'[p]) = 0
  <2>1. since = [q \in Pages |-> since[q]]
    BY <1>1 DEF PTypes
  <2>2. since'[p] = None
    BY <1>0, <2>1
  <2>3. join'[p].pc = "no"
    BY <1>1, <1>3, AsleepTypes
  <2>4. inbox'[p] = <<>>
    BY <1>1, <1>3
  <2> QED BY <2>2, <2>3, <2>4
<1>5. \A S : ~Comes(p, S)'
  BY <1>4 DEF Comes
<1>6. ~Live(p)'
  BY <1>4, <1>5 DEF Live
<1>7. \A q \in Pages : q # p => /\ join'[q] = join[q] /\ inbox'[q] = inbox[q]
                                /\ shown'[q] = shown[q] /\ stale'[q] = stale[q] /\ since'[q] = since[q]
  BY <1>0, <1>1, <1>3 DEF PTypes
<1>8. \A q \in Pages : \A S : Comes(q, S)' => Comes(q, S)
  BY <1>5, <1>7 DEF Comes
<1>9. InRoom'
  BY <1>1, <1>3, <1>4, <1>6, <1>7, <1>8 DEF InRoom, Live
<1>10. ASSUME NEW i, NEW m, ToTell(send, change, i, m) PROVE ToTell(send', change', i, m)
  <2>1. \A r \in Sends : [r EXCEPT !.live = FALSE].pc = r.pc /\ [r EXCEPT !.live = FALSE].id = r.id
    BY DEF Sends
  <2>2. ASSUME NEW a \in Attempts, send[a].pc = "tell"
        PROVE  send'[a].pc = "tell" /\ send'[a].id = send[a].id
    <3>1. send'[a] = send[a] \/ send'[a] = [send[a] EXCEPT !.live = FALSE]
      <4>1. ~(send[a].pc = "ask")
        BY <2>2
      <4> QED BY <1>3, <4>1, Zenon
    <3> QED BY <1>1, <2>1, <2>2, <3>1
  <2>3. \A c \in Clients : change[c].pc \in {"tellEdit", "tellGone"} => change'[c] = change[c]
    BY <1>1, <1>3
  <2> QED BY <1>10, <2>2, <2>3 DEF ToTell
<1>11. \A q \in Pages : since'[q] \in {since[q], None}
  BY <1>4, <1>7
<1>12. \A q \in Pages : Live(q)' => shown'[q] = shown[q] /\ stale[q] \subseteq stale'[q]
                                      /\ Longer(inbox[q], inbox'[q])
  BY <1>6, <1>7 DEF Longer
<1> QED BY <1>1, <1>3, <1>8, <1>9, <1>10, <1>11, <1>12, NoRow, StillViews

-----------------------------------------------------------------------------
(* What a history misses. *)

LEMMA MinOfNat ==
    ASSUME NEW T, T \subseteq Nat, T # {}
    PROVE  \E x \in T : \A y \in T : x <= y
<1>1. IsWellFoundedOn(OpToRel(<, Nat), Nat)
  BY NatLessThanWellFounded
<1>2. \A x, y \in Nat : x < y => <<x, y>> \in OpToRel(<, Nat)
  BY DEF OpToRel
<1> DEFINE R == OpToRel(<, Nat)
<1>3. IsWellFoundedOn(R, Nat) /\ \A x, y \in Nat : x < y => <<x, y>> \in R
  BY <1>1, <1>2
<1> HIDE DEF R
<1>4. PICK x \in T : \A y \in T : ~(<<y, x>> \in R)
  BY <1>3, WFMin
<1>5. ASSUME NEW y \in T PROVE x <= y
  <2>1. x \in Nat /\ y \in Nat /\ ~(y < x)
    BY <1>3, <1>4
  <2> QED BY <2>1
<1> QED BY <1>5

LEMMA IdsFinite == \A s : s \subseteq Ids => IsFiniteSet(s)
<1>1. IsFiniteSet(Texts) /\ IsFiniteSet(1..MaxSends)
  BY RoomAssumption, FS_Interval
<1>2. IsFiniteSet(Ids)
  BY <1>1, FS_Product DEF Ids, Attempts
<1> QED BY <1>2, FS_Subset

\* The rows of a set that are younger than one of it.
Younger(s, i) == {j \in s : born[j] > born[i]}

\* A row that is not among the newest is older than they are, and they fill the
\* window.
LEMMA NewestFill ==
    ASSUME NEW s, s \subseteq Ids, \A j \in s : born[j] \in Nat, NEW i \in s \ Newest(s)
    PROVE  /\ Cardinality(Newest(s)) >= Window
           /\ \A j \in Newest(s) : born[i] < born[j]
<1> DEFINE rank(j) == Cardinality(Younger(s, j))
           rest == s \ Newest(s)
<1>1. \A x : x \subseteq s => IsFiniteSet(x) /\ Cardinality(x) \in Nat
  BY IdsFinite, FS_CardinalityType
<1>2. Window \in Nat
  BY RoomAssumption
<1>3. \A j \in s : j \in Newest(s) <=> rank(j) < Window
  BY DEF Newest, Younger
<1>4. \A j \in s : rank(j) \in Nat
  BY <1>1 DEF Younger
<1>5. ASSUME NEW j \in Newest(s) PROVE born[i] < born[j]
  <2>1. j \in s /\ born[i] \in Nat /\ born[j] \in Nat
    BY DEF Newest
  <2>2. SUFFICES ASSUME born[j] <= born[i] PROVE FALSE
    BY <2>1
  <2>3. Younger(s, i) \subseteq Younger(s, j)
    BY <2>1, <2>2 DEF Younger
  <2>4. IsFiniteSet(Younger(s, j))
    BY <1>1 DEF Younger
  <2>5. rank(i) <= rank(j)
    BY <2>3, <2>4, FS_Subset
  <2>6. rank(j) < Window /\ ~(rank(i) < Window)
    BY <1>3, <2>1
  <2> HIDE DEF rank
  <2> QED BY <1>2, <1>4, <2>1, <2>5, <2>6
<1>6. PICK k \in rest : \A j \in rest : rank(k) <= rank(j)
  <2> DEFINE T == {rank(j) : j \in rest}
  <2>1. T \subseteq Nat /\ T # {}
    BY <1>4
  <2>2. PICK n \in T : \A m \in T : n <= m
    BY <2>1, MinOfNat
  <2> QED BY <2>2
<1>7. Younger(s, k) \subseteq Newest(s)
  <2>1. SUFFICES ASSUME NEW j \in Younger(s, k), j \notin Newest(s) PROVE FALSE
    OBVIOUS
  <2>2. j \in rest /\ j \in s /\ k \in s /\ born[j] > born[k]
    BY <2>1 DEF Younger
  <2>3. Younger(s, j) \subseteq Younger(s, k) /\ j \notin Younger(s, j)
    BY <2>2 DEF Younger
  <2>4. IsFiniteSet(Younger(s, k)) /\ Younger(s, j) # Younger(s, k)
    BY <1>1, <2>1, <2>3 DEF Younger
  <2>5. rank(j) < rank(k)
    BY <2>3, <2>4, FS_Subset, <1>4, <2>2
  <2>6. rank(k) <= rank(j)
    BY <1>6, <2>2
  <2> HIDE DEF rank
  <2> QED BY <1>4, <2>2, <2>5, <2>6
<1>8. Cardinality(Newest(s)) >= Window
  <2>1. IsFiniteSet(Newest(s)) /\ Cardinality(Newest(s)) \in Nat
    BY <1>1 DEF Newest
  <2>2. rank(k) <= Cardinality(Newest(s))
    BY <1>7, <2>1, FS_Subset
  <2>3. ~(rank(k) < Window) /\ rank(k) \in Nat
    BY <1>3, <1>4
  <2> HIDE DEF rank
  <2> QED BY <1>2, <2>1, <2>2, <2>3
<1> QED BY <1>5, <1>8

\* The history that joinRoom reads misses nothing, as far as it reaches.
LEMMA ReadsWhole ==
    ASSUME KInv, Borns
    PROVE  Whole(Snapshot(Newest(Has(db))))
<1> DEFINE s == Has(db)
           S == Snapshot(Newest(s))
<1>1. \A i \in s : i \in Ids /\ db[i] # None /\ born[i] \in Nat
  BY DEF Has, KInv, Rows, Known, Borns
<1>2. Newest(s) \subseteq s
  BY DEF Newest
<1>3. Has(S) = Newest(s)
  BY <1>1, <1>2 DEF Has, Snapshot
<1> SUFFICES ASSUME NEW i \in Ids, S[i] = None, db[i] # None
             PROVE  ~(born[i] >= Reaches(S))
  BY DEF Whole
<1>4. i \in s /\ i \notin Newest(s)
  BY <1>3 DEF Has
<1>5. /\ Cardinality(Newest(s)) >= Window
      /\ \A j \in Newest(s) : born[i] < born[j]
  BY <1>1, <1>4, NewestFill
<1>6. ~(Cardinality(Newest(s)) < Window)
  <2>1. IsFiniteSet(Newest(s))
    BY <1>1, <1>2, IdsFinite
  <2> QED BY <1>5, <2>1, RoomAssumption, FS_CardinalityType
<1> DEFINE T == {born[j] : j \in Newest(s)}
<1>7. Reaches(S) = Min(T)
  BY <1>3, <1>6 DEF Reaches
<1>8. T \subseteq Nat
  BY <1>1, <1>2
<1>9. T # {}
  <2>1. Newest(s) # {}
    <3>1. Window \in Nat \ {0} /\ Cardinality({}) = 0
      BY RoomAssumption, FS_EmptySet
    <3> QED BY <1>6, <3>1
  <2> QED BY <2>1
<1>10. Min(T) \in T
  <2>1. \E x \in T : \A y \in T : x <= y
    BY <1>8, <1>9, MinOfNat
  <2> HIDE DEF T
  <2> QED BY <2>1 DEF Min
<1>11. born[i] < Min(T) /\ born[i] \in Nat /\ Min(T) \in Nat
  BY <1>1, <1>4, <1>5, <1>8, <1>10
<1> HIDE DEF T, S
<1> QED BY <1>7, <1>11

LEMMA JoinStepV ==
    ASSUME VInv, Grown, KInv', NEW p \in Pages, JoinStep(p)
    PROVE  ViewInv' /\ HistInv' /\ InRoom'
<1>1. /\ KInv /\ InRoom /\ Borns /\ join \in [Pages -> Joins] /\ join[p] \in Joins
  BY DEF VInv, BInv, KInv, KTypes
<1>2. /\ JoinRoom(p) /\ UNCHANGED <<db, born, send, change, shown, since, stale>>
  BY DEF JoinStep, page
<1>3. ASSUME room \subseteq room', NEW e, Tells(e),
             \A q \in Pages : \A S : Comes(q, S)' => Comes(q, S) \/ (q = p /\ Whole(S)'),
             \A q \in Pages : Live(q)' \/ join'[q].pc = "read" => q \in room'
      PROVE  ViewInv' /\ HistInv' /\ InRoom'
  <2>1. \A q \in Pages : Longer(inbox[q], inbox'[q])
    BY <1>1, <1>3, BoxGrows
  <2>2. InRoom'
    BY <1>3 DEF InRoom
  <2>3. \A q \in Pages : \A S : Comes(q, S)' => Comes(q, S) \/ Whole(S)'
    BY <1>3
  <2> QED BY <1>1, <1>2, <2>1, <2>2, <2>3, NoRow, StillViews
<1>4. CASE /\ join[p].pc = "ask" /\ room' = room \cup {p}
           /\ join' = [join EXCEPT ![p].pc = "read"] /\ UNCHANGED inbox
  <2> DEFINE v == At(join[p], "read")
  <2>1. v.pc = "read" /\ join' = [join EXCEPT ![p] = v]
    BY <1>1, <1>4 DEF At, Joins
  <2> HIDE DEF v
  <2>2. \A q \in Pages : join'[q] = IF q = p THEN v ELSE join[q]
    BY <1>1, <2>1
  <2>3. \A q \in Pages : \A S : Comes(q, S)' => Comes(q, S)
    BY <1>4, <2>1, <2>2 DEF Comes
  <2>4. \A q \in Pages : Live(q)' \/ join'[q].pc = "read" => q \in room'
    BY <1>1, <1>2, <1>4, <2>2, <2>3 DEF InRoom, Live
  <2>5. Tells(NoEvent)
    BY <1>4, SilentTells
  <2> QED BY <1>3, <1>4, <2>3, <2>4, <2>5
<1>5. CASE /\ join[p].pc = "read" /\ UNCHANGED <<room, inbox>>
           /\ join' = [join EXCEPT ![p] =
                  [@ EXCEPT !.pc = "tell", !.snap = Snapshot(Newest(Has(db)))]]
  <2> DEFINE s == Snapshot(Newest(Has(db)))
             v == With(join[p], "tell", s)
  <2>1. s \in Values /\ join' = [join EXCEPT ![p] = v]
    BY <1>1, <1>5, RowsKnown, Zenon DEF With
  <2>2. ASSUME NEW S, S = s PROVE Whole(S)'
    <3>1. Whole(S) /\ Has(S) \subseteq Known
      BY <1>1, <2>2, ReadsWhole, RowsKnown
    <3>2. Reaches(S)' = Reaches(S)
      BY <1>1, <3>1, ReachesNext
    <3> QED BY <1>2, <3>1, <3>2 DEF Whole
  <2> HIDE DEF s
  <2>3. v.pc = "tell" /\ v.snap = s
    <3>1. v = [At(join[p], "tell") EXCEPT !.snap = s]
      BY Zenon DEF With, At
    <3>2. At(join[p], "tell") \in Joins /\ At(join[p], "tell").pc = "tell"
      BY <1>1 DEF At, Joins
    <3> QED BY <3>1, <3>2 DEF Joins
  <2> HIDE DEF v
  <2>4. \A q \in Pages : join'[q] = IF q = p THEN v ELSE join[q]
    BY <1>1, <2>1
  <2>5. \A q \in Pages : \A S : Comes(q, S)' => Comes(q, S) \/ (q = p /\ Whole(S)')
    BY <1>5, <2>2, <2>3, <2>4 DEF Comes
  <2>6. \A q \in Pages : q # p => (Live(q)' => Live(q))
    BY <1>2, <1>5, <2>4 DEF Live, Comes
  <2>7. \A q \in Pages : Live(q)' \/ join'[q].pc = "read" => q \in room'
    BY <1>1, <1>5, <2>4, <2>6 DEF InRoom
  <2>8. Tells(NoEvent)
    BY <1>5, SilentTells
  <2> QED BY <1>3, <1>5, <2>5, <2>7, <2>8
<1>6. CASE /\ join[p].pc = "tell" /\ UNCHANGED room
           /\ ToClient(p, TRUE, [kind |-> "history", snap |-> join[p].snap])
           /\ join' = [join EXCEPT ![p] = Asleep]
  <2> DEFINE e == [kind |-> "history", snap |-> join[p].snap]
  <2>1. Tells(e)
    BY <1>6 DEF Tells
  <2>2. e.snap = join[p].snap
    OBVIOUS
  <2> HIDE DEF e
  <2>3. \A q \in Pages : join'[q] = IF q = p THEN Asleep ELSE join[q]
    BY <1>1, <1>6
  <2>4. inbox' = [inbox EXCEPT ![p] = Append(@, e)]
    BY <1>6, Zenon DEF ToClient, e
  <2>5. inbox \in [Pages -> Seq(Events)]
    BY <1>1 DEF KInv, KTypes
  <2>6. \A q \in Pages : \A j \in 1..Len(inbox'[q]) :
           (j \in 1..Len(inbox[q]) /\ inbox'[q][j] = inbox[q][j]) \/ (q = p /\ inbox'[q][j] = e)
    <3>1. \A q \in Pages : q # p => inbox'[q] = inbox[q]
      BY <2>4, <2>5
    <3> QED BY <1>1, <2>1, <3>1, BoxGrows
  <2>7. \A q \in Pages : \A S : Comes(q, S)' => Comes(q, S)
    BY <1>6, <2>2, <2>3, <2>6, AsleepTypes DEF Comes
  <2>8. \A q \in Pages : Live(q)' \/ join'[q].pc = "read" => q \in room'
    BY <1>1, <1>2, <1>6, <2>3, <2>7, AsleepTypes DEF InRoom, Live
  <2> QED BY <1>3, <1>6, <2>1, <2>7, <2>8
<1> QED BY <1>2, <1>4, <1>5, <1>6, Zenon DEF JoinRoom

-----------------------------------------------------------------------------
(* The page again. *)

\* What a step of the page p may do to the rows it shows.
Agrees(p, i) == \/ Right(p, i)'
                \/ shown'[p][i] = shown[p][i] /\ (Right(p, i) => Right(p, i)')
\* The history S has come.
Came(p, S) ==
    /\ Comes(p, S) /\ since'[p] = Reaches(S)
    /\ \A i \in Ids : Right(p, i)' \/ (S[i] = None /\ shown[p][i] = None)

LEMMA PageViews ==
    ASSUME VInv, NEW p \in Pages, UNCHANGED <<db, born, join, room>>,
           \A q \in Pages : q # p =>
              /\ since'[q] = since[q] /\ inbox'[q] = inbox[q]
              /\ \A i \in Ids : shown'[q][i] = shown[q][i] /\ (Right(q, i) => Right(q, i)'),
           \A S : Comes(p, S)' => Comes(p, S),
           \A i \in Ids : Agrees(p, i),
           since'[p] = since[p] \/ \E S : Came(p, S)
    PROVE  ViewInv' /\ HistInv' /\ InRoom'
<1>1. ViewInv /\ HistInv /\ InRoom
  BY DEF VInv
<1>2. \A q \in Pages : \A S : Comes(q, S)' => Comes(q, S)
  <2>1. ASSUME NEW q \in Pages, q # p, NEW S, Comes(q, S)' PROVE Comes(q, S)
    BY <2>1 DEF Comes
  <2> QED BY <2>1
<1>3. \A S : Reaches(S)' = Reaches(S)
  BY DEF Reaches, Has
<1>4. \A q \in Pages : \A i \in Ids : Agrees(q, i)
  BY DEF Agrees
<1>5. ASSUME NEW q \in Pages, NEW S, Comes(q, S)', NEW i \in Ids, S[i] = None,
             db'[i] # None, shown'[q][i] = None, born'[i] >= Reaches(S)'
      PROVE  Right(q, i)'
  <2>1. CASE shown'[q][i] = shown[q][i] /\ (Right(q, i) => Right(q, i)')
    BY <1>1, <1>2, <1>3, <1>5, <2>1 DEF HistInv
  <2> QED BY <1>4, <2>1 DEF Agrees
<1>6. HistInv'
  BY <1>5 DEF HistInv
<1>7. ASSUME NEW q \in Pages, since'[q] # None, NEW i \in Ids, born'[i] >= since'[q]
      PROVE  Right(q, i)'
  <2>1. CASE since'[q] = since[q]
    <3>1. Right(q, i)
      BY <1>1, <1>7, <2>1 DEF ViewInv
    <3> QED BY <1>4, <3>1 DEF Agrees
  <2>2. ASSUME q = p, NEW S, Came(p, S) PROVE Right(q, i)'
    <3>1. Right(p, i)' \/ (S[i] = None /\ shown[p][i] = None)
      BY <2>2 DEF Came
    <3>2. CASE S[i] = None /\ shown[p][i] = None
      <4>1. CASE db[i] = None
        <5>1. shown[p][i] = db[i]
          BY <3>2, <4>1
        <5>2. Right(p, i)
          BY <5>1 DEF Right
        <5> QED BY <1>4, <2>2, <5>2 DEF Agrees
      <4>2. CASE db[i] # None
        <5>1. Comes(p, S) /\ born[i] >= Reaches(S)
          BY <1>7, <2>2 DEF Came
        <5>2. Right(p, i)
          BY <1>1, <3>2, <4>2, <5>1 DEF HistInv
        <5> QED BY <1>4, <2>2, <5>2 DEF Agrees
      <4> QED BY <4>1, <4>2
    <3> QED BY <2>2, <3>1, <3>2
  <2> QED BY <2>1, <2>2
<1>8. ViewInv'
  BY <1>7 DEF ViewInv
<1>9. InRoom'
  <2>1. ASSUME NEW q \in Pages, Live(q)' PROVE q \in room
    <3>1. CASE since'[q] = since[q]
      BY <1>1, <1>2, <2>1, <3>1 DEF InRoom, Live
    <3>2. ASSUME q = p, NEW S, Came(p, S) PROVE q \in room
      BY <1>1, <3>2 DEF InRoom, Live, Came
    <3> QED BY <3>1, <3>2
  <2> QED BY <1>1, <2>1 DEF InRoom
<1> QED BY <1>6, <1>8, <1>9

\* The rows that an answer to the page does not touch.
LEMMA SameRight ==
    ASSUME NEW p \in Pages, NEW i, UNCHANGED <<db, send, change>>,
           shown'[p][i] = shown[p][i], i \in stale[p] => i \in stale'[p],
           Waits(inbox[p], i, shown[p][i]) => Waits(inbox'[p], i, shown[p][i])
    PROVE  Right(p, i) => Right(p, i)'
BY MoreTold DEF Right

LEMMA ApplyV ==
    ASSUME VInv, NEW p \in Pages, NEW S \in Values, Apply(p, S), UNCHANGED <<db, send, change>>,
           \A i, m : Waits(inbox[p], i, m) => Waits(inbox'[p], i, m)
    PROVE  /\ \A q \in Pages : q # p => shown'[q] = shown[q] /\ stale'[q] = stale[q]
           /\ \A i \in Ids : Agrees(p, i)
           /\ \A i \in Ids : Right(p, i)' \/ (S[i] = None /\ shown[p][i] = None)
<1> DEFINE new == {i \in Ids : Overtaken(p, S, i) \/ (i \in stale[p] /\ ~Covers(S, i))}
<1>1. /\ shown' = [shown EXCEPT ![p] = [i \in Ids |->
              IF i \in Kept(p, S) THEN shown[p][i] ELSE S[i]]]
      /\ stale' = [stale EXCEPT ![p] = new]
  BY Zenon DEF Apply
<1>2. PTypes
  BY DEF VInv, BInv
<1>3. /\ \A q \in Pages : q # p => shown'[q] = shown[q] /\ stale'[q] = stale[q]
      /\ \A i \in Ids : shown'[p][i] = IF i \in Kept(p, S) THEN shown[p][i] ELSE S[i]
      /\ stale'[p] = new
  BY <1>1, <1>2 DEF PTypes
<1>4. ASSUME NEW i \in Ids
      PROVE  \/ Right(p, i)'
             \/ /\ shown'[p][i] = shown[p][i] /\ (Right(p, i) => Right(p, i)')
                /\ S[i] = None /\ shown[p][i] = None
  <2>1. CASE i \in Has(S)
    <3>1. i \notin Kept(p, S)
      BY <2>1 DEF Kept
    <3>2. shown'[p][i] = S[i] /\ (S[i] # db[i] => i \in stale'[p])
      BY <1>3, <2>1, <3>1 DEF Overtaken
    <3> QED BY <3>2, MoreTold
  <2>2. CASE i \in Kept(p, S)
    <3>1. shown'[p][i] = shown[p][i] /\ (shown[p][i] # db[i] => i \in stale'[p])
      BY <1>3, <2>2 DEF Overtaken, Kept
    <3> QED BY <3>1, MoreTold
  <2>3. CASE i \notin Has(S) /\ i \notin Kept(p, S)
    <3>1. shown'[p][i] = None /\ S[i] = None
      BY <1>3, <2>3 DEF Has
    <3>2. CASE Covers(S, i)
      <4>1. db[i] # None => i \in stale'[p]
        BY <1>3, <2>3, <3>2 DEF Overtaken
      <4> QED BY <3>1, <4>1, MoreTold
    <3>3. CASE ~Covers(S, i)
      <4>1. shown[p][i] = None
        BY <2>3, <3>3 DEF Kept, Covers, Has
      <4>2. i \in stale[p] => i \in stale'[p]
        BY <1>3, <3>3
      <4> QED BY <3>1, <4>1, <4>2, SameRight
    <3> QED BY <3>2, <3>3
  <2> QED BY <2>1, <2>2, <2>3
<1> QED BY <1>3, <1>4 DEF Agrees

LEMMA FetchedV ==
    ASSUME VInv, NEW p \in Pages, Fetched(p)
    PROVE  ViewInv' /\ HistInv' /\ InRoom'
<1> DEFINE s == fetch[p].snap
           extra == {i \in Has(s) \ Has(shown[p]) : p \in link}
<1>1. UNCHANGED <<room, db, born, send, change, join, inbox, since>>
  BY DEF Fetched, server
<1>2. PTypes /\ s \in Values
  BY DEF VInv, BInv, KInv, KTypes, Fetches
<1>3. \/ Apply(p, s)
      \/ /\ shown' = [shown EXCEPT ![p] = [i \in Ids |->
                IF i \in extra THEN s[i] ELSE shown[p][i]]]
         /\ stale' = [stale EXCEPT ![p] =
                (@ \ extra) \cup {i \in extra : s[i] # db[i]}]
  BY Zenon DEF Fetched
<1>4. /\ \A q \in Pages : q # p => shown'[q] = shown[q] /\ stale'[q] = stale[q]
      /\ \A i \in Ids : Agrees(p, i)
  <2>1. CASE Apply(p, s)
    <3> HIDE DEF s
    <3> QED BY <1>1, <1>2, <2>1, ApplyV
  <2>2. CASE /\ shown' = [shown EXCEPT ![p] = [i \in Ids |->
                    IF i \in extra THEN s[i] ELSE shown[p][i]]]
             /\ stale' = [stale EXCEPT ![p] =
                    (@ \ extra) \cup {i \in extra : s[i] # db[i]}]
    <3> HIDE DEF extra, s
    <3>1. /\ \A q \in Pages : q # p => shown'[q] = shown[q] /\ stale'[q] = stale[q]
          /\ \A i \in Ids : shown'[p][i] = IF i \in extra THEN s[i] ELSE shown[p][i]
          /\ stale'[p] = (stale[p] \ extra) \cup {i \in extra : s[i] # db[i]}
      BY <1>2, <2>2 DEF PTypes
    <3>2. ASSUME NEW i \in Ids PROVE Agrees(p, i)
      <4>1. CASE i \in extra
        BY <1>1, <3>1, <4>1, MoreTold DEF Agrees
      <4>2. CASE i \notin extra
        BY <1>1, <3>1, <4>2, SameRight DEF Agrees
      <4> QED BY <4>1, <4>2
    <3> QED BY <3>1, <3>2
  <2> QED BY <1>3, <2>1, <2>2
<1>5. \A q \in Pages : q # p => \A i \in Ids :
         shown'[q][i] = shown[q][i] /\ (Right(q, i) => Right(q, i)')
  BY <1>1, <1>4, SameRight
<1>6. \A S : Comes(p, S)' => Comes(p, S)
  BY <1>1 DEF Comes
<1> QED BY <1>1, <1>4, <1>5, <1>6, PageViews

\* The rest of an inbox still holds the words that are about other rows.
LEMMA TailWaits ==
    ASSUME KInv, NEW p \in Pages, inbox[p] # <<>>
    PROVE  /\ \A i, m : Waits(inbox[p], i, m) /\ ~Counts(Head(inbox[p]), i, m)
                           => Waits(Tail(inbox[p]), i, m)
           /\ \A j \in 1..Len(Tail(inbox[p])) :
                 j + 1 \in 1..Len(inbox[p]) /\ Tail(inbox[p])[j] = inbox[p][j + 1]
<1> DEFINE s == inbox[p]
           t == Tail(s)
<1>1. s \in Seq(Events) /\ Len(s) \in Nat /\ s # <<>>
  BY DEF KInv, KTypes
<1>2. /\ Head(s) = s[1] /\ Len(t) = Len(s) - 1
      /\ \A j \in 1..Len(t) : t[j] = s[j + 1]
  BY <1>1
<1> HIDE DEF s, t
<1>3. \A j \in 1..Len(t) : j + 1 \in 1..Len(s) /\ t[j] = s[j + 1]
  BY <1>1, <1>2
<1>4. ASSUME NEW i, NEW m, NEW j \in 1..Len(s), Counts(s[j], i, m), ~Counts(s[1], i, m)
      PROVE  Waits(t, i, m)
  <2>1. j # 1
    BY <1>4
  <2>2. j - 1 \in 1..Len(t) /\ t[j - 1] = s[j]
    BY <1>1, <1>2, <2>1
  <2> QED BY <1>4, <2>2 DEF Waits
<1> QED BY <1>2, <1>3, <1>4 DEF Waits, s, t

\* An event that is about one row.
LEMMA HeardV ==
    ASSUME VInv, NEW p \in Pages, UNCHANGED <<db, send, change>>, NEW e \in Events,
           \/ e.kind = "new" /\ OnNew(p, e)
           \/ e.kind \in {"gone", "edit"} /\ OnChange(p, e),
           \A i, m : Waits(inbox[p], i, m) /\ ~Counts(e, i, m) => Waits(inbox'[p], i, m)
    PROVE  /\ \A q \in Pages : q # p => shown'[q] = shown[q] /\ stale'[q] = stale[q]
           /\ since' = since /\ \A i \in Ids : Agrees(p, i)
<1> DEFINE x == e.id
           b == IF e.kind = "gone" THEN None ELSE e.body
<1>1. PTypes /\ b \in Int
  BY DEF VInv, BInv, Events, None
<1>2. \/ /\ UNCHANGED <<shown, stale, since>>
         /\ e.kind = "new" => shown[p][x] # None
         /\ e.kind = "edit" => shown[p][x] = None
         /\ e.kind # "gone"
      \/ /\ shown' = Put(shown, p, x, b) /\ since' = since
         /\ stale' = [stale EXCEPT ![p] = IF db[x] # b THEN @ \cup {x} ELSE @ \ {x}]
  BY DEF OnNew, OnChange, Heard, Put, page
<1> HIDE DEF x, b
<1>3. CASE /\ UNCHANGED <<shown, stale, since>>
           /\ e.kind = "new" => shown[p][x] # None
           /\ e.kind = "edit" => shown[p][x] = None
           /\ e.kind # "gone"
  <2>1. ASSUME NEW i \in Ids PROVE Agrees(p, i)
    <3>1. ~Counts(e, i, shown[p][i])
      BY <1>3 DEF Counts, x
    <3> QED BY <1>3, <3>1, SameRight DEF Agrees
  <2> QED BY <1>3, <2>1
<1>4. CASE /\ shown' = Put(shown, p, x, b) /\ since' = since
           /\ stale' = [stale EXCEPT ![p] = IF db[x] # b THEN @ \cup {x} ELSE @ \ {x}]
  <2>1. /\ \A q \in Pages : q # p => shown'[q] = shown[q]
        /\ \A i \in Ids : shown'[p][i] = IF i = x THEN b ELSE shown[p][i]
    BY <1>1, <1>4, SetRow DEF PTypes
  <2>2. /\ \A q \in Pages : q # p => stale'[q] = stale[q]
        /\ stale'[p] = IF db[x] # b THEN stale[p] \cup {x} ELSE stale[p] \ {x}
    BY <1>1, <1>4 DEF PTypes
  <2>3. ASSUME NEW i \in Ids PROVE Agrees(p, i)
    <3>1. CASE i = x
      BY <2>1, <2>2, <3>1, MoreTold DEF Agrees
    <3>2. CASE i # x
      <4>1. ~Counts(e, i, shown[p][i])
        BY <3>2 DEF Counts, x
      <4> QED BY <2>1, <2>2, <3>2, <4>1, SameRight DEF Agrees
    <3> QED BY <3>1, <3>2
  <2> QED BY <1>4, <2>1, <2>2, <2>3
<1> QED BY <1>2, <1>3, <1>4

LEMMA HandleV ==
    ASSUME VInv, NEW p \in Pages, Handle(p)
    PROVE  ViewInv' /\ HistInv' /\ InRoom'
<1> DEFINE e == Head(inbox[p])
<1>1. /\ KInv /\ PTypes /\ inbox \in [Pages -> Seq(Events)]
  BY DEF VInv, BInv, KInv, KTypes
<1>2. /\ inbox[p] # <<>> /\ inbox' = [inbox EXCEPT ![p] = Tail(@)]
      /\ UNCHANGED <<room, db, born, send, change, join>>
      /\ \/ e.kind = "new" /\ OnNew(p, e)
         \/ e.kind \in {"gone", "edit"} /\ OnChange(p, e)
         \/ /\ e.kind = "history" /\ Apply(p, e.snap)
            /\ since' = [since EXCEPT ![p] = Reaches(e.snap)]
  BY DEF Handle, server
<1>3. e \in Events /\ e = inbox[p][1] /\ 1 \in 1..Len(inbox[p])
  BY <1>1, <1>2, HeadGood
<1>4. inbox'[p] = Tail(inbox[p]) /\ \A q \in Pages : q # p => inbox'[q] = inbox[q]
  BY <1>1, <1>2
<1>5. \A i, m : Waits(inbox[p], i, m) /\ ~Counts(e, i, m) => Waits(inbox'[p], i, m)
  BY <1>1, <1>2, <1>4, TailWaits
<1>6. \A S : Comes(p, S)' => Comes(p, S)
  <2>1. \A j \in 1..Len(inbox'[p]) : j + 1 \in 1..Len(inbox[p]) /\ inbox'[p][j] = inbox[p][j + 1]
    BY <1>1, <1>2, <1>4, TailWaits
  <2> QED BY <1>2, <2>1 DEF Comes
<1> HIDE DEF e
<1>7. ASSUME \A q \in Pages : q # p => shown'[q] = shown[q] /\ stale'[q] = stale[q] /\ since'[q] = since[q],
             \A i \in Ids : Agrees(p, i), since'[p] = since[p] \/ \E S : Came(p, S)
      PROVE  ViewInv' /\ HistInv' /\ InRoom'
  <2>1. \A q \in Pages : q # p =>
           /\ since'[q] = since[q] /\ inbox'[q] = inbox[q]
           /\ \A i \in Ids : shown'[q][i] = shown[q][i] /\ (Right(q, i) => Right(q, i)')
    BY <1>2, <1>4, <1>7, SameRight
  <2> QED BY <1>2, <1>6, <1>7, <2>1, PageViews
<1>8. CASE \/ e.kind = "new" /\ OnNew(p, e)
           \/ e.kind \in {"gone", "edit"} /\ OnChange(p, e)
  <2>1. /\ \A q \in Pages : q # p => shown'[q] = shown[q] /\ stale'[q] = stale[q]
        /\ since' = since /\ \A i \in Ids : Agrees(p, i)
    <3>1. UNCHANGED <<db, send, change>> /\ e \in Events
      BY <1>2, <1>3
    <3> QED BY <1>5, <1>8, <3>1, HeardV
  <2> QED BY <1>7, <2>1
<1>9. CASE /\ e.kind = "history" /\ Apply(p, e.snap)
           /\ since' = [since EXCEPT ![p] = Reaches(e.snap)]
  <2>1. e.snap \in Values
    BY <1>3, <1>9 DEF Events
  <2>2. \A i, m : Waits(inbox[p], i, m) => Waits(inbox'[p], i, m)
    BY <1>5, <1>9 DEF Counts
  <2>3. /\ \A q \in Pages : q # p => shown'[q] = shown[q] /\ stale'[q] = stale[q]
        /\ \A i \in Ids : Agrees(p, i)
        /\ \A i \in Ids : Right(p, i)' \/ (e.snap[i] = None /\ shown[p][i] = None)
    BY <1>2, <1>9, <2>1, <2>2, ApplyV
  <2>4. /\ \A q \in Pages : q # p => since'[q] = since[q]
        /\ since'[p] = Reaches(e.snap)
    BY <1>1, <1>9 DEF PTypes
  <2>5. Comes(p, e.snap)
    BY <1>3, <1>9 DEF Comes
  <2>6. Came(p, e.snap)
    BY <2>3, <2>4, <2>5 DEF Came
  <2> QED BY <1>7, <2>3, <2>4, <2>6
<1> QED BY <1>2, <1>8, <1>9

LEMMA NextV == ASSUME VInv, [Next]_vars PROVE VInv'
<1>1. BInv /\ KInv /\ link \subseteq Pages /\ Borns
  BY DEF VInv, BInv
<1>2. BInv' /\ link' \subseteq Pages /\ KInv' /\ Grown
  BY <1>1, NextB, LinkNext, NextInv, NextGrown
<1>3. Borns'
  <2>1. clock \in Nat
    BY <1>1 DEF KInv, KTypes
  <2>2. \A i \in Ids : born'[i] = born[i] \/ born'[i] = None \/ born'[i] = clock
    BY <1>2 DEF Grown
  <2> QED BY <1>1, <2>1, <2>2 DEF Borns
<1>4. ASSUME NEW a \in Attempts,
             SendAsk(a) \/ SendInsert(a) \/ SendTell(a) \/ SendFails(a)
      PROVE  ViewInv' /\ HistInv' /\ InRoom'
  BY <1>2, <1>4, SendAskV, SendInsertV, SendTellV, SendFailsV
<1>5. ASSUME NEW t \in Texts,
             Write(t) \/ WriteElsewhere(t) \/ TimeOut(t) \/ Retry(t) \/ Dismiss(t)
      PROVE  ViewInv' /\ HistInv' /\ InRoom'
  BY <1>2, <1>5, TextV
<1>6. ASSUME NEW c \in Clients,
             \/ ChangeRow(c) \/ ChangeTell(c) \/ ChangeFails(c)
             \/ \E i \in Ids, pc \in {"edit", "delete"} : Change(c, i, pc)
      PROVE  ViewInv' /\ HistInv' /\ InRoom'
  BY <1>2, <1>6, ChangeRowV, ChangeTellV, ChangesV
<1>7. ASSUME NEW p \in Pages,
             \/ JoinStep(p) \/ JoinFails(p) \/ FetchRead(p) \/ Handle(p)
             \/ Fetched(p) \/ Connect(p) \/ Disconnect(p) \/ Leave(p)
             \/ Renew(p) \/ \E pc \in {"page", "older"} : Fetch(p, pc)
      PROVE  ViewInv' /\ HistInv' /\ InRoom'
  BY <1>2, <1>7, JoinStepV, ConnectV, FetchesV, HandleV, FetchedV, BreakV
<1>8. ASSUME UNCHANGED vars PROVE ViewInv' /\ HistInv' /\ InRoom'
  <2>1. UNCHANGED <<shown, since, stale, join, room, inbox, db, change, send>>
    BY <1>8 DEF vars, server, page
  <2> QED BY <1>2, <2>1, QuietV
<1>9. ViewInv' /\ HistInv' /\ InRoom'
  BY <1>4, <1>5, <1>6, <1>7, <1>8, Zenon DEF Next
<1> QED BY <1>2, <1>3, <1>9 DEF VInv

LEMMA InitV == Init => VInv
<1> SUFFICES ASSUME Init PROVE VInv
  OBVIOUS
<1>1. BInv /\ link \subseteq Pages
  BY InitB
<1>2. \A p \in Pages : since[p] = None /\ join[p].pc = "no" /\ Len(inbox[p]) = 0
  BY AsleepTypes DEF Init
<1>3. \A p \in Pages : \A S : ~Comes(p, S)
  BY <1>2 DEF Comes
<1>4. ViewInv /\ HistInv /\ InRoom
  BY <1>2, <1>3 DEF ViewInv, HistInv, InRoom, Live
<1>5. born = Blank \/ born = AtFirst
  BY DEF Init
<1>6. Borns
  BY <1>5, AsleepTypes DEF Borns, AtFirst, Values
<1> QED BY <1>1, <1>4, <1>6 DEF VInv

\* A page that has its history and to which nothing is on its way shows the room
\* as it is, as far as the history reaches, but for the rows of which it was last
\* told by what was over.  A row that the page shows otherwise is one that somebody
\* will tell it of, because the page was in the room before its history was read:
\* joinRoom enters it first (joinRoom, onRoomHistory, reconcileMessages).
THEOREM RoomIsShown == Spec => []ShowsTheRoom
<1>1. VInv => ShowsTheRoom
  <2> SUFFICES ASSUME VInv, NEW p \in Pages, since[p] # None, Calm(p),
                      NEW i \in Ids \ stale[p], Settled(i), born[i] >= since[p]
               PROVE  shown[p][i] = db[i]
    BY DEF ShowsTheRoom
  <2>1. Right(p, i)
    BY DEF VInv, ViewInv
  <2>2. ~Waits(inbox[p], i, shown[p][i])
    BY DEF Calm, Waits
  <2>3. ~ToTell(send, change, i, shown[p][i])
    BY DEF Settled, ToTell
  <2> QED BY <2>1, <2>2, <2>3 DEF Right
<1> QED BY <1>1, InitV, NextV, PTL DEF Spec
=============================================================================
