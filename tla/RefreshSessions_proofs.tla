----------------------- MODULE RefreshSessions_proofs -----------------------
(***************************************************************************)
(* What holds of RefreshSessions for any number of calls, any grace and any *)
(* lifetime.  The inductive invariant says what a call between its rotation *)
(* and the insertion of the new row knows; every action is shown to be      *)
(* harmless, or to keep one conjunct for a reason of its own.               *)
(***************************************************************************)
EXTENDS RefreshSessions, TLAPS

Issuing(c, t) == At(c, "refresh", "issue") /\ call[c].token = t
IssuingNext(c, t) == At(c, "refresh", "issue")' /\ call'[c].token = t

\* The strengthening: what is not issued yet is blank; a call between its
\* rotation and the new row is the only one for its token, whose session is
\* not live and has no successor, and was not ended by a logout.
Blank == \A t \in Tokens : t > issued => /\ row[t].state = "none"
                                         /\ parent[t] = NoToken
KnownTokens == /\ cookie <= issued
               /\ \A c \in Calls : call[c].token <= issued
               /\ \A t \in Tokens : parent[t] <= issued
               /\ \A t \in ended : t <= issued
OneIssuer == \A c \in Calls : At(c, "refresh", "issue") =>
                /\ call[c].token # NoToken
                /\ row[call[c].token].state # "live"
                /\ call[c].token \notin ended
                /\ \A u \in Tokens : parent[u] # call[c].token
                /\ \A d \in Calls : Issuing(d, call[c].token) => d = c
InRefresh == {"swept", "graceUser", "liveUser", "drop", "dropAll",
              "rotate", "reread", "issue"}
HasToken == \A c \in Calls :
               \/ call[c].kind = "refresh" /\ call[c].pc \in InRefresh
               \/ call[c].pc = "set"
               => call[c].token # NoToken

-----------------------------------------------------------------------------
(* Types. *)

LEMMA TokenNumbers == /\ MaxCalls \in Nat /\ MaxTime \in Nat
                      /\ Grace \in Nat /\ Ttl \in Nat
                      /\ NoToken = 0
                      /\ \A t : t \in Tokens <=> t \in Int /\ 1 <= t /\ t <= MaxCalls
                      /\ \A t : t \in Time <=> t \in Int /\ 0 <= t /\ t <= MaxTime
  BY BoundAssumption, TimeAssumption DEF NoToken, Tokens, Time

\* A step of a call inside its handler changes where it is and nothing else.
LEMMA GotoFields ==
  ASSUME call \in [Calls -> Call], NEW c \in Calls, NEW p \in PCs, Goto(c, p)
  PROVE  /\ call' \in [Calls -> Call]
         /\ call'[c].pc = p
         /\ \A d \in Calls : /\ call'[d].kind = call[d].kind
                             /\ call'[d].token = call[d].token
                             /\ call'[d].barred = call[d].barred
                             /\ d # c => call'[d].pc = call[d].pc
<1>1. call' = [call EXCEPT ![c] = [call[c] EXCEPT !.pc = p]]
  BY DEF Goto
<1>2. call[c] \in Call
  OBVIOUS
<1>3. [call[c] EXCEPT !.pc = p] \in Call
  BY <1>2 DEF Call
<1>4. call' \in [Calls -> Call]
  BY <1>1, <1>3
<1>5. /\ call'[c].pc = p /\ call'[c].kind = call[c].kind
      /\ call'[c].token = call[c].token /\ call'[c].barred = call[c].barred
  BY <1>1, <1>2 DEF Call
<1>6. \A d \in Calls : d # c => call'[d] = call[d]
  BY <1>1
<1> QED
  BY <1>4, <1>5, <1>6

\* Which steps are there, and what each leaves alone.
LEMMA RowTypes ==
  ASSUME row \in [Tokens -> Row], clock \in Time, NEW t \in Tokens
  PROVE  /\ Deleted(row[t]) \in Row /\ Deleted(row[t]).state = "none"
         /\ Revoked(row[t]) \in Row /\ Revoked(row[t]).state = "revoked"
         /\ [state |-> "live", expiresAt |-> clock + Ttl, revokedAt |-> 0] \in Row
<1>1. row[t] \in Row
  OBVIOUS
<1>2. /\ clock \in Int /\ 0 <= clock /\ clock <= MaxTime /\ 0 \in Time
      /\ clock + Ttl \in 0..(MaxTime + Ttl)
  BY TokenNumbers
<1>3. Deleted(row[t]) \in Row /\ Deleted(row[t]).state = "none"
  BY <1>1, <1>2 DEF Deleted, Row
<1>4. Revoked(row[t]) \in Row /\ Revoked(row[t]).state = "revoked"
  BY <1>1, <1>2 DEF Revoked, Row
<1>5. [state |-> "live", expiresAt |-> clock + Ttl, revokedAt |-> 0] \in Row
  BY <1>2 DEF Row
<1> QED
  BY <1>3, <1>4, <1>5

LEMMA StartTypes == /\ NoRow \in Row /\ Idle \in Call
                    /\ NoRow.state = "none" /\ Idle.kind = "login"
                    /\ Idle.pc = "idle" /\ Idle.token = NoToken
<1>1. 0 \in Time /\ 0 \in 0..(MaxTime + Ttl)
  BY TokenNumbers
<1> QED
  BY <1>1 DEF NoRow, Row, Idle, Call, Kinds, PCs

\* A step inside the handler of refresh keeps the types, if the table of
\* sessions stays one.
LEMMA HandlerTypes ==
  ASSUME TypeOK, NEW c \in Calls, NEW p \in PCs, Goto(c, p),
         row' \in [Tokens -> Row],
         UNCHANGED <<cookie, isActive, clock, started, issued, history>>
  PROVE  TypeOK'
<1>1. call' \in [Calls -> Call]
  BY GotoFields DEF TypeOK
<1> QED
  BY <1>1 DEF TypeOK, history

LEMMA InitTypes == Init => TypeOK
<1> SUFFICES ASSUME Init PROVE TypeOK
  OBVIOUS
<1>1. row \in [Tokens -> Row] /\ call \in [Calls -> Call]
  BY StartTypes DEF Init
<1>2. /\ clock \in Time /\ started \in 0..MaxCalls /\ issued \in 0..MaxCalls
      /\ parent \in [Tokens -> Tokens \cup {NoToken}]
  BY TokenNumbers DEF Init
<1> QED
  BY <1>1, <1>2 DEF Init, TypeOK

LEMMA RefreshTypes ==
  ASSUME TypeOK, NEW c \in Calls, Refresh(c)
  PROVE  TypeOK'
<1>r. row \in [Tokens -> Row] /\ clock \in Time /\ call[c].token \in Tokens \cup {NoToken}
  BY DEF TypeOK, Call
<1>p. /\ {"kept", "swept", "cleared", "drop", "graceUser", "liveUser"} \subseteq PCs
      /\ {"dropAll", "rotate", "reread", "issue"} \subseteq PCs
  BY DEF PCs
<1>1. CASE NoCookie(c)
  BY <1>1, <1>p, <1>r, HandlerTypes DEF NoCookie
<1>2. CASE Sweep(c)
  <2>1. row' \in [Tokens -> Row]
    BY <1>2, <1>r, RowTypes DEF Sweep
  <2> QED
    BY <1>2, <1>p, <2>1, HandlerTypes DEF Sweep
<1>3. CASE Find(c)
  <2>1. PICK p \in PCs : Goto(c, p)
    BY <1>3, <1>p DEF Find
  <2> QED
    BY <1>3, <1>r, <2>1, HandlerTypes DEF Find
<1>4. CASE Drop(c)
  <2>1. row' \in [Tokens -> Row]
    BY <1>4, <1>r, RowTypes DEF Drop
  <2> QED
    BY <1>4, <1>p, <2>1, HandlerTypes DEF Drop
<1>5. CASE GraceUser(c)
  <2>1. PICK p \in PCs : Goto(c, p)
    BY <1>5, <1>p DEF GraceUser
  <2> QED
    BY <1>5, <1>r, <2>1, HandlerTypes DEF GraceUser
<1>6. CASE LiveUser(c)
  <2>1. PICK p \in PCs : Goto(c, p)
    BY <1>6, <1>p DEF LiveUser
  <2> QED
    BY <1>6, <1>r, <2>1, HandlerTypes DEF LiveUser
<1>7. CASE DropAll(c)
  <2>1. row' \in [Tokens -> Row]
    BY <1>7, <1>r, RowTypes DEF DropAll
  <2> QED
    BY <1>7, <1>p, <2>1, HandlerTypes DEF DropAll
<1>8. CASE Rotate(c)
  <2>1. row' \in [Tokens -> Row]
    BY <1>8, <1>r, RowTypes DEF Rotate
  <2>2. PICK p \in PCs : Goto(c, p)
    BY <1>8, <1>p DEF Rotate
  <2> QED
    BY <1>8, <2>1, <2>2, HandlerTypes DEF Rotate
<1>9. CASE Reread(c)
  <2>1. PICK p \in PCs : Goto(c, p)
    BY <1>9, <1>p DEF Reread
  <2> QED
    BY <1>9, <1>r, <2>1, HandlerTypes DEF Reread
<1> QED
  BY <1>1, <1>2, <1>3, <1>4, <1>5, <1>6, <1>7, <1>8, <1>9 DEF Refresh

LEMMA UnheardTypes ==
  ASSUME TypeOK, HasToken, NEW c \in Calls
  PROVE  Unheard(c) \subseteq Tokens \cup {NoToken}
<1>1. /\ call[c].token \in Tokens \cup {NoToken}
      /\ parent \in [Tokens -> Tokens \cup {NoToken}]
  BY DEF TypeOK, Call
<1>2. CASE call[c].pc = "set"
  <2>1. parent[call[c].token] \in Tokens \cup {NoToken}
    BY <1>1, <1>2 DEF HasToken
  <2> QED
    BY <1>2, <2>1 DEF Unheard
<1>3. CASE call[c].pc # "set"
  BY <1>1, <1>3 DEF Unheard
<1> QED
  BY <1>2, <1>3

LEMMA CallTypes ==
  ASSUME TypeOK, HasToken, NEW c \in Calls,
         \/ \E kind \in Kinds : Send(c, kind)
         \/ Accept(c) \/ Issue(c) \/ LogoutDelete(c) \/ Deliver(c) \/ Lose(c)
  PROVE  TypeOK'
<1>r. /\ row \in [Tokens -> Row] /\ clock \in Time /\ call \in [Calls -> Call]
      /\ call[c] \in Call /\ call[c].token \in Tokens \cup {NoToken}
      /\ issued \in 0..MaxCalls /\ started \in 0..MaxCalls
      /\ parent \in [Tokens -> Tokens \cup {NoToken}]
      /\ cookie \in Tokens \cup {NoToken}
      /\ ended \subseteq out /\ out \subseteq Tokens /\ dropped \subseteq Tokens
      /\ slow \in BOOLEAN /\ isActive \in BOOLEAN
  BY DEF TypeOK, Call
<1>1. ASSUME NEW kind \in Kinds, Send(c, kind)
      PROVE  TypeOK'
  <2>1. [kind |-> kind, pc |-> "sent", token |-> cookie,
         sentAt |-> clock, barred |-> ~isActive] \in Call
    BY <1>r DEF Call, PCs
  <2>2. call' \in [Calls -> Call]
    BY <1>1, <1>r, <2>1 DEF Send
  <2>3. started' \in 0..MaxCalls
    BY <1>1, <1>r, TokenNumbers DEF Send
  <2> QED
    BY <1>1, <1>r, <2>2, <2>3 DEF Send, TypeOK, history
<1>2. CASE Accept(c)
  BY <1>2, <1>r, HandlerTypes DEF Accept, PCs
<1>3. CASE Issue(c)
  <2>1. issued + 1 \in Tokens /\ issued' \in 0..MaxCalls
    BY <1>3, <1>r, TokenNumbers DEF Issue
  <2>2. row' \in [Tokens -> Row]
    BY <1>3, <1>r, <2>1, RowTypes DEF Issue
  <2>3. parent' \in [Tokens -> Tokens \cup {NoToken}]
    BY <1>3, <1>r, <2>1 DEF Issue
  <2>4. call' \in [Calls -> Call]
    <3>1. [[call[c] EXCEPT !.pc = "set"] EXCEPT !.token = issued + 1] \in Call
      BY <1>r, <2>1 DEF Call, PCs
    <3>2. call' = [call EXCEPT ![c] = [[call[c] EXCEPT !.pc = "set"]
                                          EXCEPT !.token = issued + 1]]
      BY <1>3, <1>r DEF Issue
    <3> QED
      BY <1>r, <3>1, <3>2
  <2> QED
    BY <1>3, <1>r, <2>1, <2>2, <2>3, <2>4 DEF Issue, TypeOK
<1>4. CASE LogoutDelete(c)
  <2>1. row' \in [Tokens -> Row]
    BY <1>4, <1>r, RowTypes DEF LogoutDelete
  <2>2. call' \in [Calls -> Call]
    BY <1>4, <1>r, GotoFields DEF LogoutDelete, PCs
  <2>3. ended' \subseteq out' /\ out' \subseteq Tokens
    BY <1>4, <1>r DEF LogoutDelete
  <2> QED
    BY <1>4, <1>r, <2>1, <2>2, <2>3 DEF LogoutDelete, TypeOK
<1>5. CASE Deliver(c)
  <2>1. cookie' \in Tokens \cup {NoToken}
    BY <1>5, <1>r DEF Deliver, Answered
  <2>2. call' \in [Calls -> Call]
    BY <1>5, <1>r, StartTypes DEF Deliver
  <2> QED
    BY <1>5, <1>r, <2>1, <2>2 DEF Deliver, TypeOK, history
<1>6. CASE Lose(c)
  <2>1. Unheard(c) \subseteq Tokens \cup {NoToken}
    BY <1>r, UnheardTypes
  <2>2. call' \in [Calls -> Call]
    BY <1>6, <1>r, StartTypes DEF Lose
  <2> QED
    BY <1>6, <1>r, <2>1, <2>2 DEF Lose, TypeOK
<1> QED
  BY <1>1, <1>2, <1>3, <1>4, <1>5, <1>6

LEMMA WorldTypes ==
  ASSUME TypeOK, HasToken, Crash \/ Deactivate \/ Tick
  PROVE  TypeOK'
<1>r. /\ call \in [Calls -> Call] /\ clock \in Time /\ slow \in BOOLEAN
      /\ row \in [Tokens -> Row] /\ dropped \subseteq Tokens
      /\ parent \in [Tokens -> Tokens \cup {NoToken}]
  BY DEF TypeOK
<1>1. CASE Crash
  <2> DEFINE working == {c \in Open : ~Answered(c)}
  <2>1. working \subseteq Calls
    BY DEF Open
  <2>2. UNION {Unheard(c) : c \in working} \subseteq Tokens \cup {NoToken}
    BY <2>1, UnheardTypes
  <2>3. dropped' = (dropped \cup UNION {Unheard(c) : c \in working}) \ {NoToken}
    BY <1>1 DEF Crash
  <2>4. dropped' \subseteq Tokens
    BY <1>r, <2>2, <2>3
  <2>5. call' \in [Calls -> Call]
    BY <1>1, <1>r, StartTypes DEF Crash
  <2> HIDE DEF working
  <2> QED
    BY <1>1, <2>4, <2>5 DEF Crash, TypeOK
<1>2. CASE Deactivate
  BY <1>2 DEF Deactivate, TypeOK, history
<1>3. CASE Tick
  <2>1. clock' \in Time
    BY <1>3, <1>r, TokenNumbers DEF Tick
  <2>2. slow' \in BOOLEAN
    BY <1>3, <1>r DEF Tick
  <2> QED
    BY <1>3, <2>1, <2>2 DEF Tick, TypeOK
<1> QED
  BY <1>1, <1>2, <1>3

-----------------------------------------------------------------------------
(* Rotation. *)

Core == Blank /\ KnownTokens /\ OneIssuer /\ RotatedOnce /\ LogoutIsFinal

\* What most steps have in common: no session comes to life, nothing new is
\* issued, and no call gets past its rotation.
Tame == /\ UNCHANGED <<issued, parent, ended>>
        /\ \A t \in Tokens : /\ row'[t].state = "live" => row[t].state = "live"
                             /\ row[t].state = "none" => row'[t].state = "none"
        /\ cookie' <= issued
        /\ \A c \in Calls : /\ call'[c].token <= issued
                            /\ At(c, "refresh", "issue")' =>
                                  At(c, "refresh", "issue")
                                  /\ call'[c].token = call[c].token

LEMMA TameStep ==
  ASSUME TypeOK, Core, Tame
  PROVE  Core'
<1>r. /\ \A c \in Calls : call[c].token \in Tokens \cup {NoToken}
      /\ parent \in [Tokens -> Tokens \cup {NoToken}]
      /\ ended \subseteq Tokens
  BY DEF TypeOK, Call
<1>1. Blank' /\ KnownTokens'
  BY DEF Core, Tame, Blank, KnownTokens
<1>2. OneIssuer'
  BY <1>r DEF Core, Tame, OneIssuer, Issuing
<1>3. RotatedOnce' /\ LogoutIsFinal'
  BY <1>r DEF Core, Tame, RotatedOnce, LogoutIsFinal
<1> QED
  BY <1>1, <1>2, <1>3 DEF Core

\* A step inside the handler that only takes sessions away is tame.
LEMMA HandlerTame ==
  ASSUME TypeOK, Core, NEW c \in Calls, NEW p \in PCs \ {"issue"}, Goto(c, p),
         \A t \in Tokens : row'[t] = row[t] \/ row'[t] = Deleted(row[t]),
         UNCHANGED <<cookie, issued, parent, ended>>
  PROVE  Tame
<1>1. \A d \in Calls : /\ call'[d].token = call[d].token
                       /\ call'[d].kind = call[d].kind
                       /\ d # c => call'[d].pc = call[d].pc
                       /\ call'[c].pc # "issue"
  BY GotoFields DEF TypeOK
<1>2. \A d \in Calls : At(d, "refresh", "issue")' => At(d, "refresh", "issue")
  BY <1>1 DEF At
<1>3. \A t \in Tokens : Deleted(row[t]).state = "none"
  BY DEF Deleted
<1> QED
  BY <1>1, <1>2, <1>3 DEF Tame, Core, KnownTokens

LEMMA RotateCore ==
  ASSUME TypeOK, Core, HasToken, NEW c \in Calls, Rotate(c)
  PROVE  Core'
<1> DEFINE t == call[c].token
<1>r. /\ \A d \in Calls : call[d].token \in Tokens \cup {NoToken}
      /\ parent \in [Tokens -> Tokens \cup {NoToken}]
      /\ ended \subseteq Tokens
      /\ row \in [Tokens -> Row]
      /\ t \in Tokens
  BY DEF TypeOK, Call, HasToken, InRefresh, Rotate, At
<1>1. CASE row[t].state # "live"
  <2>1. Goto(c, "reread") /\ UNCHANGED row
    BY <1>1 DEF Rotate
  <2>2. Tame
    BY <1>1, <2>1, HandlerTame DEF Rotate, history, PCs
  <2> QED
    BY <2>2, TameStep
<1>2. CASE row[t].state = "live"
  <2>1. /\ Goto(c, "issue") /\ At(c, "refresh", "rotate")
        /\ row' = [row EXCEPT ![t] = Revoked(@)]
        /\ UNCHANGED <<cookie, issued, parent, out, ended>>
    BY <1>2 DEF Rotate, history
  <2>2. \A d \in Calls : /\ call'[d].token = call[d].token
                         /\ call'[d].kind = call[d].kind
                         /\ d # c => call'[d].pc = call[d].pc
    BY <2>1, GotoFields DEF TypeOK, PCs
  <2>3. /\ \A u \in Tokens : u # t => row'[u] = row[u]
        /\ row'[t].state = "revoked"
    BY <1>r, <2>1 DEF Revoked
  <2>4. Blank' /\ KnownTokens'
    BY <1>r, <1>2, <2>1, <2>2, <2>3 DEF Core, Blank, KnownTokens
  <2>5. RotatedOnce' /\ LogoutIsFinal'
    BY <1>r, <1>2, <2>1, <2>3 DEF Core, RotatedOnce, LogoutIsFinal
  <2>6. OneIssuer'
    <3> SUFFICES ASSUME NEW d \in Calls, At(d, "refresh", "issue")'
                 PROVE  /\ call'[d].token # NoToken
                        /\ row'[call'[d].token].state # "live"
                        /\ call'[d].token \notin ended'
                        /\ \A u \in Tokens : parent'[u] # call'[d].token
                        /\ \A e \in Calls : IssuingNext(e, call'[d].token) => e = d
      BY DEF OneIssuer, Issuing, IssuingNext
    \* nobody issues for t before: its session is live
    <3>1. \A e \in Calls : At(e, "refresh", "issue") => call[e].token # t
      BY <1>2 DEF Core, OneIssuer
    <3>2. CASE d = c
      <4>1. \A u \in Tokens : parent[u] # t
        BY <1>2, <1>r DEF Core, RotatedOnce, NoToken, Tokens
      <4>2. t \notin ended
        BY <1>2, <1>r DEF Core, LogoutIsFinal
      <4>3. \A e \in Calls : IssuingNext(e, t) => e = c
        BY <2>2, <3>1 DEF Issuing, IssuingNext, At
      <4> QED
        BY <1>r, <2>1, <2>2, <2>3, <3>2, <4>1, <4>2, <4>3 DEF NoToken, Tokens
    <3>3. CASE d # c
      <4>1. At(d, "refresh", "issue") /\ call[d].token # t
        BY <2>2, <3>1, <3>3 DEF At
      <4>2. \A e \in Calls : IssuingNext(e, call[d].token) => Issuing(e, call[d].token)
        BY <2>2, <4>1 DEF Issuing, IssuingNext, At
      <4> QED
        BY <1>r, <2>1, <2>2, <2>3, <4>1, <4>2 DEF Core, OneIssuer
    <3> QED
      BY <3>2, <3>3
  <2> QED
    BY <2>4, <2>5, <2>6 DEF Core
<1> QED
  BY <1>1, <1>2

LEMMA RefreshCore ==
  ASSUME TypeOK, Core, HasToken, NEW c \in Calls, Refresh(c)
  PROVE  Core'
<1>p. /\ {"kept", "swept", "cleared", "drop", "graceUser", "liveUser"} \subseteq PCs \ {"issue"}
      /\ {"dropAll", "rotate", "reread"} \subseteq PCs \ {"issue"}
  BY DEF PCs
<1>r. row \in [Tokens -> Row]
  BY DEF TypeOK
<1>1. ASSUME NoCookie(c) \/ Find(c) \/ GraceUser(c) \/ LiveUser(c) \/ Reread(c)
      PROVE  Core'
  <2>1. PICK p \in PCs \ {"issue"} : Goto(c, p)
    BY <1>1, <1>p DEF NoCookie, Find, GraceUser, LiveUser, Reread
  <2>2. UNCHANGED <<row, cookie, issued, parent, ended>>
    BY <1>1 DEF NoCookie, Find, GraceUser, LiveUser, Reread, history
  <2>3. Tame
    BY <2>1, <2>2, HandlerTame
  <2> QED
    BY <2>3, TameStep
<1>2. ASSUME Sweep(c) \/ Drop(c) \/ DropAll(c)
      PROVE  Core'
  <2>1. PICK p \in PCs \ {"issue"} : Goto(c, p)
    BY <1>2, <1>p DEF Sweep, Drop, DropAll
  <2>2. UNCHANGED <<cookie, issued, parent, ended>>
    BY <1>2 DEF Sweep, Drop, DropAll, history
  <2>3. \A t \in Tokens : row'[t] = row[t] \/ row'[t] = Deleted(row[t])
    BY <1>2, <1>r DEF Sweep, Drop, DropAll
  <2>4. Tame
    BY <2>1, <2>2, <2>3, HandlerTame
  <2> QED
    BY <2>4, TameStep
<1> QED
  BY <1>1, <1>2, RotateCore DEF Refresh

LEMMA IssueCore ==
  ASSUME TypeOK, Core, HasToken, NEW c \in Calls, Issue(c)
  PROVE  Core'
<1> DEFINE new == issued + 1
           origin == IF call[c].kind = "refresh" THEN call[c].token ELSE NoToken
<1>r. /\ \A d \in Calls : call[d].token \in Tokens \cup {NoToken}
      /\ call \in [Calls -> Call] /\ call[c] \in Call
      /\ parent \in [Tokens -> Tokens \cup {NoToken}]
      /\ ended \subseteq Tokens /\ row \in [Tokens -> Row]
      /\ issued \in Int /\ 0 <= issued /\ cookie \in Int
      /\ new \in Tokens /\ new # NoToken /\ new > issued
      /\ new \in Int /\ issued <= new
  BY TokenNumbers DEF TypeOK, Call, Issue
<1>1. /\ issued' = new
      /\ parent' = [parent EXCEPT ![new] = origin]
      /\ UNCHANGED <<cookie, ended>>
      /\ \A t \in Tokens : t # new => row'[t] = row[t] /\ parent'[t] = parent[t]
      /\ row'[new].state = "live" /\ parent'[new] = origin
  BY <1>r DEF Issue
<1>2. /\ call'[c].pc = "set" /\ call'[c].token = new
      /\ \A d \in Calls : d # c => call'[d] = call[d]
  BY <1>r DEF Issue, Call
<1>3. call[c].pc = "issue"
  BY DEF Issue
\* the new token occurs nowhere yet
<1>4. /\ row[new].state = "none" /\ parent[new] = NoToken /\ new \notin ended
      /\ \A t \in Tokens : parent[t] # new
      /\ \A d \in Calls : call[d].token # new
      /\ \A t \in Tokens : parent[t] \in Int /\ parent[t] <= issued
      /\ \A d \in Calls : call[d].token \in Int /\ call[d].token <= issued
      /\ \A t \in ended : t \in Int /\ t <= issued
      /\ cookie <= issued
  BY <1>r, TokenNumbers DEF Core, Blank, KnownTokens
\* the rotated session is dead and has had no successor
<1>5. origin # NoToken => /\ row[origin].state # "live" /\ origin \notin ended
                          /\ origin \in Tokens
                          /\ \A t \in Tokens : parent[t] # origin
                          /\ \A d \in Calls : Issuing(d, origin) => d = c
  BY <1>3, <1>r DEF Core, OneIssuer, At
<1>6. origin \in Int /\ origin <= issued /\ origin # new
  BY <1>4, <1>r DEF NoToken
<1> HIDE DEF new, origin
<1>7. Blank'
  <2>1. \A t \in Tokens : t > new => t > issued /\ t # new
    BY <1>r DEF Tokens
  <2> QED
    BY <1>1, <2>1 DEF Core, Blank
<1>8. KnownTokens'
  <2>1. \A d \in Calls : call'[d].token <= new
    BY <1>2, <1>4, <1>r
  <2>2. \A t \in Tokens : parent'[t] <= new
    BY <1>1, <1>4, <1>6, <1>r
  <2>3. \A t \in ended : t <= new
    BY <1>4, <1>r
  <2>4. cookie <= new
    BY <1>4, <1>r
  <2> QED
    BY <1>1, <2>1, <2>2, <2>3, <2>4 DEF KnownTokens
<1>9. RotatedOnce'
  <2> SUFFICES ASSUME NEW u \in Tokens, NEW v \in Tokens, parent'[u] # NoToken
               PROVE  /\ parent'[u] = parent'[v] => u = v
                      /\ row'[parent'[u]].state # "live"
    BY DEF RotatedOnce
  <2>1. CASE u # new
    <3>1. parent'[u] = parent[u] /\ parent[u] # new /\ parent[u] \in Tokens
      BY <1>1, <1>4, <1>r, <2>1
    <3>2. row'[parent'[u]].state # "live"
      BY <1>1, <3>1 DEF Core, RotatedOnce
    <3>3. parent'[u] = parent'[v] => u = v
      BY <1>1, <1>5, <3>1 DEF Core, RotatedOnce
    <3> QED
      BY <3>2, <3>3
  <2>2. CASE u = new
    <3>1. parent'[u] = origin /\ origin # NoToken
      BY <1>1, <2>2
    <3>2. row'[origin].state # "live"
      BY <1>1, <1>5, <1>6, <3>1
    <3>3. v # new => parent'[v] # origin
      BY <1>1, <1>5, <3>1
    <3> QED
      BY <2>2, <3>1, <3>2, <3>3
  <2> QED
    BY <2>1, <2>2
<1>10. LogoutIsFinal'
  <2> SUFFICES ASSUME NEW t \in ended
               PROVE  /\ row'[t].state = "none"
                      /\ \A u \in Tokens : parent'[u] # t
    BY <1>1 DEF LogoutIsFinal
  <2>1. row'[t].state = "none" /\ t \in Tokens /\ t # NoToken
    BY <1>1, <1>4, <1>r, TokenNumbers DEF Core, LogoutIsFinal
  <2>2. \A u \in Tokens : parent'[u] # t
    BY <1>1, <1>5, <2>1 DEF Core, LogoutIsFinal
  <2> QED
    BY <2>1, <2>2
<1>11. OneIssuer'
  <2> SUFFICES ASSUME NEW d \in Calls, At(d, "refresh", "issue")'
               PROVE  /\ call'[d].token # NoToken
                      /\ row'[call'[d].token].state # "live"
                      /\ call'[d].token \notin ended'
                      /\ \A u \in Tokens : parent'[u] # call'[d].token
                      /\ \A e \in Calls : IssuingNext(e, call'[d].token) => e = d
    BY DEF OneIssuer, Issuing, IssuingNext
  <2>1. d # c
    BY <1>2 DEF At
  <2>2. At(d, "refresh", "issue") /\ call'[d].token = call[d].token
    BY <1>2, <2>1 DEF At
  <2>3. call[d].token \in Tokens /\ call[d].token # new
    BY <1>4, <1>r, <2>2 DEF Core, OneIssuer
  <2>4. origin # call[d].token
    BY <1>5, <2>1, <2>2, <2>3, TokenNumbers DEF Issuing
  <2>5. \A e \in Calls : IssuingNext(e, call[d].token) => Issuing(e, call[d].token)
    BY <1>2 DEF Issuing, IssuingNext, At
  <2>6. \A u \in Tokens : parent'[u] # call[d].token
    BY <1>1, <2>2, <2>4 DEF Core, OneIssuer
  <2> QED
    BY <1>1, <2>2, <2>3, <2>5, <2>6 DEF Core, OneIssuer
<1> QED
  BY <1>7, <1>8, <1>9, <1>10, <1>11 DEF Core

LEMMA LogoutCore ==
  ASSUME TypeOK, Core, NEW c \in Calls, LogoutDelete(c)
  PROVE  Core'
<1> DEFINE t == call[c].token
<1>r. /\ \A d \in Calls : call[d].token \in Tokens \cup {NoToken}
      /\ parent \in [Tokens -> Tokens \cup {NoToken}]
      /\ ended \subseteq Tokens /\ row \in [Tokens -> Row]
  BY DEF TypeOK, Call
<1>1. /\ Goto(c, "cleared")
      /\ \A u \in Tokens : row'[u] = row[u] \/ row'[u] = Deleted(row[u])
      /\ t \in Tokens => row'[t] = Deleted(row[t])
      /\ UNCHANGED <<cookie, issued, parent>>
      /\ ended' = ended \cup {u \in {t} \ {NoToken} : row[u].state = "live"}
  <2>1. row' = [u \in Tokens |-> IF u = t THEN Deleted(row[u]) ELSE row[u]]
    BY DEF LogoutDelete
  <2>2. \A u \in Tokens : row'[u] = row[u] \/ row'[u] = Deleted(row[u])
    BY <2>1
  <2>3. t \in Tokens => row'[t] = Deleted(row[t])
    BY <2>1
  <2> QED
    BY <2>2, <2>3 DEF LogoutDelete
<1>2. \A d \in Calls : /\ call'[d].token = call[d].token
                       /\ At(d, "refresh", "issue")' => At(d, "refresh", "issue")
  BY <1>1, GotoFields DEF At, PCs, TypeOK
<1>3. \A u \in Tokens : row'[u].state = row[u].state \/ row'[u].state = "none"
  <2>1. \A u \in Tokens : Deleted(row[u]).state = "none"
    BY DEF Deleted
  <2> QED
    BY <1>1, <2>1
<1>4. Blank' /\ KnownTokens'
  BY <1>1, <1>2, <1>3, <1>r DEF Core, Blank, KnownTokens
<1>5. RotatedOnce'
  BY <1>1, <1>3, <1>r DEF Core, RotatedOnce
<1>6. LogoutIsFinal'
  <2>1. ASSUME NEW u \in ended', u \notin ended
        PROVE  row'[u].state = "none" /\ \A v \in Tokens : parent'[v] # u
    <3>1. u = t /\ t \in Tokens /\ row[t].state = "live"
      BY <1>1, <1>r, <2>1
    <3>2. \A v \in Tokens : parent[v] # u
      BY <3>1, TokenNumbers DEF Core, RotatedOnce
    <3> QED
      BY <1>1, <3>1, <3>2 DEF Deleted
  <2>2. ASSUME NEW u \in ended
        PROVE  row'[u].state = "none" /\ \A v \in Tokens : parent'[v] # u
    BY <1>1, <1>3, <1>r DEF Core, LogoutIsFinal
  <2> QED
    BY <2>1, <2>2 DEF LogoutIsFinal
<1>7. OneIssuer'
  <2>1. ASSUME NEW d \in Calls, At(d, "refresh", "issue")
        PROVE  call[d].token \notin ended'
    BY <1>1, <2>1, <1>r DEF Core, OneIssuer
  <2>2. ASSUME NEW d \in Calls, At(d, "refresh", "issue")
        PROVE  row'[call[d].token].state # "live"
    BY <1>3, <2>2, <1>r DEF Core, OneIssuer
  <2>3. ASSUME NEW d \in Calls, NEW e \in Calls, At(d, "refresh", "issue"),
               IssuingNext(e, call[d].token)
        PROVE  e = d
    <3>1. Issuing(e, call[d].token)
      BY <1>2, <2>3 DEF Issuing, IssuingNext
    <3> QED
      BY <2>3, <3>1 DEF Core, OneIssuer
  <2> QED
    BY <1>1, <1>2, <2>1, <2>2, <2>3 DEF Core, OneIssuer, Issuing, IssuingNext
<1> QED
  BY <1>4, <1>5, <1>6, <1>7 DEF Core

LEMMA CallCore ==
  ASSUME TypeOK, Core, HasToken, NEW c \in Calls,
         \/ \E kind \in Kinds : Send(c, kind)
         \/ Accept(c) \/ Deliver(c) \/ Lose(c)
  PROVE  Core'
<1>r. /\ call \in [Calls -> Call] /\ call[c] \in Call
      /\ \A d \in Calls : call[d].token <= issued
      /\ cookie <= issued /\ issued \in Int /\ 0 <= issued
  BY TokenNumbers DEF TypeOK, Core, KnownTokens
<1>1. ASSUME NEW kind \in Kinds, Send(c, kind)
      PROVE  Tame
  <2>1. /\ call'[c].pc = "sent" /\ call'[c].token = cookie
        /\ \A d \in Calls : d # c => call'[d] = call[d]
    BY <1>1, <1>r DEF Send
  <2>2. UNCHANGED <<row, cookie, issued, parent, ended>>
    BY <1>1 DEF Send, history
  <2> QED
    BY <1>r, <2>1, <2>2 DEF Tame, At
<1>2. CASE Accept(c)
  <2>1. Goto(c, "issue") /\ At(c, "login", "sent")
        /\ UNCHANGED <<row, cookie, issued, parent, ended>>
    BY <1>2 DEF Accept, history
  <2>2. \A d \in Calls : /\ call'[d].token = call[d].token
                         /\ call'[d].kind = call[d].kind
                         /\ d # c => call'[d].pc = call[d].pc
    BY <1>r, <2>1, GotoFields DEF PCs
  <2>3. Tame
    BY <1>r, <2>1, <2>2 DEF Tame, At
  <2> QED
    BY <2>3, TameStep
<1>3. CASE Deliver(c)
  <2>1. /\ call'[c] = Idle
        /\ \A d \in Calls : d # c => call'[d] = call[d]
    BY <1>3, <1>r DEF Deliver
  <2>2. /\ UNCHANGED <<row, issued, parent, ended>>
        /\ cookie' \in {cookie, NoToken, call[c].token}
    BY <1>3 DEF Deliver, Answered, history
  <2>3. Tame
    BY <1>r, <2>1, <2>2, StartTypes, TokenNumbers DEF Tame, At
  <2> QED
    BY <2>3, TameStep
<1>4. CASE Lose(c)
  <2>1. /\ call'[c] = Idle
        /\ \A d \in Calls : d # c => call'[d] = call[d]
    BY <1>4, <1>r DEF Lose
  <2>2. UNCHANGED <<row, cookie, issued, parent, ended>>
    BY <1>4 DEF Lose
  <2>3. Tame
    BY <1>r, <2>1, <2>2, StartTypes, TokenNumbers DEF Tame, At
  <2> QED
    BY <2>3, TameStep
<1> QED
  BY <1>1, <1>2, <1>3, <1>4, TameStep

LEMMA WorldCore ==
  ASSUME TypeOK, Core, Crash \/ Deactivate \/ Tick
  PROVE  Core'
<1>r. /\ call \in [Calls -> Call]
      /\ \A d \in Calls : call[d].token <= issued
      /\ cookie <= issued /\ issued \in Int /\ 0 <= issued
  BY TokenNumbers DEF TypeOK, Core, KnownTokens
<1>1. UNCHANGED <<row, cookie, issued, parent, ended>>
  BY DEF Crash, Deactivate, Tick, history
<1>2. \A d \in Calls : call'[d] = call[d] \/ call'[d] = Idle
  BY <1>r DEF Crash, Deactivate, Tick
<1>3. Tame
  BY <1>r, <1>1, <1>2, StartTypes, TokenNumbers DEF Tame, At
<1> QED
  BY <1>3, TameStep

-----------------------------------------------------------------------------
(* A disabled account, and the calls that carry a token. *)

Barred == /\ DisabledGetsNothing
          /\ \A c \in Calls : call[c].barred =>
                /\ ~isActive
                /\ At(c, "refresh", "reread") => call[c].token = NoToken

\* A step of the handler that stays clear of the places a refresh reaches only
\* with a token, or only for an active user.
LEMMA Carried ==
  ASSUME TypeOK, HasToken, Barred, NEW c \in Calls, NEW p \in PCs, Goto(c, p),
         p \in InRefresh \cup {"set"} =>
            call[c].token # NoToken \/ (p = "issue" /\ call[c].kind = "login"),
         p \in {"rotate", "reread", "issue", "set", "kept"}
            /\ call[c].kind = "refresh" /\ call[c].barred => call[c].token = NoToken,
         UNCHANGED isActive
  PROVE  HasToken' /\ Barred'
<1>1. /\ call'[c].pc = p
      /\ \A d \in Calls : /\ call'[d].kind = call[d].kind
                          /\ call'[d].token = call[d].token
                          /\ call'[d].barred = call[d].barred
                          /\ d # c => call'[d].pc = call[d].pc
  BY GotoFields DEF TypeOK
<1>2. HasToken'
  BY <1>1 DEF HasToken, InRefresh
<1>3. Barred'
  BY <1>1 DEF Barred, DisabledGetsNothing, At
<1> QED
  BY <1>2, <1>3

LEMMA RefreshCarried ==
  ASSUME TypeOK, HasToken, Barred, NEW c \in Calls, Refresh(c)
  PROVE  HasToken' /\ Barred'
<1>r. call[c].token \in Tokens \cup {NoToken} /\ UNCHANGED isActive
  BY DEF TypeOK, Call, Refresh, NoCookie, Sweep, Find, Drop, GraceUser, LiveUser,
         DropAll, Rotate, Reread
<1>b. call[c].barred => ~isActive
  BY DEF Barred
<1>1. CASE NoCookie(c)
  BY <1>1, <1>r, Carried DEF NoCookie, PCs, InRefresh
<1>2. CASE Sweep(c)
  BY <1>2, <1>r, Carried DEF Sweep, PCs
<1>3. ASSUME Find(c) \/ Drop(c) \/ DropAll(c)
      PROVE  HasToken' /\ Barred'
  <2>1. PICK p \in {"cleared", "drop", "graceUser", "liveUser"} : Goto(c, p)
    BY <1>3 DEF Find, Drop, DropAll
  <2>2. call[c].token # NoToken
    BY <1>3 DEF Find, Drop, DropAll, At, HasToken, InRefresh
  <2> QED
    BY <1>r, <2>1, <2>2, Carried DEF PCs
<1>4. CASE GraceUser(c)
  <2>1. call[c].token # NoToken
    BY <1>4 DEF GraceUser, At, HasToken, InRefresh
  <2> QED
    BY <1>4, <1>r, <1>b, <2>1, Carried DEF GraceUser, PCs
<1>5. CASE LiveUser(c)
  <2>1. call[c].token # NoToken
    BY <1>5 DEF LiveUser, At, HasToken, InRefresh
  <2> QED
    BY <1>5, <1>r, <1>b, <2>1, Carried DEF LiveUser, PCs
<1>6. CASE Rotate(c)
  <2>1. call[c].token # NoToken /\ ~call[c].barred
    BY <1>6 DEF Rotate, At, HasToken, InRefresh, Barred, DisabledGetsNothing
  <2>2. PICK p \in {"issue", "reread"} : Goto(c, p)
    BY <1>6 DEF Rotate
  <2> QED
    BY <1>r, <2>1, <2>2, Carried DEF PCs
<1>7. CASE Reread(c)
  <2>1. call[c].token # NoToken /\ ~call[c].barred
    BY <1>7 DEF Reread, At, HasToken, InRefresh, Barred
  <2>2. PICK p \in {"kept", "cleared"} : Goto(c, p)
    BY <1>7 DEF Reread
  <2> QED
    BY <1>r, <2>1, <2>2, Carried DEF PCs
<1> QED
  BY <1>1, <1>2, <1>3, <1>4, <1>5, <1>6, <1>7 DEF Refresh

LEMMA CallCarried ==
  ASSUME TypeOK, HasToken, Barred, NEW c \in Calls,
         \/ \E kind \in Kinds : Send(c, kind)
         \/ Accept(c) \/ Issue(c) \/ LogoutDelete(c) \/ Deliver(c) \/ Lose(c)
  PROVE  HasToken' /\ Barred'
<1>r. /\ call \in [Calls -> Call] /\ call[c] \in Call
      /\ isActive \in BOOLEAN /\ issued \in 0..MaxCalls
  BY DEF TypeOK
<1>1. ASSUME NEW kind \in Kinds, Send(c, kind)
      PROVE  HasToken' /\ Barred'
  <2>1. /\ call'[c].pc = "sent" /\ call'[c].barred = ~isActive
        /\ \A d \in Calls : d # c => call'[d] = call[d]
        /\ isActive' = isActive
    BY <1>1, <1>r DEF Send
  <2> QED
    BY <2>1 DEF HasToken, InRefresh, Barred, DisabledGetsNothing, At
<1>2. CASE Accept(c)
  BY <1>2, Carried DEF Accept, At, PCs, InRefresh
<1>3. CASE Issue(c)
  <2>1. /\ call'[c].pc = "set" /\ call'[c].token = issued + 1
        /\ call'[c].barred = call[c].barred /\ call'[c].kind = call[c].kind
        /\ \A d \in Calls : d # c => call'[d] = call[d]
        /\ isActive' = isActive /\ call[c].pc = "issue"
    BY <1>3, <1>r DEF Issue, Call
  <2>2. issued + 1 # NoToken
    BY <1>r, TokenNumbers
  <2>3. call[c].kind = "refresh" => ~call[c].barred
    BY <2>1 DEF Barred, DisabledGetsNothing, HasToken, InRefresh
  <2> QED
    BY <2>1, <2>2, <2>3 DEF HasToken, InRefresh, Barred, DisabledGetsNothing, At
<1>4. CASE LogoutDelete(c)
  BY <1>4, Carried DEF LogoutDelete, PCs, InRefresh, At
<1>5. ASSUME Deliver(c) \/ Lose(c)
      PROVE  HasToken' /\ Barred'
  <2>1. /\ call'[c] = Idle
        /\ \A d \in Calls : d # c => call'[d] = call[d]
        /\ isActive' = isActive
    BY <1>5, <1>r DEF Deliver, Lose
  <2>2. ~Idle.barred /\ Idle.pc = "idle"
    BY DEF Idle
  <2> QED
    BY <2>1, <2>2 DEF HasToken, InRefresh, Barred, DisabledGetsNothing, At
<1> QED
  BY <1>1, <1>2, <1>3, <1>4, <1>5

LEMMA WorldCarried ==
  ASSUME TypeOK, HasToken, Barred, Crash \/ Deactivate \/ Tick
  PROVE  HasToken' /\ Barred'
<1>1. \A d \in Calls : call'[d] = call[d] \/ call'[d] = Idle
  BY DEF Crash, Deactivate, Tick, TypeOK
<1>2. ~Idle.barred /\ Idle.pc = "idle"
  BY DEF Idle
<1>3. ~isActive => ~isActive'
  BY DEF Crash, Deactivate, Tick
<1> QED
  BY <1>1, <1>2, <1>3 DEF HasToken, InRefresh, Barred, DisabledGetsNothing, At

-----------------------------------------------------------------------------
(* The invariant, and the theorems. *)

IInv == TypeOK /\ Core /\ HasToken /\ Barred

LEMMA InitHolds == Init => IInv
<1> SUFFICES ASSUME Init PROVE IInv
  OBVIOUS
<1>1. /\ \A t \in Tokens : row[t] = NoRow /\ parent[t] = NoToken
      /\ \A c \in Calls : call[c] = Idle
      /\ cookie = NoToken /\ issued = 0 /\ ended = {} /\ isActive = TRUE
  BY DEF Init
<1>2. Core
  BY <1>1, StartTypes, TokenNumbers
     DEF Core, Blank, KnownTokens, OneIssuer, RotatedOnce, LogoutIsFinal, At
<1>3. HasToken /\ Barred
  BY <1>1, StartTypes
     DEF HasToken, InRefresh, Barred, DisabledGetsNothing, Idle, At
<1> QED
  BY <1>2, <1>3, InitTypes DEF IInv

LEMMA StepHolds == IInv /\ [Next]_vars => IInv'
<1> SUFFICES ASSUME IInv, [Next]_vars PROVE IInv'
  OBVIOUS
<1>1. TypeOK /\ Core /\ HasToken /\ Barred
  BY DEF IInv
<1>2. ASSUME NEW c \in Calls,
             \/ \E kind \in Kinds : Send(c, kind)
             \/ Accept(c) \/ Issue(c) \/ LogoutDelete(c) \/ Deliver(c) \/ Lose(c)
      PROVE  IInv'
  BY <1>1, <1>2, CallTypes, CallCore, IssueCore, LogoutCore, CallCarried DEF IInv
<1>3. ASSUME NEW c \in Calls, Refresh(c)
      PROVE  IInv'
  BY <1>1, <1>3, RefreshTypes, RefreshCore, RefreshCarried DEF IInv
<1>4. CASE Crash \/ Deactivate \/ Tick
  BY <1>1, <1>4, WorldTypes, WorldCore, WorldCarried DEF IInv
<1>5. CASE UNCHANGED vars
  <2>1. UNCHANGED <<row, cookie, call, isActive, clock, started, issued,
                    parent, out, ended, dropped, slow>>
    BY <1>5 DEF vars, history
  <2>2. TypeOK'
    BY <1>1, <2>1 DEF TypeOK
  <2>3. Core'
    <3>1. Tame
      BY <1>1, <2>1 DEF Tame, Core, KnownTokens, At
    <3> QED
      BY <1>1, <3>1, TameStep
  <2>4. HasToken' /\ Barred'
    BY <1>1, <2>1 DEF HasToken, Barred, DisabledGetsNothing, At
  <2> QED
    BY <2>2, <2>3, <2>4 DEF IInv
<1> QED
  BY <1>2, <1>3, <1>4, <1>5 DEF Next, Kinds

LEMMA Invariance == Spec => []IInv
  BY InitHolds, StepHolds, PTL DEF Spec

\* Every variable keeps its type.
THEOREM TypeCorrect == Spec => []TypeOK
<1>1. IInv => TypeOK
  BY DEF IInv
<1> QED
  BY <1>1, Invariance, PTL

\* However many refreshes race for a session, one of them rotates it.
THEOREM SessionRotatedOnce == Spec => []RotatedOnce
<1>1. IInv => RotatedOnce
  BY DEF IInv, Core
<1> QED
  BY <1>1, Invariance, PTL

\* No refresh in flight outlives a logout that found its session live.
THEOREM LogoutEndsSession == Spec => []LogoutIsFinal
<1>1. IInv => LogoutIsFinal
  BY DEF IInv, Core
<1> QED
  BY <1>1, Invariance, PTL

\* A refresh sent for a disabled account brings no token, replayed or new.
THEOREM DisabledIsRefused == Spec => []DisabledGetsNothing
<1>1. IInv => DisabledGetsNothing
  BY DEF IInv, Barred
<1> QED
  BY <1>1, Invariance, PTL

-----------------------------------------------------------------------------
(* Refusals.  While no call is slow, the browser's cookie is the last token    *)
(* or its rotation is still being answered: a refresh that is not slow comes   *)
(* within the grace of that rotation, and finds the session there.             *)

Reason(t) == slow \/ ~isActive \/ t \in out \cup dropped \/ Expired(t)

\* A refresh that will be judged by the session of t.
Carrying == {"sent", "swept", "graceUser", "liveUser", "rotate", "reread"}
Carries(c, t) == /\ call[c].kind = "refresh" /\ call[c].pc \in Carrying
                 /\ call[c].token = t

\* The call that has rotated t and is not answered yet.
Rotator(c, t) == \/ At(c, "refresh", "issue") /\ call[c].token = t
                 \/ call[c].pc = "set" /\ parent[call[c].token] = t

OnTime == /\ \A c \in Calls : call[c].sentAt <= clock
          /\ ~slow => \A c \in Calls :
                call[c].pc # "idle" => 2 * (clock - call[c].sentAt) <= Grace

\* Nobody has a token that is only on its way to the browser.
Unread == \A c \in Calls : call[c].pc = "set" =>
             /\ cookie # call[c].token
             /\ \A d \in Calls \ {c} : call[d].token # call[c].token
             /\ row[call[c].token].state = "live" \/ ~isActive

Awaited == \A t \in Tokens :
              cookie = t /\ row[t].state = "revoked" =>
                 \/ Reason(t)
                 \/ \E c \in Calls : Rotator(c, t) /\ call[c].sentAt <= row[t].revokedAt

Timely == \A c \in Calls, t \in Tokens :
             Carries(c, t) /\ row[t].state = "revoked" =>
                \/ Reason(t)
                \/ 2 * call[c].sentAt <= 2 * row[t].revokedAt + Grace

Present == \A t \in Tokens :
              row[t].state = "none" =>
                 Reason(t) \/ (cookie # t /\ \A c \in Calls : ~Carries(c, t))

Justified == \A c \in Calls : call[c].kind = "refresh" =>
                /\ call[c].pc \in {"drop", "cleared"} =>
                      call[c].token # NoToken /\ Reason(call[c].token)
                /\ call[c].pc = "dropAll" => ~isActive
                /\ call[c].pc = "reread" => row[call[c].token].state # "live"

Refusals == OnTime /\ Unread /\ Awaited /\ Timely /\ Present /\ Justified

LEMMA Ages ==
  ASSUME TypeOK
  PROVE  /\ clock \in Nat /\ Grace \in Nat
         /\ row \in [Tokens -> Row] /\ call \in [Calls -> Call]
         /\ \A t \in Tokens : row[t].revokedAt \in Nat /\ row[t].expiresAt \in Nat
         /\ \A c \in Calls : /\ call[c].sentAt \in Nat
                             /\ call[c].token \in Tokens \cup {NoToken}
         /\ NoToken \notin Tokens
<1>1. Time \subseteq Nat /\ 0..(MaxTime + Ttl) \subseteq Nat
  BY TokenNumbers
<1>2. \A t \in Tokens : row[t].revokedAt \in Nat /\ row[t].expiresAt \in Nat
  BY <1>1 DEF TypeOK, Row
<1>3. \A c \in Calls : call[c].sentAt \in Nat /\ call[c].token \in Tokens \cup {NoToken}
  BY <1>1 DEF TypeOK, Call
<1> QED
  BY <1>1, <1>2, <1>3, TokenNumbers DEF TypeOK

\* A reason stays one.
LEMMA ReasonKept ==
  ASSUME TypeOK, clock' \in Nat, clock <= clock', slow => slow', ~isActive => ~isActive',
         out \subseteq out', dropped \subseteq dropped',
         NEW t \in Tokens, row'[t].expiresAt = row[t].expiresAt, Reason(t)
  PROVE  Reason(t)'
  BY Ages DEF Reason, Expired

LEMMA GotoCall ==
  ASSUME call \in [Calls -> Call], NEW c \in Calls, NEW p \in PCs, Goto(c, p)
  PROVE  /\ call'[c].pc = p /\ call'[c].kind = call[c].kind
         /\ call'[c].token = call[c].token /\ call'[c].sentAt = call[c].sentAt
         /\ \A d \in Calls \ {c} : call'[d] = call[d]
<1>1. call' = [call EXCEPT ![c] = [call[c] EXCEPT !.pc = p]]
  BY DEF Goto
<1>2. call[c] \in Call
  OBVIOUS
<1> QED
  BY <1>1, <1>2 DEF Call

\* Who carries a token that was rotated longer than the grace ago is late, and
\* its rotation has been answered.
LEMMA Outdated ==
  ASSUME TypeOK, Refusals, NEW t \in Tokens,
         row[t].state = "revoked", PastGrace(row[t])
  PROVE  Reason(t) \/ (cookie # t /\ \A c \in Calls : ~Carries(c, t))
<1> SUFFICES ASSUME ~Reason(t)
             PROVE  cookie # t /\ \A c \in Calls : ~Carries(c, t)
  OBVIOUS
<1>1. /\ clock \in Nat /\ Grace \in Nat /\ row[t].revokedAt \in Nat
      /\ \A c \in Calls : call[c].sentAt \in Nat
      /\ row[t].revokedAt < clock - Grace
  BY Ages DEF PastGrace
<1>2. \A c \in Calls : call[c].pc # "idle" => 2 * (clock - call[c].sentAt) <= Grace
  BY DEF Refusals, OnTime, Reason
<1>3. cookie # t
  <2> SUFFICES ASSUME cookie = t PROVE FALSE
    OBVIOUS
  <2>1. PICK c \in Calls : Rotator(c, t) /\ call[c].sentAt <= row[t].revokedAt
    BY DEF Refusals, Awaited
  <2>2. call[c].pc # "idle"
    BY <2>1 DEF Rotator, At
  <2> QED
    BY <1>1, <1>2, <2>1, <2>2
<1>4. ASSUME NEW c \in Calls, Carries(c, t)
      PROVE  FALSE
  <2>1. 2 * call[c].sentAt <= 2 * row[t].revokedAt + Grace
    BY <1>4 DEF Refusals, Timely
  <2>2. call[c].pc # "idle"
    BY <1>4 DEF Carries, Carrying
  <2> QED
    BY <1>1, <1>2, <2>1, <2>2
<1> QED
  BY <1>3, <1>4

\* A step inside a handler that, if it takes a session away, has a reason to or
\* finds nobody who needs it.
LEMMA HandlerRefusals ==
  ASSUME TypeOK, HasToken, Refusals, NEW c \in Calls, NEW p \in PCs, Goto(c, p),
         call[c].pc \notin {"idle", "issue", "set"}, p \notin {"idle", "set"},
         call[c].kind = "refresh" =>
            /\ p # "issue"
            /\ p \in Carrying => call[c].pc \in Carrying
            /\ p \in {"drop", "cleared"} => call[c].token # NoToken /\ Reason(call[c].token)
            /\ p = "dropAll" => ~isActive
            /\ p = "reread" => call[c].token # NoToken /\ row[call[c].token].state # "live",
         \A t \in Tokens :
            \/ row'[t] = row[t]
            \/ /\ row'[t] = Deleted(row[t])
               /\ ~isActive \/ row[t].state = "revoked" \/ t = call[c].token
               /\ Reason(t) \/ t \in out' \/ (cookie # t /\ \A d \in Calls : ~Carries(d, t)),
         UNCHANGED <<cookie, isActive, clock, parent, dropped, slow>>, out \subseteq out'
  PROVE  Refusals'
<1>r. /\ clock \in Nat /\ Grace \in Nat /\ call \in [Calls -> Call]
      /\ row \in [Tokens -> Row]
      /\ \A d \in Calls : /\ call[d].sentAt \in Nat
                          /\ call[d].token \in Tokens \cup {NoToken}
  BY Ages
<1>c. /\ call'[c].pc = p /\ call'[c].kind = call[c].kind
      /\ call'[c].token = call[c].token /\ call'[c].sentAt = call[c].sentAt
      /\ \A d \in Calls \ {c} : call'[d] = call[d]
  BY <1>r, GotoCall
<1>d. \A t \in Tokens : /\ Deleted(row[t]).state = "none"
                        /\ Deleted(row[t]).expiresAt = row[t].expiresAt
  BY DEF Deleted
<1>k. \A t \in Tokens : Reason(t) \/ t \in out' => Reason(t)'
  <2>1. \A t \in Tokens : row'[t].expiresAt = row[t].expiresAt
    BY <1>d
  <2>2. \A t \in Tokens : Reason(t) => Reason(t)'
    BY <1>r, <2>1, ReasonKept
  <2>3. \A t \in Tokens : t \in out' => Reason(t)'
    BY DEF Reason
  <2> QED
    BY <2>2, <2>3
<1>s. \A d \in Calls, t \in Tokens : Carries(d, t)' => Carries(d, t)
  BY <1>c DEF Carries, Carrying
<1>1. OnTime'
  BY <1>c, <1>r DEF Refusals, OnTime
<1>2. Unread'
  <2> SUFFICES ASSUME NEW d \in Calls, call'[d].pc = "set"
               PROVE  /\ cookie' # call'[d].token
                      /\ \A e \in Calls \ {d} : call'[e].token # call'[d].token
                      /\ row'[call'[d].token].state = "live" \/ ~isActive'
    BY DEF Unread
  <2>1. d # c /\ call'[d] = call[d]
    BY <1>c
  <2>2. /\ cookie # call[d].token
        /\ \A e \in Calls \ {d} : call[e].token # call[d].token
        /\ row[call[d].token].state = "live" \/ ~isActive
        /\ call[d].token \in Tokens
    BY <1>r, <2>1 DEF Refusals, Unread, HasToken
  <2>3. row'[call[d].token] = row[call[d].token] \/ ~isActive
    BY <2>1, <2>2
  <2> QED
    BY <1>c, <2>1, <2>2, <2>3
<1>3. Awaited'
  <2> SUFFICES ASSUME NEW t \in Tokens, cookie = t, row'[t].state = "revoked", ~Reason(t)'
               PROVE  \E d \in Calls : Rotator(d, t)' /\ call'[d].sentAt <= row'[t].revokedAt
    BY DEF Awaited
  <2>1. row'[t] = row[t] /\ ~Reason(t)
    BY <1>d, <1>k
  <2>2. PICK d \in Calls : Rotator(d, t) /\ call[d].sentAt <= row[t].revokedAt
    BY <2>1 DEF Refusals, Awaited
  <2>3. d # c /\ call'[d] = call[d]
    BY <1>c, <2>2 DEF Rotator, At
  <2>4. Rotator(d, t)'
    BY <2>2, <2>3 DEF Rotator, At
  <2> QED
    BY <2>1, <2>2, <2>3, <2>4
<1>4. Timely'
  <2> SUFFICES ASSUME NEW d \in Calls, NEW t \in Tokens, Carries(d, t)',
                      row'[t].state = "revoked", ~Reason(t)'
               PROVE  2 * call'[d].sentAt <= 2 * row'[t].revokedAt + Grace
    BY DEF Timely
  <2>1. row'[t] = row[t] /\ ~Reason(t) /\ Carries(d, t)
    BY <1>d, <1>k, <1>s
  <2>2. call'[d].sentAt = call[d].sentAt
    BY <1>c
  <2> QED
    BY <2>1, <2>2 DEF Refusals, Timely
<1>5. Present'
  <2> SUFFICES ASSUME NEW t \in Tokens, row'[t].state = "none", ~Reason(t)'
               PROVE  cookie # t /\ \A d \in Calls : ~Carries(d, t)'
    BY DEF Present
  <2>1. ~Reason(t) /\ t \notin out'
    BY <1>k
  <2>2. cookie # t /\ \A d \in Calls : ~Carries(d, t)
    BY <2>1 DEF Refusals, Present
  <2> QED
    BY <1>s, <2>2
<1>6. Justified'
  <2> SUFFICES ASSUME NEW d \in Calls, call'[d].kind = "refresh"
               PROVE  /\ call'[d].pc \in {"drop", "cleared"} =>
                            call'[d].token # NoToken /\ Reason(call[d].token)'
                      /\ call'[d].pc = "dropAll" => ~isActive
                      /\ call'[d].pc = "reread" => row'[call'[d].token].state # "live"
    <3>1. \A d \in Calls : call'[d].token = call[d].token
      BY <1>c
    <3> QED
      BY <3>1 DEF Justified, Reason, Expired
  <2>t. call'[d].token = call[d].token /\ call[d].token \in Tokens \cup {NoToken}
    BY <1>c, <1>r
  <2>1. /\ call'[d].pc \in {"drop", "cleared"} =>
               call[d].token # NoToken /\ Reason(call[d].token)
        /\ call'[d].pc = "dropAll" => ~isActive
        /\ call'[d].pc = "reread" => /\ row[call[d].token].state # "live"
                                     /\ call[d].token # NoToken
    BY <1>c DEF Refusals, Justified, HasToken, InRefresh
  <2>2. call[d].token # NoToken /\ Reason(call[d].token)
           => Reason(call[d].token)'
    <3> SUFFICES ASSUME call[d].token \in Tokens, Reason(call[d].token)
                 PROVE  Reason(call[d].token)'
      BY <2>t
    <3> DEFINE t == call[d].token
    <3>1. Reason(t)'
      BY <1>k, <2>t DEF Reason, Expired
    <3> QED
      BY <3>1
  <2> QED
    BY <1>d, <2>1, <2>2, <2>t
<1> QED
  BY <1>1, <1>2, <1>3, <1>4, <1>5, <1>6 DEF Refusals

LEMMA RefreshRefusals ==
  ASSUME TypeOK, HasToken, Refusals, NEW c \in Calls, Refresh(c),
         ~(Rotate(c) /\ row[call[c].token].state = "live")
  PROVE  Refusals'
<1> DEFINE t == call[c].token
<1>r. /\ row \in [Tokens -> Row] /\ t \in Tokens \cup {NoToken}
      /\ call[c].kind = "refresh"
      /\ \A u \in Tokens : row[u].state \in {"none", "live", "revoked"}
  BY Ages DEF Row, Refresh, NoCookie, Sweep, Find, Drop, GraceUser, LiveUser, DropAll,
              Rotate, Reread, At
<1>p. /\ {"kept", "swept", "cleared", "drop", "graceUser", "liveUser"} \subseteq PCs
      /\ {"dropAll", "rotate", "reread"} \subseteq PCs
  BY DEF PCs
<1>u. /\ UNCHANGED <<cookie, isActive, clock, parent, dropped, slow>> /\ out \subseteq out'
  BY DEF Refresh, NoCookie, Sweep, Find, Drop, GraceUser, LiveUser, DropAll, Rotate,
         Reread, history
\* what a refresh finds when it looks its token up
<1>n. call[c].pc \in Carrying \ {"sent"} =>
         /\ t \in Tokens
         /\ row[t].state = "none" => Reason(t)
         /\ row[t].state = "revoked" /\ PastGrace(row[t]) => Reason(t)
  <2> SUFFICES ASSUME call[c].pc \in Carrying \ {"sent"}
               PROVE  /\ t \in Tokens
                      /\ row[t].state = "none" => Reason(t)
                      /\ row[t].state = "revoked" /\ PastGrace(row[t]) => Reason(t)
    OBVIOUS
  <2>1. t \in Tokens
    BY <1>r DEF HasToken, InRefresh, Carrying
  <2>2. Carries(c, t)
    BY <1>r DEF Carries
  <2> HIDE DEF t
  <2>3. row[t].state = "none" => Reason(t)
    BY <2>1, <2>2 DEF Refusals, Present
  <2>4. row[t].state = "revoked" /\ PastGrace(row[t]) => Reason(t)
    BY <2>1, <2>2, Outdated
  <2> QED
    BY <2>1, <2>3, <2>4
<1>1. CASE NoCookie(c)
  <2>1. Goto(c, "kept") /\ call[c].pc = "sent" /\ UNCHANGED row
    BY <1>1 DEF NoCookie, At
  <2> QED
    BY <1>p, <1>u, <2>1, HandlerRefusals DEF Carrying
<1>2. CASE Sweep(c)
  <2>1. Goto(c, "swept") /\ call[c].pc = "sent"
        /\ row' = [u \in Tokens |-> IF Stale(u) THEN Deleted(row[u]) ELSE row[u]]
    BY <1>2 DEF Sweep, At
  <2>2. ASSUME NEW u \in Tokens
        PROVE  \/ row'[u] = row[u]
               \/ /\ row'[u] = Deleted(row[u]) /\ row[u].state = "revoked"
                  /\ Reason(u) \/ (cookie # u /\ \A d \in Calls : ~Carries(d, u))
    <3>1. CASE Stale(u)
      BY <2>1, <3>1, Outdated DEF Stale
    <3>2. CASE ~Stale(u)
      BY <2>1, <3>2
    <3> QED
      BY <3>1, <3>2
  <2> QED
    BY <1>p, <1>u, <2>1, <2>2, HandlerRefusals DEF Carrying
<1>3. CASE Find(c)
  <2>1. call[c].pc = "swept" /\ UNCHANGED row
    BY <1>3 DEF Find, At
  <2>2. PICK p \in {"cleared", "drop", "graceUser", "liveUser"} :
           Goto(c, p) /\ (p \in {"cleared", "drop"} => Reason(t))
    <3>1. CASE row[t].state = "none"
      BY <1>3, <1>n, <2>1, <3>1 DEF Find, Found, Carrying
    <3>2. CASE row[t].state # "none" /\ row[t].expiresAt < clock
      BY <1>3, <3>2 DEF Find, Found, Reason, Expired
    <3>3. CASE row[t].state # "none" /\ ~(row[t].expiresAt < clock)
      <4>1. CASE row[t].state = "revoked" /\ PastGrace(row[t])
        BY <1>3, <1>n, <2>1, <3>3, <4>1, Ages DEF Find, Found, Carrying
      <4>2. CASE ~(row[t].state = "revoked" /\ PastGrace(row[t]))
        <5>1. Goto(c, "graceUser") \/ Goto(c, "liveUser")
          BY <1>3, <1>n, <2>1, <3>3, <4>2, Ages DEF Find, Found, Carrying
        <5> QED
          BY <5>1
      <4> QED
        BY <4>1, <4>2
    <3> QED
      BY <3>1, <3>2, <3>3
  <2>3. t # NoToken
    BY <1>r, <2>1 DEF HasToken, InRefresh
  <2> QED
    BY <1>p, <1>u, <2>1, <2>2, <2>3, HandlerRefusals DEF Carrying
<1>4. CASE Drop(c)
  <2>1. Goto(c, "cleared") /\ call[c].pc = "drop"
        /\ row' = [row EXCEPT ![t] = Deleted(@)]
    BY <1>4 DEF Drop, At
  <2>2. t # NoToken /\ Reason(t)
    BY <1>r, <2>1 DEF Refusals, Justified
  <2>3. \A u \in Tokens : row'[u] = row[u] \/ (u = t /\ row'[u] = Deleted(row[u]))
    BY <1>r, <2>1
  <2> QED
    BY <1>p, <1>u, <2>1, <2>2, <2>3, HandlerRefusals DEF Carrying
<1>5. CASE GraceUser(c)
  <2>1. call[c].pc = "graceUser" /\ UNCHANGED row
        /\ Goto(c, IF isActive THEN "kept" ELSE "dropAll")
    BY <1>5 DEF GraceUser, At
  <2> QED
    BY <1>p, <1>u, <2>1, HandlerRefusals DEF Carrying
<1>6. CASE LiveUser(c)
  <2>1. call[c].pc = "liveUser" /\ UNCHANGED row
        /\ Goto(c, IF isActive THEN "rotate" ELSE "dropAll")
    BY <1>6 DEF LiveUser, At
  <2> QED
    BY <1>p, <1>u, <2>1, HandlerRefusals DEF Carrying
<1>7. CASE DropAll(c)
  <2>1. Goto(c, "cleared") /\ call[c].pc = "dropAll"
        /\ row' = [u \in Tokens |-> Deleted(row[u])]
    BY <1>7 DEF DropAll, At
  <2>2. ~isActive /\ t # NoToken
    BY <1>r, <2>1 DEF Refusals, Justified, HasToken, InRefresh
  <2>3. \A u : Reason(u)
    BY <2>2 DEF Reason
  <2> QED
    BY <1>p, <1>u, <2>1, <2>2, <2>3, HandlerRefusals DEF Carrying
<1>8. CASE Rotate(c)
  <2>1. call[c].pc = "rotate" /\ UNCHANGED row /\ Goto(c, "reread")
        /\ row[t].state # "live"
    BY <1>8 DEF Rotate, At
  <2>2. t # NoToken
    BY <1>r, <2>1 DEF HasToken, InRefresh
  <2> QED
    BY <1>p, <1>u, <2>1, <2>2, HandlerRefusals DEF Carrying
<1>9. CASE Reread(c)
  <2>1. call[c].pc = "reread" /\ UNCHANGED row
        /\ Goto(c, IF row[t].state = "revoked" /\ ~PastGrace(row[t])
                   THEN "kept" ELSE "cleared")
    BY <1>9 DEF Reread, At, Found
  <2>2. row[t].state # "live" /\ t \in Tokens
    BY <1>n, <1>r, <2>1 DEF Refusals, Justified, Carrying
  <2>3. Goto(c, "kept") \/ (Goto(c, "cleared") /\ Reason(t))
    BY <1>n, <1>r, <2>1, <2>2 DEF Carrying
  <2>4. t # NoToken
    BY <2>2, Ages
  <2> QED
    BY <1>p, <1>u, <2>1, <2>3, <2>4, HandlerRefusals DEF Carrying
<1> QED
  BY <1>1, <1>2, <1>3, <1>4, <1>5, <1>6, <1>7, <1>8, <1>9 DEF Refresh

\* The rotation: it is young, and its call is the one the browser waits for.
LEMMA RotateRefusals ==
  ASSUME TypeOK, HasToken, Refusals, NEW c \in Calls, Rotate(c),
         row[call[c].token].state = "live"
  PROVE  Refusals'
<1> DEFINE t == call[c].token
<1>r. /\ clock \in Nat /\ Grace \in Nat /\ call \in [Calls -> Call]
      /\ row \in [Tokens -> Row] /\ t \in Tokens
      /\ \A u \in Tokens : row[u].revokedAt \in Nat
      /\ \A d \in Calls : /\ call[d].sentAt \in Nat
                          /\ call[d].token \in Tokens \cup {NoToken}
  BY Ages DEF Rotate, At, HasToken, InRefresh
<1>u. /\ UNCHANGED <<cookie, isActive, clock, parent, out, dropped, slow>>
      /\ At(c, "refresh", "rotate") /\ Goto(c, "issue")
      /\ row' = [row EXCEPT ![t] = Revoked(@)]
  BY DEF Rotate, history
<1>c. /\ call'[c].pc = "issue" /\ call'[c].kind = "refresh"
      /\ call'[c].token = t /\ call'[c].sentAt = call[c].sentAt
      /\ \A d \in Calls \ {c} : call'[d] = call[d]
  BY <1>r, <1>u, GotoCall DEF PCs, At
<1>t. /\ \A u \in Tokens \ {t} : row'[u] = row[u]
      /\ row'[t].state = "revoked" /\ row'[t].revokedAt = clock
      /\ row'[t].expiresAt = row[t].expiresAt
  <2>1. row[t] \in Row /\ row'[t] = Revoked(row[t])
    BY <1>r, <1>u
  <2> QED
    BY <1>r, <1>u, <2>1 DEF Revoked, Row
<1>k. \A u \in Tokens : Reason(u) => Reason(u)'
  <2>1. \A u \in Tokens : row'[u].expiresAt = row[u].expiresAt
    BY <1>t
  <2> QED
    BY <1>r, <1>u, <2>1, ReasonKept
<1>s. \A d \in Calls, u \in Tokens : Carries(d, u)' => Carries(d, u)
  BY <1>c DEF Carries, Carrying
<1>1. OnTime'
  BY <1>c, <1>r, <1>u DEF Refusals, OnTime, At
<1>2. Unread'
  <2> SUFFICES ASSUME NEW d \in Calls, call'[d].pc = "set"
               PROVE  /\ cookie' # call'[d].token
                      /\ \A e \in Calls \ {d} : call'[e].token # call'[d].token
                      /\ row'[call'[d].token].state = "live" \/ ~isActive'
    BY DEF Unread
  <2>1. d # c /\ call'[d] = call[d]
    BY <1>c
  <2>2. /\ cookie # call[d].token
        /\ \A e \in Calls \ {d} : call[e].token # call[d].token
        /\ row[call[d].token].state = "live" \/ ~isActive
        /\ call[d].token \in Tokens
    BY <1>r, <2>1 DEF Refusals, Unread, HasToken
  <2>3. row'[call[d].token] = row[call[d].token]
    BY <1>t, <2>1, <2>2
  <2> QED
    BY <1>c, <1>u, <2>1, <2>2, <2>3
<1>3. Awaited'
  <2> SUFFICES ASSUME NEW u \in Tokens, cookie = u, row'[u].state = "revoked", ~Reason(u)'
               PROVE  \E d \in Calls : Rotator(d, u)' /\ call'[d].sentAt <= row'[u].revokedAt
    BY <1>u DEF Awaited
  <2>1. CASE u = t
    <3>1. Rotator(c, u)'
      BY <1>c, <2>1 DEF Rotator, At
    <3>2. call'[c].sentAt <= row'[u].revokedAt
      BY <1>c, <1>t, <2>1 DEF Refusals, OnTime
    <3> QED
      BY <3>1, <3>2
  <2>2. CASE u # t
    <3>1. row'[u] = row[u] /\ ~Reason(u)
      BY <1>k, <1>t, <2>2
    <3>2. PICK d \in Calls : Rotator(d, u) /\ call[d].sentAt <= row[u].revokedAt
      BY <3>1 DEF Refusals, Awaited
    <3>3. d # c /\ call'[d] = call[d]
      BY <1>c, <1>u, <3>2 DEF Rotator, At
    <3>4. Rotator(d, u)'
      BY <1>u, <3>2, <3>3 DEF Rotator, At
    <3> QED
      BY <3>1, <3>2, <3>3, <3>4
  <2> QED
    BY <2>1, <2>2
<1>4. Timely'
  <2> SUFFICES ASSUME NEW d \in Calls, NEW u \in Tokens, Carries(d, u)',
                      row'[u].state = "revoked", ~Reason(u)'
               PROVE  2 * call'[d].sentAt <= 2 * row'[u].revokedAt + Grace
    BY DEF Timely
  <2>1. ~Reason(u) /\ Carries(d, u) /\ call'[d].sentAt = call[d].sentAt
    BY <1>c, <1>k, <1>s
  <2>2. CASE u = t
    <3>1. call[d].sentAt <= clock
      BY DEF Refusals, OnTime
    <3> QED
      BY <1>r, <1>t, <2>1, <2>2, <3>1
  <2>3. CASE u # t
    BY <1>t, <2>1, <2>3 DEF Refusals, Timely
  <2> QED
    BY <2>2, <2>3
<1>5. Present'
  <2> SUFFICES ASSUME NEW u \in Tokens, row'[u].state = "none", ~Reason(u)'
               PROVE  cookie # u /\ \A d \in Calls : ~Carries(d, u)'
    BY <1>u DEF Present
  <2>1. row[u].state = "none" /\ ~Reason(u)
    BY <1>k, <1>t
  <2> QED
    BY <1>s, <2>1 DEF Refusals, Present
<1>6. Justified'
  <2> SUFFICES ASSUME NEW d \in Calls, call'[d].kind = "refresh"
               PROVE  /\ call'[d].pc \in {"drop", "cleared"} =>
                            call'[d].token # NoToken /\ Reason(call[d].token)'
                      /\ call'[d].pc = "dropAll" => ~isActive'
                      /\ call'[d].pc = "reread" => row'[call'[d].token].state # "live"
    BY DEF Justified, Reason, Expired
  <2>1. CASE d = c
    BY <1>c, <2>1
  <2>2. CASE d # c
    <3>1. call'[d] = call[d] /\ call[d].token \in Tokens \cup {NoToken}
      BY <1>c, <1>r, <2>2
    <3>2. /\ call[d].pc \in {"drop", "cleared"} =>
                 call[d].token # NoToken /\ Reason(call[d].token)
          /\ call[d].pc = "dropAll" => ~isActive
          /\ call[d].pc = "reread" => row[call[d].token].state # "live"
                                      /\ call[d].token # NoToken
      BY <3>1 DEF Refusals, Justified, HasToken, InRefresh
    <3>3. call[d].pc \in {"drop", "cleared"} => Reason(call[d].token)'
      BY <1>k, <3>1, <3>2 DEF Reason, Expired
    <3>4. call[d].pc = "reread" => row'[call[d].token].state # "live"
      BY <1>t, <3>1, <3>2
    <3> QED
      BY <1>u, <3>1, <3>2, <3>3, <3>4
  <2> QED
    BY <2>1, <2>2
<1> QED
  BY <1>1, <1>2, <1>3, <1>4, <1>5, <1>6 DEF Refusals

\* A new call carries the cookie, and what is known of the cookie.
LEMMA SendRefusals ==
  ASSUME TypeOK, HasToken, Refusals, NEW c \in Calls, NEW kind \in Kinds, Send(c, kind)
  PROVE  Refusals'
<1>r. /\ clock \in Nat /\ Grace \in Nat /\ call \in [Calls -> Call]
      /\ \A u \in Tokens : row[u].revokedAt \in Nat
      /\ \A d \in Calls : call[d].sentAt \in Nat
  BY Ages
<1>u. /\ UNCHANGED <<row, cookie, isActive, clock, parent, out, dropped, slow>>
      /\ call[c].pc = "idle"
  BY DEF Send, history
<1>c. /\ call'[c].pc = "sent" /\ call'[c].kind = kind
      /\ call'[c].token = cookie /\ call'[c].sentAt = clock
      /\ \A d \in Calls \ {c} : call'[d] = call[d]
  BY <1>r DEF Send
<1>k. \A u : Reason(u)' <=> Reason(u)
  BY <1>u DEF Reason, Expired
<1>o. \A d \in Calls, u \in Tokens : Rotator(d, u) => d # c /\ Rotator(d, u)'
  BY <1>c, <1>u DEF Rotator, At
<1>1. OnTime'
  BY <1>c, <1>r, <1>u DEF Refusals, OnTime
<1>2. Unread'
  BY <1>c, <1>u DEF Refusals, Unread
<1>3. Awaited'
  BY <1>c, <1>k, <1>o, <1>u DEF Refusals, Awaited
<1>4. Timely'
  <2> SUFFICES ASSUME NEW d \in Calls, NEW t \in Tokens, Carries(d, t)',
                      row[t].state = "revoked", ~Reason(t)
               PROVE  2 * call'[d].sentAt <= 2 * row[t].revokedAt + Grace
    BY <1>k, <1>u DEF Timely
  <2>1. CASE d # c
    BY <1>c, <2>1 DEF Refusals, Timely, Carries
  <2>2. CASE d = c
    <3>1. cookie = t
      BY <1>c, <2>2 DEF Carries
    <3>2. PICK e \in Calls : Rotator(e, t) /\ call[e].sentAt <= row[t].revokedAt
      BY <3>1 DEF Refusals, Awaited
    <3>3. 2 * (clock - call[e].sentAt) <= Grace
      BY <3>2 DEF Refusals, OnTime, Rotator, At, Reason
    <3> QED
      BY <1>c, <1>r, <2>2, <3>2, <3>3
  <2> QED
    BY <2>1, <2>2
<1>5. Present'
  <2> SUFFICES ASSUME NEW t \in Tokens, row[t].state = "none", ~Reason(t), NEW d \in Calls
               PROVE  cookie # t /\ ~Carries(d, t)'
    BY <1>k, <1>u DEF Present
  <2>1. cookie # t /\ ~Carries(d, t)
    BY DEF Refusals, Present
  <2> QED
    BY <1>c, <2>1 DEF Carries
<1>6. Justified'
  BY <1>c, <1>k, <1>u DEF Refusals, Justified, Reason, Expired
<1> QED
  BY <1>1, <1>2, <1>3, <1>4, <1>5, <1>6 DEF Refusals

\* The new session is known to nobody but the call that answers the rotation.
LEMMA IssueRefusals ==
  ASSUME TypeOK, Core, HasToken, Refusals, NEW c \in Calls, Issue(c)
  PROVE  Refusals'
<1> DEFINE new == issued + 1
<1>r. /\ clock \in Nat /\ Grace \in Nat /\ call \in [Calls -> Call] /\ call[c] \in Call
      /\ row \in [Tokens -> Row] /\ parent \in [Tokens -> Tokens \cup {NoToken}]
      /\ new \in Tokens
      /\ \A d \in Calls : call[d].token \in Tokens \cup {NoToken}
      /\ NoToken \notin Tokens
  BY Ages, TokenNumbers DEF TypeOK, Issue
\* the new token occurs nowhere yet
<1>n. cookie # new /\ \A d \in Calls : call[d].token # new
  BY <1>r, TokenNumbers DEF Core, KnownTokens, TypeOK
<1>u. /\ UNCHANGED <<cookie, isActive, clock, out, dropped, slow>>
      /\ call[c].pc = "issue"
      /\ \A t \in Tokens \ {new} : row'[t] = row[t] /\ parent'[t] = parent[t]
      /\ row'[new].state = "live"
      /\ parent'[new] = IF call[c].kind = "refresh" THEN call[c].token ELSE NoToken
  BY <1>r DEF Issue
<1>c. /\ call'[c].pc = "set" /\ call'[c].token = new
      /\ call'[c].sentAt = call[c].sentAt /\ call'[c].kind = call[c].kind
      /\ \A d \in Calls \ {c} : call'[d] = call[d]
  BY <1>r DEF Issue, Call
<1> HIDE DEF new
<1>k. \A t \in Tokens \ {new} : Reason(t)' <=> Reason(t)
  BY <1>u DEF Reason, Expired
<1>s. \A d \in Calls, t \in Tokens : Carries(d, t)' => Carries(d, t)
  BY <1>c DEF Carries, Carrying
<1>1. OnTime'
  BY <1>c, <1>r, <1>u DEF Refusals, OnTime
<1>2. Unread'
  <2> SUFFICES ASSUME NEW d \in Calls, call'[d].pc = "set"
               PROVE  /\ cookie # call'[d].token
                      /\ \A e \in Calls \ {d} : call'[e].token # call'[d].token
                      /\ row'[call'[d].token].state = "live" \/ ~isActive
    BY <1>u DEF Unread
  <2>1. CASE d = c
    BY <1>c, <1>n, <1>u, <2>1
  <2>2. CASE d # c
    <3>1. call'[d] = call[d] /\ call[d].token \in Tokens \ {new}
      BY <1>c, <1>n, <1>r, <2>2 DEF HasToken
    <3>2. /\ cookie # call[d].token
          /\ \A e \in Calls \ {d} : call[e].token # call[d].token
          /\ row[call[d].token].state = "live" \/ ~isActive
      BY <3>1 DEF Refusals, Unread
    <3> QED
      BY <1>c, <1>u, <3>1, <3>2
  <2> QED
    BY <2>1, <2>2
<1>3. Awaited'
  <2> SUFFICES ASSUME NEW t \in Tokens, cookie = t, row'[t].state = "revoked", ~Reason(t)'
               PROVE  \E d \in Calls : Rotator(d, t)' /\ call'[d].sentAt <= row'[t].revokedAt
    BY <1>u DEF Awaited
  <2>1. t # new /\ row'[t] = row[t] /\ ~Reason(t)
    BY <1>k, <1>n, <1>u
  <2>2. PICK d \in Calls : Rotator(d, t) /\ call[d].sentAt <= row[t].revokedAt
    BY <2>1 DEF Refusals, Awaited
  <2>3. Rotator(d, t)'
    <3>1. CASE d = c
      <4>1. call[c].kind = "refresh" /\ call[c].token = t
        BY <1>u, <2>2, <3>1 DEF Rotator, At
      <4> QED
        BY <1>c, <1>u, <3>1, <4>1 DEF Rotator
    <3>2. CASE d # c
      <4>1. call'[d] = call[d]
        BY <1>c, <3>2
      <4>2. call[d].pc = "set" => call[d].token \in Tokens \ {new}
        BY <1>n, <1>r DEF HasToken
      <4> QED
        BY <1>u, <2>2, <4>1, <4>2 DEF Rotator, At
    <3> QED
      BY <3>1, <3>2
  <2>4. call'[d].sentAt = call[d].sentAt
    BY <1>c
  <2> QED
    BY <2>1, <2>2, <2>3, <2>4
<1>4. Timely'
  <2> SUFFICES ASSUME NEW d \in Calls, NEW t \in Tokens, Carries(d, t)',
                      row'[t].state = "revoked", ~Reason(t)'
               PROVE  2 * call'[d].sentAt <= 2 * row'[t].revokedAt + Grace
    BY DEF Timely
  <2>1. t # new /\ Carries(d, t) /\ call'[d].sentAt = call[d].sentAt
    BY <1>c, <1>s, <1>u
  <2> QED
    BY <1>k, <1>u, <2>1 DEF Refusals, Timely
<1>5. Present'
  <2> SUFFICES ASSUME NEW t \in Tokens, row'[t].state = "none", ~Reason(t)'
               PROVE  cookie # t /\ \A d \in Calls : ~Carries(d, t)'
    BY <1>u DEF Present
  <2>1. row[t].state = "none" /\ ~Reason(t)
    BY <1>k, <1>u
  <2> QED
    BY <1>s, <2>1 DEF Refusals, Present
<1>6. Justified'
  <2> SUFFICES ASSUME NEW d \in Calls, d # c, call[d].kind = "refresh"
               PROVE  /\ call[d].pc \in {"drop", "cleared"} =>
                            call[d].token # NoToken /\ (slow' \/ ~isActive'
                               \/ call[d].token \in out' \cup dropped'
                               \/ row'[call[d].token].expiresAt < clock')
                      /\ call[d].pc = "dropAll" => ~isActive'
                      /\ call[d].pc = "reread" => row'[call[d].token].state # "live"
    BY <1>c DEF Justified, Reason, Expired
  <2>1. /\ call[d].pc \in {"drop", "cleared"} =>
               call[d].token # NoToken /\ Reason(call[d].token)
        /\ call[d].pc = "dropAll" => ~isActive
        /\ call[d].pc = "reread" => row[call[d].token].state # "live"
                                    /\ call[d].token # NoToken
    BY DEF Refusals, Justified, HasToken, InRefresh
  <2>2. call[d].token # NoToken => row'[call[d].token] = row[call[d].token]
    BY <1>n, <1>r, <1>u
  <2> QED
    BY <1>u, <2>1, <2>2 DEF Reason, Expired
<1> QED
  BY <1>1, <1>2, <1>3, <1>4, <1>5, <1>6 DEF Refusals

LEMMA CallRefusals ==
  ASSUME TypeOK, HasToken, Refusals, NEW c \in Calls,
         Accept(c) \/ LogoutDelete(c)
  PROVE  Refusals'
<1>r. row \in [Tokens -> Row]
  BY Ages
<1>1. CASE Accept(c)
  <2>1. /\ Goto(c, "issue") /\ call[c].kind = "login" /\ call[c].pc = "sent"
        /\ UNCHANGED <<row, cookie, isActive, clock, parent, out, dropped, slow>>
    BY <1>1 DEF Accept, At, history
  <2> QED
    BY <2>1, HandlerRefusals DEF PCs
<1>2. CASE LogoutDelete(c)
  <2>1. /\ Goto(c, "cleared") /\ call[c].kind = "logout" /\ call[c].pc = "sent"
        /\ UNCHANGED <<cookie, isActive, clock, parent, dropped, slow>>
        /\ out' = out \cup ({call[c].token} \ {NoToken})
        /\ row' = [u \in Tokens |-> IF u = call[c].token THEN Deleted(row[u]) ELSE row[u]]
    BY <1>2 DEF LogoutDelete, At
  <2>2. \A u \in Tokens : \/ row'[u] = row[u]
                          \/ row'[u] = Deleted(row[u]) /\ u = call[c].token /\ u \in out'
    BY <2>1, Ages
  <2> QED
    BY <2>1, <2>2, HandlerRefusals DEF PCs
<1> QED
  BY <1>1, <1>2

\* The browser takes the answer: a token is fresh, and a cleared cookie empty.
LEMMA DeliverRefusals ==
  ASSUME TypeOK, HasToken, Refusals, NEW c \in Calls, Deliver(c)
  PROVE  Refusals'
<1>r. /\ clock \in Nat /\ Grace \in Nat /\ call \in [Calls -> Call]
      /\ \A d \in Calls : call[d].token \in Tokens \cup {NoToken}
      /\ NoToken \notin Tokens
      /\ Idle.pc = "idle" /\ Idle.token = NoToken /\ Idle.sentAt = 0
      /\ Idle.kind = "login"
  BY Ages DEF Idle
<1>u. /\ UNCHANGED <<row, isActive, clock, parent, out, dropped, slow>>
      /\ call'[c] = Idle
      /\ \A d \in Calls \ {c} : call'[d] = call[d]
  BY <1>r DEF Deliver, history
<1>a. \/ call[c].pc = "set" /\ cookie' = call[c].token
      \/ call[c].pc = "cleared" /\ cookie' = NoToken
      \/ call[c].pc = "kept" /\ cookie' = cookie
  BY DEF Deliver, Answered
<1>k. \A t : Reason(t)' <=> Reason(t)
  BY <1>u DEF Reason, Expired
\* a token that is the cookie now was it before, or is fresh
<1>f. \A t \in Tokens : cookie' = t => \/ cookie = t /\ call[c].pc = "kept"
                                       \/ row[t].state = "live" \/ ~isActive
  BY <1>a, <1>r DEF Refusals, Unread
<1>s. \A d \in Calls, t \in Tokens : Carries(d, t)' => Carries(d, t) /\ d # c
  BY <1>r, <1>u DEF Carries, Carrying
<1>1. OnTime'
  BY <1>r, <1>u DEF Refusals, OnTime
<1>2. Unread'
  <2> SUFFICES ASSUME NEW d \in Calls, d # c, call[d].pc = "set"
               PROVE  /\ cookie' # call[d].token
                      /\ \A e \in Calls \ {d} : call'[e].token # call[d].token
                      /\ row[call[d].token].state = "live" \/ ~isActive
    BY <1>r, <1>u DEF Unread
  <2>1. /\ cookie # call[d].token
        /\ \A e \in Calls \ {d} : call[e].token # call[d].token
        /\ row[call[d].token].state = "live" \/ ~isActive
        /\ call[d].token # NoToken
    BY DEF Refusals, Unread, HasToken
  <2> QED
    BY <1>a, <1>r, <1>u, <2>1
<1>3. Awaited'
  <2> SUFFICES ASSUME NEW t \in Tokens, cookie' = t, row[t].state = "revoked", ~Reason(t)
               PROVE  \E d \in Calls : Rotator(d, t)' /\ call'[d].sentAt <= row[t].revokedAt
    BY <1>k, <1>u DEF Awaited
  <2>1. cookie = t /\ call[c].pc = "kept"
    BY <1>f DEF Reason
  <2>2. PICK d \in Calls : Rotator(d, t) /\ call[d].sentAt <= row[t].revokedAt
    BY <2>1 DEF Refusals, Awaited
  <2>3. call'[d] = call[d]
    BY <1>u, <2>1, <2>2 DEF Rotator, At
  <2> QED
    BY <1>u, <2>2, <2>3 DEF Rotator, At
<1>4. Timely'
  BY <1>k, <1>s, <1>u DEF Refusals, Timely
<1>5. Present'
  <2> SUFFICES ASSUME NEW t \in Tokens, row[t].state = "none", ~Reason(t)
               PROVE  cookie' # t /\ \A d \in Calls : ~Carries(d, t)'
    BY <1>k, <1>u DEF Present
  <2>1. cookie # t /\ \A d \in Calls : ~Carries(d, t)
    BY DEF Refusals, Present
  <2>2. cookie' # t
    BY <1>f, <2>1 DEF Reason
  <2> QED
    BY <1>s, <2>1, <2>2
<1>6. Justified'
  <2> SUFFICES ASSUME NEW d \in Calls, d # c, call[d].kind = "refresh"
               PROVE  /\ call[d].pc \in {"drop", "cleared"} =>
                            call[d].token # NoToken /\ Reason(call[d].token)
                      /\ call[d].pc = "dropAll" => ~isActive
                      /\ call[d].pc = "reread" => row[call[d].token].state # "live"
    BY <1>r, <1>u DEF Justified, Reason, Expired
  <2> QED
    BY DEF Refusals, Justified
<1> QED
  BY <1>1, <1>2, <1>3, <1>4, <1>5, <1>6 DEF Refusals

\* Calls are lost: the rotation of which the browser will not hear is noted.
LEMMA ForgottenRefusals ==
  ASSUME TypeOK, HasToken, Refusals,
         \A d \in Calls : \/ call'[d] = call[d]
                          \/ call'[d] = Idle /\ Unheard(d) \ {NoToken} \subseteq dropped',
         dropped \subseteq dropped',
         UNCHANGED <<row, cookie, isActive, clock, parent, out, slow>>
  PROVE  Refusals'
<1>r. /\ clock \in Nat /\ Grace \in Nat
      /\ \A d \in Calls : call[d].token \in Tokens \cup {NoToken}
      /\ NoToken \notin Tokens
      /\ Idle.pc = "idle" /\ Idle.token = NoToken /\ Idle.sentAt = 0
      /\ Idle.kind = "login"
  BY Ages DEF Idle
<1>k. \A t : Reason(t) => Reason(t)'
  BY DEF Reason, Expired
<1>s. \A d \in Calls, t \in Tokens : Carries(d, t)' => Carries(d, t) /\ call'[d] = call[d]
  BY <1>r DEF Carries, Carrying
<1>1. OnTime'
  BY <1>r DEF Refusals, OnTime
<1>2. Unread'
  <2> SUFFICES ASSUME NEW d \in Calls, call[d].pc = "set", call'[d] = call[d]
               PROVE  /\ cookie # call[d].token
                      /\ \A e \in Calls \ {d} : call'[e].token # call[d].token
                      /\ row[call[d].token].state = "live" \/ ~isActive
    BY <1>r DEF Unread
  <2>1. /\ cookie # call[d].token
        /\ \A e \in Calls \ {d} : call[e].token # call[d].token
        /\ row[call[d].token].state = "live" \/ ~isActive
        /\ call[d].token # NoToken
    BY DEF Refusals, Unread, HasToken
  <2> QED
    BY <1>r, <2>1
<1>3. Awaited'
  <2> SUFFICES ASSUME NEW t \in Tokens, cookie = t, row[t].state = "revoked", ~Reason(t)'
               PROVE  \E d \in Calls : Rotator(d, t)' /\ call'[d].sentAt <= row[t].revokedAt
    BY DEF Awaited
  <2>1. ~Reason(t) /\ t \notin dropped'
    BY <1>k DEF Reason
  <2>2. PICK d \in Calls : Rotator(d, t) /\ call[d].sentAt <= row[t].revokedAt
    BY <2>1 DEF Refusals, Awaited
  <2>3. t \in Unheard(d)
    BY <2>2 DEF Rotator, Unheard, At
  <2>4. call'[d] = call[d]
    BY <1>r, <2>1, <2>3
  <2> QED
    BY <2>2, <2>4 DEF Rotator, At
<1>4. Timely'
  BY <1>k, <1>s DEF Refusals, Timely
<1>5. Present'
  BY <1>k, <1>s DEF Refusals, Present
<1>6. Justified'
  <2> SUFFICES ASSUME NEW d \in Calls, call[d].kind = "refresh", call'[d] = call[d]
               PROVE  /\ call[d].pc \in {"drop", "cleared"} =>
                            call[d].token # NoToken /\ (slow' \/ ~isActive'
                               \/ call[d].token \in out' \cup dropped'
                               \/ row'[call[d].token].expiresAt < clock')
                      /\ call[d].pc = "dropAll" => ~isActive
                      /\ call[d].pc = "reread" => row[call[d].token].state # "live"
    BY <1>r DEF Justified, Reason, Expired
  <2> QED
    BY DEF Refusals, Justified, Reason, Expired
<1> QED
  BY <1>1, <1>2, <1>3, <1>4, <1>5, <1>6 DEF Refusals

LEMMA WorldRefusals ==
  ASSUME TypeOK, HasToken, Refusals,
         \/ Crash \/ Deactivate \/ Tick \/ UNCHANGED vars
         \/ \E c \in Calls : Lose(c)
  PROVE  Refusals'
<1>r. /\ clock \in Nat /\ Grace \in Nat /\ call \in [Calls -> Call]
      /\ dropped \subseteq Tokens /\ NoToken \notin Tokens
      /\ \A d \in Calls : call[d].sentAt \in Nat
      /\ \A d \in Calls : call[d].token \in Tokens \cup {NoToken}
  BY Ages DEF TypeOK
<1>1. ASSUME NEW c \in Calls, Lose(c)
      PROVE  Refusals'
  <2>1. /\ UNCHANGED <<row, cookie, isActive, clock, parent, out, slow>>
        /\ dropped' = (dropped \cup Unheard(c)) \ {NoToken}
        /\ call' = [call EXCEPT ![c] = Idle]
    BY <1>1 DEF Lose
  <2>2. dropped \subseteq dropped' /\ Unheard(c) \ {NoToken} \subseteq dropped'
    BY <1>r, <2>1
  <2>3. \A d \in Calls : call'[d] = call[d] \/ (d = c /\ call'[d] = Idle)
    BY <1>r, <2>1
  <2> QED
    BY <2>1, <2>2, <2>3, ForgottenRefusals
<1>2. CASE Crash
  <2> DEFINE working == {c \in Open : ~Answered(c)}
  <2>1. /\ UNCHANGED <<row, cookie, isActive, clock, parent, out, slow>>
        /\ dropped' = (dropped \cup UNION {Unheard(c) : c \in working}) \ {NoToken}
        /\ call' = [c \in Calls |-> IF c \in working THEN Idle ELSE call[c]]
    BY <1>2 DEF Crash
  <2> HIDE DEF working
  <2>2. dropped \subseteq dropped'
    BY <1>r, <2>1
  <2>3. \A d \in working : Unheard(d) \ {NoToken} \subseteq dropped'
    BY <2>1
  <2>4. \A d \in Calls : call'[d] = call[d] \/ (d \in working /\ call'[d] = Idle)
    BY <2>1
  <2> QED
    BY <2>1, <2>2, <2>3, <2>4, ForgottenRefusals
<1>3. ASSUME Deactivate \/ Tick \/ UNCHANGED vars
      PROVE  Refusals'
  <2>1. /\ UNCHANGED <<row, cookie, call, parent, out, dropped>>
        /\ clock' \in Nat /\ clock <= clock' /\ (slow => slow')
        /\ ~isActive => ~isActive'
    <3>1. CASE Deactivate \/ UNCHANGED vars
      BY <1>r, <3>1 DEF Deactivate, vars, history
    <3>2. CASE Tick
      <4>1. /\ clock' = clock + 1
            /\ UNCHANGED <<row, cookie, call, isActive, parent, out, dropped>>
        BY <3>2 DEF Tick
      <4>2. slow => slow'
        BY <3>2, Zenon DEF Tick
      <4> QED
        BY <1>r, <4>1, <4>2
    <3> QED
      BY <1>3, <3>1, <3>2
  <2>2. \A t \in Tokens : Reason(t) => Reason(t)'
    BY <2>1, ReasonKept
  <2>3. OnTime'
    <3>1. CASE Tick
      <4>1. clock' = clock + 1
            /\ (~slow' => \A c \in Calls : call[c].pc # "idle"
                             => ~(2 * (clock + 1 - call[c].sentAt) > Grace))
        BY <3>1 DEF Tick, Open
      <4> QED
        BY <1>r, <2>1, <4>1 DEF Refusals, OnTime
    <3>2. CASE Deactivate \/ UNCHANGED vars
      <4>1. UNCHANGED <<call, clock, slow>>
        BY <3>2 DEF Deactivate, vars, history
      <4> QED
        BY <4>1 DEF Refusals, OnTime
    <3> QED
      BY <1>3, <3>1, <3>2
  <2>4. Unread'
    BY <2>1 DEF Refusals, Unread
  <2>5. Awaited' /\ Timely' /\ Present'
    BY <2>1, <2>2 DEF Refusals, Awaited, Timely, Present, Rotator, Carries, At
  <2>6. Justified'
    <3> SUFFICES ASSUME NEW d \in Calls, call[d].kind = "refresh"
                 PROVE  /\ call[d].pc \in {"drop", "cleared"} =>
                              call[d].token # NoToken /\ Reason(call[d].token)'
                        /\ call[d].pc = "dropAll" => ~isActive'
                        /\ call[d].pc = "reread" => row[call[d].token].state # "live"
      BY <2>1 DEF Justified, Reason, Expired
    <3>1. /\ call[d].pc \in {"drop", "cleared"} =>
                 call[d].token \in Tokens /\ Reason(call[d].token)
          /\ call[d].pc = "dropAll" => ~isActive
          /\ call[d].pc = "reread" => row[call[d].token].state # "live"
      BY <1>r DEF Refusals, Justified
    <3>2. call[d].token \in Tokens /\ Reason(call[d].token) => Reason(call[d].token)'
      BY <2>1, <2>2 DEF Reason, Expired
    <3> QED
      BY <1>r, <2>1, <3>1, <3>2
  <2> QED
    BY <2>3, <2>4, <2>5, <2>6 DEF Refusals
<1> QED
  BY <1>1, <1>2, <1>3

\* While no call takes longer than half the grace, a refresh is refused only for
\* a reason: the token was logged out or has expired, the account is disabled,
\* or the answer to the token's rotation was lost.
THEOREM RefusalsHaveReasons == Spec => []RefusedForAReason
<1>1. Init => Refusals
  <2> SUFFICES ASSUME Init PROVE Refusals
    OBVIOUS
  <2>1. /\ \A t \in Tokens : row[t].state = "none" /\ cookie # t
        /\ \A c \in Calls : /\ call[c].pc = "idle" /\ call[c].kind = "login"
                            /\ call[c].sentAt = 0
        /\ clock = 0
    BY TokenNumbers DEF Init, NoRow, Idle
  <2> QED
    BY <2>1 DEF Refusals, OnTime, Unread, Awaited, Timely, Present, Justified,
                Carries, Carrying
<1>2. IInv /\ Refusals /\ [Next]_vars => Refusals'
  <2> SUFFICES ASSUME TypeOK, Core, HasToken, Refusals, [Next]_vars PROVE Refusals'
    BY DEF IInv
  <2>1. ASSUME NEW c \in Calls, \E kind \in Kinds : Send(c, kind)
        PROVE  Refusals'
    BY <2>1, SendRefusals
  <2>2. ASSUME NEW c \in Calls, Refresh(c)
        PROVE  Refusals'
    <3>1. CASE Rotate(c) /\ row[call[c].token].state = "live"
      BY <3>1, RotateRefusals
    <3>2. CASE ~(Rotate(c) /\ row[call[c].token].state = "live")
      BY <2>2, <3>2, RefreshRefusals
    <3> QED
      BY <3>1, <3>2
  <2>3. ASSUME NEW c \in Calls,
               Accept(c) \/ LogoutDelete(c) \/ Issue(c) \/ Deliver(c) \/ Lose(c)
        PROVE  Refusals'
    BY <2>3, CallRefusals, IssueRefusals, DeliverRefusals, WorldRefusals
  <2>4. CASE Crash \/ Deactivate \/ Tick \/ UNCHANGED vars
    BY <2>4, WorldRefusals
  <2> QED
    BY <2>1, <2>2, <2>3, <2>4 DEF Next, Kinds
<1>3. Refusals => RefusedForAReason
  BY DEF Refusals, Justified, RefusedForAReason, Reason, At
<1> QED
  BY <1>1, <1>2, <1>3, Invariance, PTL DEF Spec
=============================================================================
