--------------------------- MODULE RefreshSessions ---------------------------
(***************************************************************************)
(* The refresh sessions of AuthService (backend/src/auth/auth.service.ts): *)
(* one user, one browser with one cookie, and the calls that its tabs have *)
(* open at the same time.  An action is what runs between two awaits; a    *)
(* call may be overtaken by any other, its answer may arrive late or never,*)
(* and the backend may stop in the middle.                                 *)
(*                                                                         *)
(* Tokens are numbered in the order they are issued.  Time is counted in   *)
(* units of half the rotation grace when Grace = 2.                        *)
(***************************************************************************)
EXTENDS Integers, FiniteSets

CONSTANTS Calls,      \* HTTP calls open at the same time
          Grace,      \* REFRESH_ROTATION_GRACE_MS
          Ttl,        \* refreshTtlMs
          MaxCalls,   \* bound on the calls of a behaviour
          MaxTime     \* bound on the clock

ASSUME TimeAssumption == Grace \in Nat /\ Ttl \in Nat /\ Grace < Ttl
ASSUME BoundAssumption == MaxCalls \in Nat /\ MaxTime \in Nat

Tokens == 1..MaxCalls       \* a call issues one token at most
NoToken == 0
Time == 0..MaxTime

VARIABLES row,       \* RefreshSession table, by token
          cookie,    \* the refreshToken cookie of the browser
          call,      \* open calls
          isActive,  \* User.isActive
          clock,     \* Date.now()
          started,   \* calls made so far, bounded by MaxCalls
          issued,    \* tokens made so far
          parent,    \* history: the token whose rotation issued a token
          out,       \* history: tokens a logout was asked to end
          ended,     \* history: those whose session was live at that moment
          dropped,   \* history: tokens whose rotation was answered to nobody
          slow       \* history: some call took longer than half the grace

history == <<parent, out, ended, dropped, slow>>
vars == <<row, cookie, call, isActive, clock, started, issued, history>>

\* state "none": never issued, or deleted.  What a deleted row leaves in
\* expiresAt is history, for the properties only.
Row == [state : {"none", "live", "revoked"},
        expiresAt : 0..(MaxTime + Ttl), revokedAt : Time]
NoRow == [state |-> "none", expiresAt |-> 0, revokedAt |-> 0]
Deleted(r) == [state |-> "none", expiresAt |-> r.expiresAt, revokedAt |-> 0]

\* Where a call is.  The last three are answers on their way: the cookie is to
\* be set, to be cleared, or to be left as it is.
Kinds == {"login", "refresh", "logout"}
PCs == {"idle", "sent", "swept", "graceUser", "liveUser", "drop", "dropAll",
        "rotate", "reread", "issue", "set", "cleared", "kept"}
Call == [kind : Kinds, pc : PCs, token : Tokens \cup {NoToken},
         sentAt : Time, barred : BOOLEAN]
Idle == [kind |-> "login", pc |-> "idle", token |-> NoToken,
         sentAt |-> 0, barred |-> FALSE]

TypeOK == /\ row \in [Tokens -> Row]
          /\ cookie \in Tokens \cup {NoToken}
          /\ call \in [Calls -> Call]
          /\ isActive \in BOOLEAN
          /\ clock \in Time
          /\ started \in 0..MaxCalls
          /\ issued \in 0..MaxCalls
          /\ parent \in [Tokens -> Tokens \cup {NoToken}]
          /\ ended \subseteq out
          /\ out \subseteq Tokens
          /\ dropped \subseteq Tokens
          /\ slow \in BOOLEAN

Init == /\ row = [t \in Tokens |-> NoRow]
        /\ cookie = NoToken
        /\ call = [c \in Calls |-> Idle]
        /\ isActive = TRUE
        /\ clock = 0
        /\ started = 0
        /\ issued = 0
        /\ parent = [t \in Tokens |-> NoToken]
        /\ out = {}
        /\ ended = {}
        /\ dropped = {}
        /\ slow = FALSE

-----------------------------------------------------------------------------
At(c, kind, pc) == call[c].kind = kind /\ call[c].pc = pc
Goto(c, pc) == call' = [call EXCEPT ![c].pc = pc]

\* The browser calls the proxy, which forwards the cookie it has now.
Send(c, kind) ==
    /\ call[c].pc = "idle"
    /\ started < MaxCalls
    /\ started' = started + 1
    /\ call' = [call EXCEPT ![c] = [kind |-> kind, pc |-> "sent", token |-> cookie,
                                    sentAt |-> clock, barred |-> ~isActive]]
    /\ UNCHANGED <<row, cookie, isActive, clock, issued, history>>

\* login and register, once the password is accepted.  login does not read
\* isActive.
Accept(c) == /\ At(c, "login", "sent")
             /\ Goto(c, "issue")
             /\ UNCHANGED <<row, cookie, isActive, clock, started, issued, history>>

\* refresh without a cookie: 401, and nothing is touched.
NoCookie(c) == /\ At(c, "refresh", "sent")
               /\ call[c].token = NoToken
               /\ Goto(c, "kept")
               /\ UNCHANGED <<row, cookie, isActive, clock, started, issued, history>>

PastGrace(r) == r.revokedAt < clock - Grace
Stale(t) == row[t].state = "revoked" /\ PastGrace(row[t])

\* refresh: the cleanup of the sessions rotated longer than the grace ago.
Sweep(c) ==
    /\ At(c, "refresh", "sent")
    /\ call[c].token # NoToken
    /\ row' = [t \in Tokens |-> IF Stale(t) THEN Deleted(row[t]) ELSE row[t]]
    /\ Goto(c, "swept")
    /\ UNCHANGED <<cookie, isActive, clock, started, issued, history>>

Found(c) == row[call[c].token]

\* refresh: findUnique, and the branch its result selects.
Find(c) ==
    /\ At(c, "refresh", "swept")
    /\ Goto(c, CASE Found(c).state = "none"       -> "cleared"
                 [] Found(c).state # "none" /\ Found(c).expiresAt < clock -> "drop"
                 [] Found(c).state = "revoked" /\ Found(c).expiresAt >= clock ->
                       IF PastGrace(Found(c)) THEN "drop" ELSE "graceUser"
                 [] OTHER                         -> "liveUser")
    /\ UNCHANGED <<row, cookie, isActive, clock, started, issued, history>>

\* refresh: delete the expired or outdated session, clear the cookie, 401.
Drop(c) == /\ At(c, "refresh", "drop")
           /\ row' = [row EXCEPT ![call[c].token] = Deleted(@)]
           /\ Goto(c, "cleared")
           /\ UNCHANGED <<cookie, isActive, clock, started, issued, history>>

\* Mutant of GraceUser: a replay does not look at the user.
GraceUserUnchecked(c) ==
    /\ At(c, "refresh", "graceUser")
    /\ Goto(c, "kept")
    /\ UNCHANGED <<row, cookie, isActive, clock, started, issued, history>>

\* refresh in grace: the access token of the rotation is sent once more, to an
\* active user, and no cookie.
GraceUser(c) ==
    /\ At(c, "refresh", "graceUser")
    /\ Goto(c, IF isActive THEN "kept" ELSE "dropAll")
    /\ UNCHANGED <<row, cookie, isActive, clock, started, issued, history>>

\* refresh of a live session: is the user active?
LiveUser(c) ==
    /\ At(c, "refresh", "liveUser")
    /\ Goto(c, IF isActive THEN "rotate" ELSE "dropAll")
    /\ UNCHANGED <<row, cookie, isActive, clock, started, issued, history>>

\* refresh for an inactive user: deleteMany of all the user's sessions, 401.
DropAll(c) == /\ At(c, "refresh", "dropAll")
              /\ row' = [t \in Tokens |-> Deleted(row[t])]
              /\ Goto(c, "cleared")
              /\ UNCHANGED <<cookie, isActive, clock, started, issued, history>>

Revoked(r) == [r EXCEPT !.state = "revoked", !.revokedAt = clock]

\* Mutant of Rotate: the count of updateMany is not looked at.
RotateBlindly(c) ==
    LET t == call[c].token
    IN  /\ At(c, "refresh", "rotate")
        /\ row' = [row EXCEPT ![t] = IF @.state = "live" THEN Revoked(@) ELSE @]
        /\ Goto(c, "issue")
        /\ UNCHANGED <<cookie, isActive, clock, started, issued, history>>

\* refresh: updateMany where isRevoked is false; count 0 sends the loser of a
\* race to a second look.
Rotate(c) ==
    LET t == call[c].token
    IN  /\ At(c, "refresh", "rotate")
        /\ \/ /\ row[t].state = "live"
              /\ row' = [row EXCEPT ![t] = Revoked(@)]
              /\ Goto(c, "issue")
           \/ /\ row[t].state # "live"
              /\ Goto(c, "reread")
              /\ UNCHANGED row
        /\ UNCHANGED <<cookie, isActive, clock, started, issued, history>>

\* Mutant of Reread: the loser of the race is refused.
RereadRefused(c) ==
    /\ At(c, "refresh", "reread")
    /\ Goto(c, "cleared")
    /\ UNCHANGED <<row, cookie, isActive, clock, started, issued, history>>

\* refresh: the loser replays the winner's answer, if the grace is not over.
Reread(c) ==
    /\ At(c, "refresh", "reread")
    /\ Goto(c, IF Found(c).state = "revoked" /\ ~PastGrace(Found(c))
               THEN "kept" ELSE "cleared")
    /\ UNCHANGED <<row, cookie, isActive, clock, started, issued, history>>

\* issueRefreshSession: create the row, put its token into the cookie.
Issue(c) ==
    LET new == issued + 1
    IN  /\ call[c].pc = "issue"
        /\ issued < MaxCalls           \* bound, never reached before Send's
        /\ issued' = new
        /\ row' = [row EXCEPT ![new] = [state |-> "live", expiresAt |-> clock + Ttl,
                                        revokedAt |-> 0]]
        /\ parent' = [parent EXCEPT ![new] = IF call[c].kind = "refresh"
                                             THEN call[c].token ELSE NoToken]
        /\ call' = [call EXCEPT ![c].pc = "set", ![c].token = new]
        /\ UNCHANGED <<cookie, isActive, clock, started, out, ended, dropped, slow>>

\* logout: deleteMany of the session of this cookie, clear the cookie.
LogoutDelete(c) ==
    LET t == call[c].token
    IN  /\ At(c, "logout", "sent")
        /\ row' = [u \in Tokens |-> IF u = t THEN Deleted(row[u]) ELSE row[u]]
        /\ out' = out \cup ({t} \ {NoToken})
        /\ ended' = ended \cup {u \in {t} \ {NoToken} : row[u].state = "live"}
        /\ Goto(c, "cleared")
        /\ UNCHANGED <<cookie, isActive, clock, started, issued, parent, dropped, slow>>

-----------------------------------------------------------------------------
(* The world around the handlers. *)

Answered(c) == call[c].pc \in {"set", "cleared", "kept"}
Open == {c \in Calls : call[c].pc # "idle"}

\* The answer reaches the browser, through the proxy, and changes its cookie.
Deliver(c) ==
    /\ Answered(c)
    /\ cookie' = CASE call[c].pc = "set"     -> call[c].token
                   [] call[c].pc = "cleared" -> NoToken
                   [] call[c].pc = "kept"    -> cookie
    /\ call' = [call EXCEPT ![c] = Idle]
    /\ UNCHANGED <<row, isActive, clock, started, issued, history>>

\* The token whose rotation the browser will not hear of if c goes unanswered.
Unheard(c) == IF call[c].pc = "set" THEN {parent[call[c].token]}
              ELSE IF At(c, "refresh", "issue") THEN {call[c].token} ELSE {}

\* The connection breaks: the browser sees a network error.
Lose(c) == /\ Answered(c)
           /\ dropped' = (dropped \cup Unheard(c)) \ {NoToken}
           /\ call' = [call EXCEPT ![c] = Idle]
           /\ UNCHANGED <<row, cookie, isActive, clock, started, issued, parent, out, ended, slow>>

\* The backend stops and starts again: the calls it was working on are gone.
Crash == LET working == {c \in Open : ~Answered(c)}
         IN  /\ working # {}
             /\ dropped' = (dropped \cup UNION {Unheard(c) : c \in working}) \ {NoToken}
             /\ call' = [c \in Calls |-> IF c \in working THEN Idle ELSE call[c]]
             /\ UNCHANGED <<row, cookie, isActive, clock, started, issued,
                            parent, out, ended, slow>>

\* The flag is only ever changed in the database, by hand.
Deactivate == /\ isActive
              /\ isActive' = FALSE
              /\ UNCHANGED <<row, cookie, call, clock, started, issued, history>>

Tick == /\ clock < MaxTime
        /\ clock' = clock + 1
        /\ slow' = (slow \/ \E c \in Open : 2 * (clock + 1 - call[c].sentAt) > Grace)
        /\ UNCHANGED <<row, cookie, call, isActive, started, issued,
                       parent, out, ended, dropped>>

Refresh(c) == \/ NoCookie(c) \/ Sweep(c) \/ Find(c) \/ Drop(c)
              \/ GraceUser(c) \/ LiveUser(c) \/ DropAll(c)
              \/ Rotate(c) \/ Reread(c)

Next == \/ \E c \in Calls :
              \/ \E kind \in {"login", "refresh", "logout"} : Send(c, kind)
              \/ Accept(c) \/ Refresh(c) \/ Issue(c) \/ LogoutDelete(c)
              \/ Deliver(c) \/ Lose(c)
        \/ Crash
        \/ Deactivate
        \/ Tick

Spec == Init /\ [][Next]_vars

-----------------------------------------------------------------------------
(* Properties. *)

\* A session is rotated once, however many refreshes race for it: it has one
\* successor at most, and is not usable any more once it has one.
RotatedOnce == \A u, v \in Tokens :
                  parent[u] # NoToken => /\ parent[u] = parent[v] => u = v
                                         /\ row[parent[u]].state # "live"

\* "So that two parallel requests do not race" (docs/auth-pwa-ios.md, the note
\* on rotation): as long as no call takes longer than half the grace, a
\* refresh is refused only for a reason the user can name: the session was
\* logged out or expired, the account was disabled, the token is not one the
\* server ever rotated unheard because an answer got lost.
Expired(t) == row[t].expiresAt < clock

RefusedForAReason ==
    \A c \in Calls :
        At(c, "refresh", "cleared") =>
            \/ slow
            \/ ~isActive
            \/ call[c].token \in out \cup dropped
            \/ Expired(call[c].token)

\* A logout that finds the session live is final: no refresh that was already
\* past its checks can turn the deleted session into a new one.
LogoutIsFinal == \A t \in ended : /\ row[t].state = "none"
                                  /\ \A u \in Tokens : parent[u] # t

\* A refresh sent after the account was disabled brings no token, neither a
\* new one nor a replayed one.
DisabledGetsNothing ==
    \A c \in Calls : call[c].kind = "refresh" /\ call[c].barred /\ call[c].token # NoToken
                        => call[c].pc \notin {"rotate", "issue", "set", "kept"}
=============================================================================
