------------------------ MODULE AuthUserCache_proofs ------------------------
(***************************************************************************)
(* Proofs about AuthUserCache.  OldOnlyByRace is not inductive: what a     *)
(* request is about to store matters as much as what is stored, so the     *)
(* invariant says the same of both.                                        *)
(***************************************************************************)
EXTENDS AuthUserCache, FiniteSetTheorems, TLAPS

AnswersCurrent == \A r \in Requests :
                     req[r].pc = "active" /\ req[r].user \notin editing \cup raced
                        => req[r].seen = version[req[r].user]

IInv == TypeOK /\ OldOnlyByRace /\ AnswersCurrent

LEMMA Numbers == /\ Ttl \in Nat /\ MaxTime \in Nat /\ MaxEdits \in Nat
                 /\ MaxEntries \in Nat \ {0} /\ IsFiniteSet(Users)
                 /\ 0 \in Versions /\ 0 \in Time /\ NoEntry \in Entry
                 /\ ~NoEntry.held
<1>1. 0 \in Versions /\ 0 \in Time /\ 0 \in 0..(MaxTime + Ttl)
  BY CacheAssumption DEF Versions, Time
<1> QED
  BY <1>1, CacheAssumption DEF NoEntry, Entry

-----------------------------------------------------------------------------
(* Types. *)

\* What Store writes for a user.
LEMMA StoredEntry ==
  ASSUME TypeOK, NEW v \in Versions
  PROVE  [held |-> TRUE, version |-> v, until |-> clock + Ttl] \in Entry
<1>1. clock \in 0..MaxTime
  BY DEF TypeOK, Time
<1>2. clock + Ttl \in 0..(MaxTime + Ttl)
  BY <1>1, Numbers
<1> QED
  BY <1>2 DEF Entry

LEMMA NewRequest ==
  ASSUME TypeOK, NEW u \in Users, NEW s \in Versions,
         NEW p \in {"idle", "asked", "accepted"}
  PROVE  /\ [pc |-> p, user |-> u, seen |-> s, known |-> Over(u), began |-> clock]
               \in Request
         /\ [pc |-> p, user |-> u, seen |-> 0, known |-> 0, began |-> 0] \in Request
<1>1. Over(u) \in Versions
  BY Numbers DEF TypeOK, Over
<1> QED
  BY <1>1, Numbers DEF TypeOK, Request

LEMMA RequestFields ==
  ASSUME TypeOK, NEW r \in Requests
  PROVE  /\ req[r] \in Request /\ req[r].user \in Users /\ req[r].seen \in Versions
         /\ \A p \in {"refused", "accepted"} : [req[r] EXCEPT !.pc = p] \in Request
         /\ \A p \in {"active", "inactive"} : \A s \in Versions :
               [[req[r] EXCEPT !.pc = p] EXCEPT !.seen = s] \in Request
<1>1. req[r] \in Request
  BY DEF TypeOK
<1>2. req[r].user \in Users /\ req[r].seen \in Versions
  BY <1>1 DEF Request
<1>3. \A p \in {"refused", "accepted"} : [req[r] EXCEPT !.pc = p] \in Request
  BY <1>1 DEF Request
<1>4. \A p \in {"active", "inactive"} : \A s \in Versions :
               [[req[r] EXCEPT !.pc = p] EXCEPT !.seen = s] \in Request
  BY <1>1 DEF Request
<1> QED
  BY <1>1, <1>2, <1>3, <1>4

LEMMA InitTypes == Init => TypeOK
<1> SUFFICES ASSUME Init PROVE TypeOK
  OBVIOUS
<1>1. \A u \in Users : [pc |-> "idle", user |-> u, seen |-> 0,
                        known |-> 0, began |-> 0] \in Request
  BY Numbers DEF Request
<1>2. req \in [Requests -> Request]
  BY <1>1 DEF Init
<1>3. /\ cache \in [Users -> Entry] /\ version \in [Users -> Versions]
      /\ offSince \in [Users -> Time] /\ clock \in Time
  BY Numbers DEF Init
<1> QED
  BY <1>2, <1>3 DEF Init, TypeOK

LEMMA RequestTypes ==
  ASSUME TypeOK, NEW r \in Requests,
         \/ \E u \in Users : Hit(r, u) \/ Miss(r, u)
         \/ Query(r) \/ Refuse(r) \/ Store(r) \/ Finish(r)
  PROVE  TypeOK'
<1>r. req \in [Requests -> Request] /\ cache \in [Users -> Entry]
  BY DEF TypeOK
<1>1. ASSUME NEW u \in Users, Hit(r, u)
      PROVE  TypeOK'
  <2>1. cache[u].version \in Versions
    BY <1>r DEF Entry
  <2>2. req' \in [Requests -> Request]
    BY <1>1, <1>r, <2>1, NewRequest DEF Hit
  <2> QED
    BY <1>1, <2>2 DEF Hit, TypeOK
<1>2. ASSUME NEW u \in Users, Miss(r, u)
      PROVE  TypeOK'
  <2>1. req' \in [Requests -> Request]
    BY <1>2, <1>r, Numbers, NewRequest DEF Miss
  <2>2. cache' \in [Users -> Entry]
    BY <1>2, <1>r, Numbers DEF Miss
  <2> QED
    BY <1>2, <2>1, <2>2 DEF Miss, TypeOK
<1>3. CASE Query(r)
  <2>1. version[req[r].user] \in Versions
    BY RequestFields DEF TypeOK
  <2>2. PICK p \in {"active", "inactive"} :
           req' = [req EXCEPT ![r] = [[req[r] EXCEPT !.pc = p]
                                         EXCEPT !.seen = version[req[r].user]]]
    BY <1>3, <1>r DEF Query
  <2>3. req' \in [Requests -> Request]
    BY <1>r, <2>1, <2>2, RequestFields
  <2> QED
    BY <1>3, <2>3 DEF Query, TypeOK
<1>4. CASE Refuse(r)
  <2>1. req' = [req EXCEPT ![r] = [req[r] EXCEPT !.pc = "refused"]]
    BY <1>4 DEF Refuse
  <2>2. req' \in [Requests -> Request]
    BY <1>r, <2>1, RequestFields
  <2> QED
    BY <1>4, <2>2 DEF Refuse, TypeOK
<1>5. CASE Store(r)
  <2>1. req' = [req EXCEPT ![r] = [req[r] EXCEPT !.pc = "accepted"]]
    BY <1>5 DEF Store
  <2>2. req' \in [Requests -> Request]
    BY <1>r, <2>1, RequestFields
  <2>3. [held |-> TRUE, version |-> req[r].seen, until |-> clock + Ttl] \in Entry
    BY RequestFields, StoredEntry
  <2>4. cache' \in [Users -> Entry]
    BY <1>5, <1>r, <2>3, Numbers DEF Store
  <2> QED
    BY <1>5, <2>2, <2>4 DEF Store, TypeOK
<1>6. CASE Finish(r)
  <2>1. req' = [req EXCEPT ![r] = [pc |-> "idle", user |-> req[r].user, seen |-> 0,
                                   known |-> 0, began |-> 0]]
    BY <1>6, <1>r DEF Finish
  <2>2. req' \in [Requests -> Request]
    BY <1>r, <2>1, RequestFields, NewRequest, Numbers
  <2> QED
    BY <1>6, <2>2 DEF Finish, TypeOK
<1> QED
  BY <1>1, <1>2, <1>3, <1>4, <1>5, <1>6

LEMMA WriterTypes ==
  ASSUME TypeOK,
         \/ \E u \in Users : Edit(u) \/ Delete(u) \/ Invalidate(u) \/ Deactivate(u)
         \/ Tick
  PROVE  TypeOK'
<1>r. /\ version \in [Users -> Versions] /\ cache \in [Users -> Entry]
      /\ offSince \in [Users -> Time] /\ clock \in Time
      /\ editing \subseteq Users /\ raced \subseteq Users /\ isActive \subseteq Users
      /\ slow \in BOOLEAN
  BY DEF TypeOK
<1>1. ASSUME NEW u \in Users, Edit(u)
      PROVE  TypeOK'
  <2>1. version[u] + 1 \in Versions
    BY <1>1, <1>r, Numbers DEF Edit, Versions
  <2>2. version' \in [Users -> Versions] /\ editing' \subseteq Users
    BY <1>1, <1>r, <2>1 DEF Edit
  <2> QED
    BY <1>1, <2>2 DEF Edit, TypeOK
<1>2. ASSUME NEW u \in Users, Delete(u) \/ Deactivate(u)
      PROVE  TypeOK'
  <2>1. /\ isActive' \subseteq Users /\ editing' \subseteq Users
        /\ offSince' \in [Users -> Time]
    BY <1>2, <1>r DEF Delete, Deactivate
  <2> QED
    BY <1>2, <2>1 DEF Delete, Deactivate, TypeOK
<1>3. ASSUME NEW u \in Users, Invalidate(u)
      PROVE  TypeOK'
  <2>1. /\ cache' \in [Users -> Entry] /\ editing' \subseteq Users
        /\ raced' \subseteq Users
    BY <1>3, <1>r, Numbers DEF Invalidate
  <2> QED
    BY <1>3, <2>1 DEF Invalidate, TypeOK
<1>4. CASE Tick
  <2>1. clock' \in Time
    BY <1>4, <1>r, Numbers DEF Tick, Time
  <2>2. slow' \in BOOLEAN
    BY <1>4, <1>r DEF Tick
  <2> QED
    BY <1>4, <2>1, <2>2 DEF Tick, TypeOK
<1> QED
  BY <1>1, <1>2, <1>3, <1>4

-----------------------------------------------------------------------------
(* The latest row. *)

LEMMA RequestCurrent ==
  ASSUME IInv, NEW r \in Requests,
         \/ \E u \in Users : Hit(r, u) \/ Miss(r, u)
         \/ Query(r) \/ Refuse(r) \/ Store(r) \/ Finish(r)
  PROVE  OldOnlyByRace' /\ AnswersCurrent'
<1>r. /\ req \in [Requests -> Request] /\ cache \in [Users -> Entry]
      /\ req[r] \in Request /\ req[r].user \in Users
      /\ OldOnlyByRace /\ AnswersCurrent
  BY RequestFields DEF IInv, TypeOK
<1>u. UNCHANGED <<version, editing, raced>>
  BY DEF Hit, Miss, Query, Refuse, Store, Finish
<1>o. \A q \in Requests : q # r => req'[q] = req[q]
  BY <1>r DEF Hit, Miss, Query, Refuse, Store, Finish
<1>1. ASSUME NEW u \in Users, Hit(r, u) \/ Miss(r, u)
      PROVE  OldOnlyByRace' /\ AnswersCurrent'
  <2>1. req'[r].pc # "active"
    BY <1>1, <1>r DEF Hit, Miss
  <2>2. \A v \in Users : cache'[v] = cache[v] \/ ~cache'[v].held
    BY <1>1, <1>r, Numbers DEF Hit, Miss
  <2> QED
    BY <1>r, <1>u, <1>o, <2>1, <2>2 DEF OldOnlyByRace, AnswersCurrent
<1>2. CASE Query(r)
  <2>1. /\ req'[r].user = req[r].user
        /\ req'[r].seen = version[req[r].user]
        /\ cache' = cache
    BY <1>2, <1>r DEF Query, Request
  <2> QED
    BY <1>r, <1>u, <1>o, <2>1 DEF OldOnlyByRace, AnswersCurrent
<1>3. ASSUME Refuse(r) \/ Finish(r)
      PROVE  OldOnlyByRace' /\ AnswersCurrent'
  <2>1. req'[r].pc # "active" /\ cache' = cache
    BY <1>3, <1>r DEF Refuse, Finish, Request
  <2> QED
    BY <1>r, <1>u, <1>o, <2>1 DEF OldOnlyByRace, AnswersCurrent
<1>4. CASE Store(r)
  <2> DEFINE u == req[r].user
  <2>1. req'[r].pc # "active" /\ req[r].pc = "active"
    BY <1>4, <1>r DEF Store, Request
  <2>2. \A v \in Users : v # u => cache'[v] = cache[v] \/ ~cache'[v].held
    BY <1>4, <1>r, Numbers DEF Store
  <2>3. cache'[u].version = req[r].seen
    BY <1>4, <1>r DEF Store
  <2>4. u \notin editing \cup raced => req[r].seen = version[u]
    BY <1>r, <2>1 DEF AnswersCurrent
  <2>5. AnswersCurrent'
    BY <1>r, <1>u, <1>o, <2>1 DEF AnswersCurrent
  <2> HIDE DEF u
  <2>6. OldOnlyByRace'
    BY <1>r, <1>u, <2>2, <2>3, <2>4 DEF OldOnlyByRace
  <2> QED
    BY <2>5, <2>6
<1> QED
  BY <1>1, <1>2, <1>3, <1>4

LEMMA WriterCurrent ==
  ASSUME IInv,
         \/ \E u \in Users : Edit(u) \/ Delete(u) \/ Invalidate(u) \/ Deactivate(u)
         \/ Tick
  PROVE  OldOnlyByRace' /\ AnswersCurrent'
<1>r. /\ version \in [Users -> Versions] /\ cache \in [Users -> Entry]
      /\ \A q \in Requests : req[q].user \in Users
      /\ OldOnlyByRace /\ AnswersCurrent
  BY RequestFields DEF IInv, TypeOK
<1>1. ASSUME NEW u \in Users, Edit(u) \/ Delete(u)
      PROVE  OldOnlyByRace' /\ AnswersCurrent'
  <2>1. /\ UNCHANGED <<cache, req, raced>> /\ editing' = editing \cup {u}
        /\ \A v \in Users : v # u => version'[v] = version[v]
    BY <1>1, <1>r DEF Edit, Delete
  <2> QED
    BY <1>r, <2>1 DEF OldOnlyByRace, AnswersCurrent
<1>2. ASSUME NEW u \in Users, Invalidate(u)
      PROVE  OldOnlyByRace' /\ AnswersCurrent'
  <2>1. /\ UNCHANGED <<version, req>> /\ editing' = editing \ {u}
        /\ ~cache'[u].held
        /\ \A v \in Users : v # u => cache'[v] = cache[v]
        /\ raced \subseteq raced'
        /\ Asking(u) => u \in raced'
    BY <1>2, <1>r, Numbers DEF Invalidate
  <2>2. \A q \in Requests : req[q].pc = "active" /\ req[q].user = u => u \in raced'
    BY <2>1 DEF Asking
  <2> QED
    BY <1>r, <2>1, <2>2 DEF OldOnlyByRace, AnswersCurrent
<1>3. ASSUME Tick \/ \E u \in Users : Deactivate(u)
      PROVE  OldOnlyByRace' /\ AnswersCurrent'
  <2>1. UNCHANGED <<version, cache, req, editing, raced>>
    BY <1>3 DEF Tick, Deactivate
  <2> QED
    BY <1>r, <2>1 DEF OldOnlyByRace, AnswersCurrent
<1> QED
  BY <1>1, <1>2, <1>3

LEMMA Inductive == Init /\ [][Next]_vars => []IInv
<1>1. Init => IInv
  <2> SUFFICES ASSUME Init PROVE IInv
    OBVIOUS
  <2>1. OldOnlyByRace
    BY Numbers DEF Init, OldOnlyByRace
  <2>2. AnswersCurrent
    BY DEF Init, AnswersCurrent
  <2> QED
    BY <2>1, <2>2, InitTypes DEF IInv
<1>2. IInv /\ [Next]_vars => IInv'
  <2> SUFFICES ASSUME IInv, [Next]_vars PROVE IInv'
    OBVIOUS
  <2>1. CASE UNCHANGED vars
    BY <2>1 DEF IInv, vars, TypeOK, OldOnlyByRace, AnswersCurrent
  <2>2. ASSUME NEW r \in Requests,
               \/ \E u \in Users : Hit(r, u) \/ Miss(r, u)
               \/ Query(r) \/ Refuse(r) \/ Store(r) \/ Finish(r)
        PROVE  IInv'
    BY <2>2, RequestTypes, RequestCurrent DEF IInv
  <2>3. CASE \/ \E u \in Users : Edit(u) \/ Delete(u) \/ Invalidate(u) \/ Deactivate(u)
             \/ Tick
    BY <2>3, WriterTypes, WriterCurrent DEF IInv
  <2> QED
    BY <2>1, <2>2, <2>3 DEF Next
<1> QED
  BY <1>1, <1>2, PTL

\* Every variable keeps its type.
THEOREM TypeCorrect == Spec => []TypeOK
<1>1. IInv => TypeOK
  BY DEF IInv
<1> QED
  BY <1>1, Inductive, PTL DEF Spec

\* A stale row stays in the cache only by a race with a query.
THEOREM CacheCurrent == Spec => []OldOnlyByRace
<1>1. IInv => OldOnlyByRace
  BY DEF IInv
<1> QED
  BY <1>1, Inductive, PTL DEF Spec

-----------------------------------------------------------------------------
(* One's own edit.  What was known when the request began never exceeds the   *)
(* row, and the request's own query is answered after that.                   *)

SeenInv == /\ \A r \in Requests :
                 /\ req[r].known <= version[req[r].user]
                 /\ req[r].pc = "active" => req[r].seen >= req[r].known
           /\ OwnEditSeen

LEMMA Counted ==
  ASSUME TypeOK
  PROVE  /\ version \in [Users -> Nat]
         /\ \A q \in Requests : req[q].known \in Nat
<1>1. Versions \subseteq Nat
  BY Numbers DEF Versions
<1>2. \A q \in Requests : req[q] \in Request
  BY DEF TypeOK
<1>3. \A q \in Requests : req[q].known \in Versions
  BY <1>2 DEF Request
<1> QED
  BY <1>1, <1>3 DEF TypeOK

LEMMA RequestSeen ==
  ASSUME IInv, SeenInv, NEW r \in Requests,
         \/ \E u \in Users : Hit(r, u) \/ Miss(r, u)
         \/ Query(r) \/ Refuse(r) \/ Store(r) \/ Finish(r)
  PROVE  SeenInv'
<1>r. /\ req \in [Requests -> Request] /\ cache \in [Users -> Entry]
      /\ req[r] \in Request /\ req[r].user \in Users
      /\ version \in [Users -> Nat] /\ req[r].known \in Nat
      /\ OldOnlyByRace
  BY RequestFields, Counted DEF IInv, TypeOK
<1>u. UNCHANGED <<version, raced>>
  BY DEF Hit, Miss, Query, Refuse, Store, Finish
<1>o. \A q \in Requests : q # r => req'[q] = req[q]
  BY <1>r DEF Hit, Miss, Query, Refuse, Store, Finish
<1>s. SUFFICES /\ req'[r].known <= version[req'[r].user]
               /\ req'[r].pc = "active" => req'[r].seen >= req'[r].known
               /\ req'[r].pc = "accepted" /\ req'[r].user \notin raced
                     => req'[r].seen >= req'[r].known
  BY <1>u, <1>o DEF SeenInv, OwnEditSeen
<1>1. ASSUME NEW u \in Users, Hit(r, u)
      PROVE  /\ req'[r].known <= version[req'[r].user]
             /\ req'[r].pc # "active"
             /\ req'[r].user \notin raced => req'[r].seen >= req'[r].known
  <2>1. /\ req'[r].known = Over(u) /\ req'[r].user = u
        /\ req'[r].seen = cache[u].version /\ req'[r].pc = "accepted"
        /\ cache[u].held
    BY <1>1, <1>r DEF Hit, Valid
  <2>2. Over(u) <= version[u] /\ cache[u].version \in Nat
    BY <1>r, Numbers DEF Over, Entry, Versions
  <2>3. u \notin raced => cache[u].version >= Over(u)
    <3>1. CASE u \in editing
      BY <3>1, <2>2 DEF Over
    <3>2. CASE u \notin editing
      BY <3>2, <1>r, <2>1, <2>2 DEF Over, OldOnlyByRace
    <3> QED
      BY <3>1, <3>2
  <2> QED
    BY <2>1, <2>2, <2>3
<1>2. ASSUME NEW u \in Users, Miss(r, u)
      PROVE  /\ req'[r].known <= version[req'[r].user]
             /\ req'[r].pc = "asked"
  <2>1. req'[r].known = Over(u) /\ req'[r].user = u /\ req'[r].pc = "asked"
    BY <1>2, <1>r DEF Miss
  <2> QED
    BY <2>1, <1>r DEF Over
<1>3. ASSUME Query(r)
      PROVE  /\ req'[r].known <= version[req'[r].user]
             /\ req'[r].seen >= req'[r].known
  <2>1. /\ req'[r].user = req[r].user /\ req'[r].known = req[r].known
        /\ req'[r].seen = version[req[r].user]
    BY <1>3, <1>r DEF Query, Request
  <2>2. version[req[r].user] \in Nat
    BY <1>r
  <2> QED
    BY <2>1, <2>2, <1>r DEF SeenInv
<1>4. ASSUME Refuse(r) \/ Store(r)
      PROVE  /\ req'[r].known <= version[req'[r].user]
             /\ req'[r].pc # "active"
             /\ req'[r].pc = "accepted" => req'[r].seen >= req'[r].known
  <2>1. /\ req'[r].user = req[r].user /\ req'[r].known = req[r].known
        /\ req'[r].seen = req[r].seen /\ req'[r].pc \in {"refused", "accepted"}
        /\ req'[r].pc = "accepted" => req[r].pc = "active"
    BY <1>4, <1>r DEF Refuse, Store, Request
  <2> QED
    BY <2>1 DEF SeenInv
<1>5. ASSUME Finish(r)
      PROVE  req'[r].known <= version[req'[r].user] /\ req'[r].pc = "idle"
  <2>1. req'[r].known = 0 /\ req'[r].user = req[r].user /\ req'[r].pc = "idle"
    BY <1>5, <1>r DEF Finish
  <2> QED
    BY <2>1, <1>r
<1> QED
  BY <1>1, <1>2, <1>3, <1>4, <1>5

LEMMA WriterSeen ==
  ASSUME IInv, SeenInv,
         \/ \E u \in Users : Edit(u) \/ Delete(u) \/ Invalidate(u) \/ Deactivate(u)
         \/ Tick
  PROVE  SeenInv'
<1>1. /\ version \in [Users -> Nat]
      /\ \A q \in Requests : req[q].user \in Users /\ req[q].known \in Nat
  BY RequestFields, Counted DEF IInv
<1>2. /\ UNCHANGED req /\ raced \subseteq raced'
      /\ \A v \in Users : version'[v] \in Nat /\ version'[v] >= version[v]
  BY <1>1 DEF Edit, Delete, Invalidate, Deactivate, Tick
<1>3. \A q \in Requests : req[q].known <= version'[req[q].user]
  <2> SUFFICES ASSUME NEW q \in Requests PROVE req[q].known <= version'[req[q].user]
    OBVIOUS
  <2>1. req[q].known <= version[req[q].user] /\ version[req[q].user] \in Nat
    BY <1>1 DEF SeenInv
  <2> QED
    BY <1>1, <1>2, <2>1
<1> QED
  BY <1>2, <1>3 DEF SeenInv, OwnEditSeen

\* A request that begins after an edit is over sees that edit, unless a query
\* was out when the edit was made known.
THEOREM EditSeen == Spec => []OwnEditSeen
<1>1. Init => SeenInv
  <2> SUFFICES ASSUME Init PROVE SeenInv
    OBVIOUS
  <2>1. \A r \in Requests :
           req[r].pc = "idle" /\ req[r].known = 0 /\ version[req[r].user] = 0
    BY DEF Init
  <2> QED
    BY <2>1 DEF SeenInv, OwnEditSeen
<1>2. IInv /\ SeenInv /\ [Next]_vars => SeenInv'
  <2> SUFFICES ASSUME IInv, SeenInv, [Next]_vars PROVE SeenInv'
    OBVIOUS
  <2>1. CASE UNCHANGED vars
    BY <2>1 DEF vars, SeenInv, OwnEditSeen
  <2> QED
    BY <2>1, RequestSeen, WriterSeen DEF Next
<1>3. SeenInv => OwnEditSeen
  BY DEF SeenInv
<1> QED
  BY <1>1, <1>2, <1>3, Inductive, PTL DEF Spec

-----------------------------------------------------------------------------
(* The bound. *)

LEMMA SmallerHeld ==
  ASSUME Bounded, Held' \subseteq Held
  PROVE  Bounded'
<1>1. IsFiniteSet(Held)
  BY Numbers, FS_Subset DEF Held
<1>2. Cardinality(Held') <= Cardinality(Held)
  BY <1>1, FS_Subset
<1>3. Cardinality(Held) \in Nat /\ Cardinality(Held') \in Nat
  BY <1>1, FS_Subset, FS_CardinalityType
<1> QED
  BY <1>2, <1>3, Numbers DEF Bounded

LEMMA StoreBounded ==
  ASSUME TypeOK, Bounded, NEW r \in Requests, Store(r)
  PROVE  Bounded'
<1> DEFINE u == req[r].user
<1>1. Kept \subseteq Held /\ IsFiniteSet(Held) /\ IsFiniteSet(Kept)
  <2>1. Kept \subseteq Held
    BY DEF Kept
  <2>2. IsFiniteSet(Held)
    BY Numbers, FS_Subset DEF Held
  <2> QED
    BY <2>1, <2>2, FS_Subset
<1>2. Cardinality(Kept) \in Nat /\ Cardinality(Kept) < MaxEntries
  <2>1. Cardinality(Kept) \in Nat
    BY <1>1, FS_CardinalityType
  <2>2. Cardinality({}) = 0
    BY FS_EmptySet
  <2> QED
    BY <2>1, <2>2, Numbers DEF Kept
<1>3. Held' \subseteq Kept \cup {u}
  BY Numbers DEF Store, Held
<1>4. /\ IsFiniteSet(Kept \cup {u})
      /\ Cardinality(Kept \cup {u}) <= Cardinality(Kept) + 1
  <2>1. IsFiniteSet(Kept \cup {u})
        /\ Cardinality(Kept \cup {u}) =
              IF u \in Kept THEN Cardinality(Kept) ELSE Cardinality(Kept) + 1
    BY <1>1, FS_AddElement
  <2> QED
    BY <1>2, <2>1
<1>5. Cardinality(Held') <= Cardinality(Kept \cup {u})
      /\ Cardinality(Held') \in Nat /\ Cardinality(Kept \cup {u}) \in Nat
  BY <1>3, <1>4, FS_Subset, FS_CardinalityType
<1> QED
  BY <1>2, <1>4, <1>5, Numbers DEF Bounded

\* The cache never outgrows MAX_ENTRIES.
THEOREM CacheBounded == Spec => []Bounded
<1>1. Init => Bounded
  <2> SUFFICES ASSUME Init PROVE Bounded
    OBVIOUS
  <2>1. Held = {}
    BY Numbers DEF Init, Held
  <2> QED
    BY <2>1, FS_EmptySet, Numbers DEF Bounded
<1>2. TypeOK /\ Bounded /\ [Next]_vars => Bounded'
  <2> SUFFICES ASSUME TypeOK, Bounded, [Next]_vars PROVE Bounded'
    OBVIOUS
  <2>1. ASSUME NEW r \in Requests, Store(r)
        PROVE  Bounded'
    BY <2>1, StoreBounded
  <2>2. ASSUME NEW r \in Requests, NEW u \in Users, Miss(r, u)
        PROVE  Bounded'
    <3>1. \A v \in Users : cache'[v].held => cache[v].held
      BY <2>2, Numbers DEF Miss, TypeOK
    <3> QED
      BY <3>1, SmallerHeld DEF Held
  <2>3. ASSUME NEW u \in Users, Invalidate(u)
        PROVE  Bounded'
    <3>1. \A v \in Users : cache'[v].held => cache[v].held
      BY <2>3, Numbers DEF Invalidate, TypeOK
    <3> QED
      BY <3>1, SmallerHeld DEF Held
  <2>4. CASE UNCHANGED cache
    BY <2>4, SmallerHeld DEF Held
  <2> QED
    BY <2>1, <2>2, <2>3, <2>4
       DEF Next, vars, Hit, Query, Refuse, Finish, Edit, Delete, Deactivate, Tick
<1> QED
  BY <1>1, <1>2, TypeCorrect, PTL DEF Spec

-----------------------------------------------------------------------------
(* An account switched off.  OffWithinTtl needs how old an answer, and with   *)
(* it an entry, can be: a query that is not slow was asked at most Delay ago, *)
(* and if it found a user who is inactive by now, it was asked before that.   *)

Timed == /\ \A r \in Requests : req[r].began <= clock
         /\ \A u \in Users : offSince[u] <= clock
         /\ \A u \in Users : cache[u].held => cache[u].until <= clock + Ttl

AskedBefore == \A r \in Requests :
                  req[r].pc = "active" /\ req[r].user \notin isActive
                     => req[r].began <= offSince[req[r].user]

AskedLately == ~slow => \A r \in Requests : req[r].pc \in {"asked", "active"}
                                               => clock <= req[r].began + Delay

HeldBriefly == ~slow => \A u \in Users \ isActive :
                           cache[u].held => cache[u].until <= offSince[u] + Ttl + Delay

OffInv == Timed /\ AskedBefore /\ AskedLately /\ HeldBriefly /\ OffWithinTtl

LEMMA Clocked ==
  ASSUME TypeOK
  PROVE  /\ clock \in Nat /\ Ttl \in Nat /\ Delay \in Nat
         /\ offSince \in [Users -> Nat]
         /\ \A q \in Requests : req[q].began \in Nat /\ req[q].user \in Users
         /\ \A u \in Users : cache[u].until \in Nat
<1>1. Time \subseteq Nat /\ 0..(MaxTime + Ttl) \subseteq Nat
  BY Numbers DEF Time
<1>2. \A q \in Requests : req[q] \in Request
  BY DEF TypeOK
<1>3. \A u \in Users : cache[u] \in Entry
  BY DEF TypeOK
<1> QED
  BY <1>1, <1>2, <1>3, CacheAssumption DEF TypeOK, Request, Entry

\* A step of a request r changes neither the users nor the time: what has to be
\* shown is about r and about the entries.
LEMMA RequestOff ==
  ASSUME TypeOK, OffInv, NEW r \in Requests,
         \/ \E u \in Users : Hit(r, u) \/ Miss(r, u)
         \/ Query(r) \/ Refuse(r) \/ Store(r) \/ Finish(r)
  PROVE  OffInv'
<1>r. /\ req \in [Requests -> Request] /\ cache \in [Users -> Entry]
      /\ req[r] \in Request /\ req[r].user \in Users
      /\ isActive \subseteq Users
  BY RequestFields DEF TypeOK
<1>t. /\ clock \in Nat /\ Ttl \in Nat /\ Delay \in Nat
      /\ offSince \in [Users -> Nat]
      /\ req[r].began \in Nat /\ req[r].began <= clock
      /\ \A u \in Users : cache[u].until \in Nat
      /\ \A u \in Users : offSince[u] <= clock
  BY Clocked DEF OffInv, Timed
<1>u. UNCHANGED <<isActive, clock, offSince, slow>>
  BY DEF Hit, Miss, Query, Refuse, Store, Finish
<1>o. \A q \in Requests : q # r => req'[q] = req[q]
  BY <1>r DEF Hit, Miss, Query, Refuse, Store, Finish
<1>a. ASSUME NEW u \in Users, Hit(r, u)
      PROVE  OffInv'
  <2>1. /\ req'[r].pc = "accepted" /\ req'[r].user = u /\ req'[r].began = clock
        /\ cache[u].held /\ cache[u].until > clock /\ cache' = cache
    BY <1>a, <1>r DEF Hit, Valid
  <2>2. u \notin isActive /\ ~slow => clock <= offSince[u] + Ttl + Delay
    BY <1>t, <2>1 DEF OffInv, HeldBriefly
  <2>3. Timed'
    BY <1>u, <1>o, <1>t, <2>1 DEF OffInv, Timed
  <2>4. AskedBefore' /\ AskedLately' /\ HeldBriefly'
    BY <1>u, <1>o, <2>1 DEF OffInv, AskedBefore, AskedLately, HeldBriefly
  <2>5. OffWithinTtl'
    BY <1>u, <1>o, <2>1, <2>2 DEF OffInv, OffWithinTtl
  <2> QED
    BY <2>3, <2>4, <2>5 DEF OffInv
<1>b. ASSUME NEW u \in Users, Miss(r, u)
      PROVE  OffInv'
  <2>1. /\ req'[r].pc = "asked" /\ req'[r].began = clock
        /\ \A v \in Users : cache'[v] = cache[v] \/ ~cache'[v].held
    BY <1>b, <1>r, Numbers DEF Miss
  <2>2. Timed'
    BY <1>u, <1>o, <1>t, <2>1 DEF OffInv, Timed
  <2>3. AskedBefore' /\ OffWithinTtl'
    BY <1>u, <1>o, <2>1 DEF OffInv, AskedBefore, OffWithinTtl
  <2>4. AskedLately'
    BY <1>u, <1>o, <1>t, <2>1 DEF OffInv, AskedLately
  <2>5. HeldBriefly'
    BY <1>u, <2>1 DEF OffInv, HeldBriefly
  <2> QED
    BY <2>2, <2>3, <2>4, <2>5 DEF OffInv
<1>c. CASE Query(r)
  <2>1. /\ req'[r].user = req[r].user /\ req'[r].began = req[r].began
        /\ req'[r].pc \in {"active", "inactive"}
        /\ req'[r].pc = "active" => req[r].user \in isActive
        /\ req[r].pc = "asked" /\ cache' = cache
    BY <1>c, <1>r DEF Query, Request
  <2>2. Timed' /\ AskedBefore'
    BY <1>u, <1>o, <2>1 DEF OffInv, Timed, AskedBefore
  <2>3. AskedLately' /\ HeldBriefly' /\ OffWithinTtl'
    BY <1>u, <1>o, <2>1 DEF OffInv, AskedLately, HeldBriefly, OffWithinTtl
  <2> QED
    BY <2>2, <2>3 DEF OffInv
<1>d. CASE Refuse(r) \/ Finish(r)
  <2>1. /\ req'[r].pc \in {"refused", "idle"}
        /\ req'[r].began = req[r].began \/ req'[r].began = 0
        /\ cache' = cache
    BY <1>d, <1>r DEF Refuse, Finish, Request
  <2>2. Timed'
    BY <1>u, <1>o, <1>t, <2>1 DEF OffInv, Timed
  <2>3. AskedBefore' /\ AskedLately' /\ HeldBriefly' /\ OffWithinTtl'
    BY <1>u, <1>o, <2>1 DEF OffInv, AskedBefore, AskedLately, HeldBriefly, OffWithinTtl
  <2> QED
    BY <2>2, <2>3 DEF OffInv
<1>e. CASE Store(r)
  <2>1. /\ req[r].pc = "active" /\ req'[r].pc = "accepted"
        /\ req'[r].user = req[r].user /\ req'[r].began = req[r].began
    BY <1>e, <1>r DEF Store, Request
  <2>2. \A v \in Users : v # req[r].user => cache'[v] = cache[v] \/ ~cache'[v].held
    BY <1>e, <1>r, Numbers DEF Store
  <2>3. cache'[req[r].user].until = clock + Ttl
    BY <1>e, <1>r DEF Store
  <2>4. req[r].user \notin isActive => req[r].began <= offSince[req[r].user]
    BY <2>1 DEF OffInv, AskedBefore
  <2>5. ~slow => clock <= req[r].began + Delay
    BY <2>1 DEF OffInv, AskedLately
  <2>6. Timed'
    BY <1>u, <1>o, <1>t, <2>1, <2>2, <2>3 DEF OffInv, Timed
  <2>7. AskedBefore' /\ AskedLately'
    BY <1>u, <1>o, <2>1 DEF OffInv, AskedBefore, AskedLately
  <2>8. HeldBriefly'
    <3> SUFFICES ASSUME ~slow, NEW v \in Users \ isActive, cache'[v].held
                 PROVE  cache'[v].until <= offSince[v] + Ttl + Delay
      BY <1>u DEF HeldBriefly
    <3>1. CASE v = req[r].user
      BY <3>1, <1>r, <1>t, <2>3, <2>4, <2>5
    <3>2. CASE v # req[r].user
      BY <3>2, <2>2 DEF OffInv, HeldBriefly
    <3> QED
      BY <3>1, <3>2
  <2>9. OffWithinTtl'
    <3>1. req[r].user \notin isActive
             => req[r].began <= offSince[req[r].user] + Ttl + Delay
      BY <1>r, <1>t, <2>4
    <3> QED
      BY <1>u, <1>o, <2>1, <3>1 DEF OffInv, OffWithinTtl
  <2> QED
    BY <2>6, <2>7, <2>8, <2>9 DEF OffInv
<1> QED
  BY <1>a, <1>b, <1>c, <1>d, <1>e

LEMMA WriterOff ==
  ASSUME TypeOK, OffInv,
         \/ \E u \in Users : Edit(u) \/ Delete(u) \/ Invalidate(u) \/ Deactivate(u)
         \/ Tick
  PROVE  OffInv'
<1>t. /\ clock \in Nat /\ Ttl \in Nat /\ Delay \in Nat
      /\ offSince \in [Users -> Nat]
      /\ \A q \in Requests : req[q].began \in Nat /\ req[q].user \in Users
      /\ \A u \in Users : cache[u].until \in Nat
      /\ isActive \subseteq Users /\ cache \in [Users -> Entry]
  BY Clocked DEF TypeOK
<1>a. ASSUME NEW u \in Users, Edit(u)
      PROVE  OffInv'
  BY <1>a DEF Edit, OffInv, Timed, AskedBefore, AskedLately, HeldBriefly, OffWithinTtl
<1>b. ASSUME NEW u \in Users, Delete(u) \/ Deactivate(u)
      PROVE  OffInv'
  <2>1. /\ UNCHANGED <<cache, req, clock, slow>>
        /\ isActive' = isActive \ {u}
        /\ offSince' = [offSince EXCEPT ![u] = clock]
    BY <1>b DEF Delete, Deactivate
  <2>2. /\ offSince'[u] = clock
        /\ \A v \in Users : v # u => offSince'[v] = offSince[v]
    BY <1>t, <2>1
  <2>3. Timed'
    BY <1>t, <2>1, <2>2 DEF OffInv, Timed
  <2>4. AskedBefore' /\ AskedLately'
    BY <1>t, <2>1, <2>2 DEF OffInv, Timed, AskedBefore, AskedLately
  <2>5. HeldBriefly'
    <3> SUFFICES ASSUME ~slow, NEW v \in Users \ isActive', cache[v].held
                 PROVE  cache[v].until <= offSince'[v] + Ttl + Delay
      BY <2>1 DEF HeldBriefly
    <3>1. CASE v = u
      BY <3>1, <1>t, <2>2 DEF OffInv, Timed
    <3>2. CASE v # u
      BY <3>2, <2>1, <2>2 DEF OffInv, HeldBriefly
    <3> QED
      BY <3>1, <3>2
  <2>6. OffWithinTtl'
    <3> SUFFICES ASSUME NEW q \in Requests, req[q].pc = "accepted",
                        req[q].user \notin isActive', ~slow
                 PROVE  req[q].began <= offSince'[req[q].user] + Ttl + Delay
      BY <2>1 DEF OffWithinTtl
    <3>1. CASE req[q].user = u
      BY <3>1, <1>t, <2>2 DEF OffInv, Timed
    <3>2. CASE req[q].user # u
      BY <3>2, <1>t, <2>1, <2>2 DEF OffInv, OffWithinTtl
    <3> QED
      BY <3>1, <3>2
  <2> QED
    BY <2>3, <2>4, <2>5, <2>6 DEF OffInv
<1>c. ASSUME NEW u \in Users, Invalidate(u)
      PROVE  OffInv'
  <2>1. /\ UNCHANGED <<isActive, req, clock, offSince, slow>>
        /\ \A v \in Users : cache'[v] = cache[v] \/ ~cache'[v].held
    BY <1>c, <1>t, Numbers DEF Invalidate
  <2>2. Timed' /\ HeldBriefly'
    BY <2>1 DEF OffInv, Timed, HeldBriefly
  <2>3. AskedBefore' /\ AskedLately' /\ OffWithinTtl'
    BY <2>1 DEF OffInv, AskedBefore, AskedLately, OffWithinTtl
  <2> QED
    BY <2>2, <2>3 DEF OffInv
<1>d. CASE Tick
  <2>1. /\ UNCHANGED <<isActive, cache, req, offSince>>
        /\ clock' = clock + 1
        /\ ~slow' => ~slow
        /\ ~slow' => \A q \in Requests : req[q].pc \in {"asked", "active"}
                                            => ~(clock + 1 - req[q].began > Delay)
    BY <1>d DEF Tick
  <2>2. Timed'
    BY <1>t, <2>1 DEF OffInv, Timed
  <2>3. AskedLately'
    BY <1>t, <2>1 DEF AskedLately
  <2>4. AskedBefore' /\ HeldBriefly' /\ OffWithinTtl'
    BY <2>1 DEF OffInv, AskedBefore, HeldBriefly, OffWithinTtl
  <2> QED
    BY <2>2, <2>3, <2>4 DEF OffInv
<1> QED
  BY <1>a, <1>b, <1>c, <1>d

\* Nobody is accepted longer than the lifetime of an entry, and a query, after
\* their account was switched off, if no query is slow.
THEOREM OffInTime == Spec => []OffWithinTtl
<1>1. Init => OffInv
  <2> SUFFICES ASSUME Init PROVE OffInv
    OBVIOUS
  <2>1. /\ \A r \in Requests : req[r].pc = "idle" /\ req[r].began = 0
        /\ \A u \in Users : ~cache[u].held /\ offSince[u] = 0
        /\ clock = 0
    BY Numbers DEF Init
  <2> QED
    BY <2>1 DEF OffInv, Timed, AskedBefore, AskedLately, HeldBriefly, OffWithinTtl
<1>2. TypeOK /\ OffInv /\ [Next]_vars => OffInv'
  <2> SUFFICES ASSUME TypeOK, OffInv, [Next]_vars PROVE OffInv'
    OBVIOUS
  <2>1. CASE UNCHANGED vars
    BY <2>1 DEF vars, OffInv, Timed, AskedBefore, AskedLately, HeldBriefly, OffWithinTtl
  <2> QED
    BY <2>1, RequestOff, WriterOff DEF Next
<1>3. OffInv => OffWithinTtl
  BY DEF OffInv
<1> QED
  BY <1>1, <1>2, <1>3, TypeCorrect, PTL DEF Spec
=============================================================================
