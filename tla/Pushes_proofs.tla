--------------------------- MODULE Pushes_proofs ---------------------------
(***************************************************************************)
(* Who gets a push, and what becomes of it.  First ChatPushes, for every   *)
(* number of messages, devices and failures: the limiter alone, for every  *)
(* set of calls and every limit, then the devices.  After it RoomViews and *)
(* the room access cache that its handlers ask.  The person's page and its *)
(* sockets use the cache as any gateway may, so what is proved of the      *)
(* cache alone holds in the composition.  That who gets no pushes looks at *)
(* the room follows from where the page's last word to the server is.      *)
(***************************************************************************)
EXTENDS ChatPushes, RoomViews, FiniteSetTheorems, SequenceTheorems, TLAPS

\* A limiter, in whatever composition its steps are taken.
Limiter == LimiterInit /\ [][LimiterNext]_limiterVars

\* LimiterTypeOK without the sign of active: that the counter never goes below zero
\* is a consequence of counting exactly, proved at the end.
Types == /\ active \in Int
         /\ waiting \in Seq(Calls)
         /\ resumed \in Seq(Calls)
         /\ pc \in [Calls -> {"idle", "waiting", "resumed", "running"}]

\* The types are preserved by every step.
LEMMA TypeInit == LimiterInit => Types
BY DEF LimiterInit, Types

LEMMA TypeNext == Types /\ [LimiterNext]_limiterVars => Types'
<1> SUFFICES ASSUME Types, [LimiterNext]_limiterVars PROVE Types'
  OBVIOUS
<1> USE DEF Types
<1>1. ASSUME NEW c \in Calls, Park(c) PROVE Types'
  BY <1>1 DEF Park
<1>2. ASSUME NEW c \in Calls, Enter(c) PROVE Types'
  BY <1>2 DEF Enter
<1>3. ASSUME NEW c \in Calls, Release(c) PROVE Types'
  <2>1. CASE waiting = <<>>
    BY <1>3, <2>1 DEF Release
  <2>2. CASE waiting # <<>>
    <3>1. Head(waiting) \in Calls /\ Tail(waiting) \in Seq(Calls)
      BY <2>2
    <3>2. Append(resumed, Head(waiting)) \in Seq(Calls)
      BY <3>1
    <3>3. pc' \in [Calls -> {"idle", "waiting", "resumed", "running"}]
      BY <1>3, <2>2, <3>1 DEF Release
    <3>4. active' \in Int
      BY <1>3 DEF Release
    <3> QED BY <1>3, <2>2, <3>1, <3>2, <3>3, <3>4 DEF Release
  <2> QED BY <2>1, <2>2
<1>4. CASE Resume
  BY <1>4 DEF Resume
<1>5. CASE UNCHANGED limiterVars
  BY <1>5 DEF limiterVars
<1> QED BY <1>1, <1>2, <1>3, <1>4, <1>5 DEF LimiterNext

LEMMA TypesCorrect == Limiter => []Types
BY TypeInit, TypeNext, PTL DEF Limiter

-----------------------------------------------------------------------------
\* No slot is lost: a parked call always has a running or a resolved call
\* before it for every slot.  Park needs active >= Limit, and Release moves a
\* unit from active to resumed.
LEMMA LimiterLosesNoSlot == Limiter => []NoLostSlot
<1>1. LimiterInit => NoLostSlot
  BY DEF LimiterInit, NoLostSlot
<1>2. Types /\ NoLostSlot /\ [LimiterNext]_limiterVars => NoLostSlot'
  <2> SUFFICES ASSUME Types, NoLostSlot, [LimiterNext]_limiterVars PROVE NoLostSlot'
    OBVIOUS
  <2> USE LimitAssumption DEF Types, NoLostSlot
  <2>1. ASSUME NEW c \in Calls, Park(c) PROVE NoLostSlot'
    BY <2>1 DEF Park
  <2>2. ASSUME NEW c \in Calls, Enter(c) PROVE NoLostSlot'
    BY <2>2 DEF Enter
  <2>3. ASSUME NEW c \in Calls, Release(c) PROVE NoLostSlot'
    <3>1. CASE waiting = <<>>
      BY <2>3, <3>1 DEF Release
    <3>2. CASE waiting # <<>>
      BY <2>3, <3>2 DEF Release
    <3> QED BY <3>1, <3>2
  <2>4. CASE Resume
    BY <2>4 DEF Resume
  <2>5. CASE UNCHANGED limiterVars
    BY <2>5 DEF limiterVars
  <2> QED BY <2>1, <2>2, <2>3, <2>4, <2>5 DEF LimiterNext
<1> QED BY <1>1, <1>2, TypesCorrect, PTL DEF Limiter

-----------------------------------------------------------------------------
(* The counter.  Release is right to subtract one only if each parked or   *)
(* resolved call is still where the queue says it is, and only once.       *)

Queued(q, label) ==
    /\ \A i \in 1..Len(q) : pc[q[i]] = label
    /\ \A i, j \in 1..Len(q) : q[i] = q[j] => i = j

CountInv == /\ Queued(waiting, "waiting")
            /\ Queued(resumed, "resumed")
            /\ IsFiniteSet(Running)
            /\ active = Cardinality(Running)

LEMMA CountEnter == ASSUME Types, CountInv, NEW c \in Calls, Enter(c)
                    PROVE  CountInv'
<1>1. Running' = Running \cup {c} /\ c \notin Running
  BY DEF Types, Enter, Running
<1>2. IsFiniteSet(Running') /\ active' = Cardinality(Running')
  BY <1>1, FS_AddElement DEF CountInv, Enter
<1>3. Queued(waiting, "waiting")' /\ Queued(resumed, "resumed")'
  BY DEF Types, CountInv, Queued, Enter
<1> QED BY <1>2, <1>3 DEF CountInv

LEMMA CountPark == ASSUME Types, CountInv, NEW c \in Calls, Park(c)
                   PROVE  CountInv'
<1>1. Running' = Running
  BY DEF Types, Park, Running
<1>2. \A i \in 1..Len(waiting) : waiting[i] # c
  BY DEF Types, CountInv, Queued, Park
<1>3. /\ Len(waiting') = Len(waiting) + 1
      /\ \A i \in 1..Len(waiting) : waiting'[i] = waiting[i]
      /\ waiting'[Len(waiting) + 1] = c
  BY DEF Types, Park
<1>4. Queued(waiting, "waiting")'
  BY <1>2, <1>3 DEF Types, CountInv, Queued, Park
<1>5. Queued(resumed, "resumed")'
  BY DEF Types, CountInv, Queued, Park
<1> QED BY <1>1, <1>4, <1>5 DEF CountInv, Park

LEMMA CountResume == ASSUME Types, CountInv, Resume PROVE CountInv'
<1> DEFINE c == Head(resumed)
<1>1. c \in Calls /\ c = resumed[1] /\ pc[c] = "resumed"
  BY DEF Types, CountInv, Queued, Resume
<1>2. Running' = Running \cup {c} /\ c \notin Running
  BY <1>1 DEF Types, Resume, Running
<1>3. IsFiniteSet(Running') /\ active' = Cardinality(Running')
  BY <1>2, FS_AddElement DEF CountInv, Resume
<1>4. /\ Len(resumed') = Len(resumed) - 1
      /\ \A i \in 1..Len(resumed') : resumed'[i] = resumed[i + 1]
  BY DEF Types, Resume
<1>5. Queued(resumed, "resumed")'
  BY <1>1, <1>4 DEF Types, CountInv, Queued, Resume
<1>6. Queued(waiting, "waiting")'
  BY <1>1 DEF Types, CountInv, Queued, Resume
<1> QED BY <1>3, <1>5, <1>6 DEF CountInv

LEMMA CountRelease == ASSUME Types, CountInv, NEW c \in Calls, Release(c)
                      PROVE  CountInv'
<1>1. pc[c] = "running" /\ pc'[c] = "idle" /\ active' = active - 1
  <2>1. CASE waiting = <<>>
    BY <2>1 DEF Types, Release
  <2>2. CASE waiting # <<>>
    <3>1. Head(waiting) \in Calls /\ pc[Head(waiting)] = "waiting"
      BY <2>2 DEF Types, CountInv, Queued
    <3> QED BY <2>2, <3>1 DEF Types, Release
  <2> QED BY <2>1, <2>2
<1>2. Running' = Running \ {c} /\ c \in Running
  <2>1. CASE waiting = <<>>
    BY <2>1, <1>1 DEF Types, Release, Running
  <2>2. CASE waiting # <<>>
    <3>1. Head(waiting) \in Calls /\ pc[Head(waiting)] = "waiting"
      BY <2>2 DEF Types, CountInv, Queued
    <3> QED BY <2>2, <3>1, <1>1 DEF Types, Release, Running
  <2> QED BY <2>1, <2>2
<1>3. IsFiniteSet(Running') /\ active' = Cardinality(Running')
  BY <1>1, <1>2, FS_RemoveElement DEF CountInv
<1>4. CASE waiting = <<>>
  <2>1. Queued(waiting, "waiting")' /\ Queued(resumed, "resumed")'
    BY <1>4 DEF Types, CountInv, Queued, Release
  <2> QED BY <1>3, <2>1 DEF CountInv
<1>5. CASE waiting # <<>>
  <2> DEFINE h == Head(waiting)
  <2>1. h \in Calls /\ h = waiting[1] /\ pc[h] = "waiting"
    BY <1>5 DEF Types, CountInv, Queued
  <2>2. /\ waiting' = Tail(waiting)
        /\ resumed' = Append(resumed, h)
        /\ pc' = [pc EXCEPT ![c] = "idle", ![h] = "resumed"]
    BY <1>5 DEF Release
  <2>3. /\ Len(waiting') = Len(waiting) - 1
        /\ \A i \in 1..Len(waiting') : waiting'[i] = waiting[i + 1]
    BY <1>5, <2>2 DEF Types
  <2>4. Queued(waiting, "waiting")'
    <3> SUFFICES /\ \A i \in 1..Len(waiting') : pc'[waiting'[i]] = "waiting"
                 /\ \A i, j \in 1..Len(waiting') :
                        waiting'[i] = waiting'[j] => i = j
      BY DEF Queued
    <3>1. \A i \in 1..Len(waiting') :
             /\ i + 1 \in 1..Len(waiting)
             /\ waiting'[i] = waiting[i + 1]
             /\ waiting[i + 1] \in Calls
      BY <2>3 DEF Types
    <3>2. ASSUME NEW i \in 1..Len(waiting')
          PROVE  waiting'[i] # h /\ waiting'[i] # c
      <4>1. 1 \in 1..Len(waiting) /\ i + 1 \in 1..Len(waiting) /\ i + 1 # 1
        BY <1>5, <3>1 DEF Types
      <4>2. waiting[i + 1] # waiting[1]
        BY <4>1 DEF CountInv, Queued
      <4>3. waiting[i + 1] # c
        BY <1>1, <4>1 DEF CountInv, Queued
      <4> QED BY <2>1, <3>1, <4>2, <4>3
    <3> QED BY <2>2, <3>1, <3>2 DEF Types, CountInv, Queued
  <2>5. /\ Len(resumed') = Len(resumed) + 1
        /\ \A i \in 1..Len(resumed) : resumed'[i] = resumed[i]
        /\ resumed'[Len(resumed) + 1] = h
    BY <2>1, <2>2 DEF Types
  <2>6. \A i \in 1..Len(resumed) :
           resumed[i] \in Calls /\ resumed[i] # h /\ resumed[i] # c
    BY <1>1, <2>1 DEF Types, CountInv, Queued
  <2>7. pc'[h] = "resumed"
    BY <2>1, <2>2 DEF Types
  <2>8. Queued(resumed, "resumed")'
    BY <2>2, <2>5, <2>6, <2>7 DEF Types, CountInv, Queued
  <2> QED BY <1>3, <2>4, <2>8 DEF CountInv
<1> QED BY <1>4, <1>5

LEMMA CountNext == Types /\ CountInv /\ [LimiterNext]_limiterVars => CountInv'
<1> SUFFICES ASSUME Types, CountInv, [LimiterNext]_limiterVars PROVE CountInv'
  OBVIOUS
<1>1. CASE UNCHANGED limiterVars
  BY <1>1 DEF limiterVars, CountInv, Queued, Running
<1> QED BY <1>1, CountEnter, CountPark, CountRelease, CountResume DEF LimiterNext

LEMMA LimiterCounts == Limiter => []ActiveCountsRunning
<1>1. LimiterInit => CountInv
  BY FS_EmptySet DEF LimiterInit, CountInv, Queued, Running
<1>2. CountInv => ActiveCountsRunning
  BY DEF CountInv, ActiveCountsRunning
<1> QED BY <1>1, <1>2, CountNext, TypesCorrect, PTL DEF Limiter

\* The types hold in every reachable state: in particular the counter, which
\* Release decrements without looking at it, is never negative.
LEMMA LimiterTypes == Limiter => []LimiterTypeOK
<1>1. LimiterInit => CountInv
  BY FS_EmptySet DEF LimiterInit, CountInv, Queued, Running
<1>2. Types /\ CountInv => LimiterTypeOK
  BY FS_CardinalityType DEF Types, CountInv, LimiterTypeOK
<1> QED BY <1>1, <1>2, CountNext, TypesCorrect, PTL DEF Limiter

-----------------------------------------------------------------------------
(* The composition. *)

\* What the pushes do with the limiter is a limiter's behaviour.
THEOREM PushesImplementLimiter == PushSpec => Limiter
<1>1. PushInit => LimiterInit
  BY DEF PushInit
<1>2. [PushNext]_pushVars => [LimiterNext]_limiterVars
  <2> SUFFICES ASSUME [PushNext]_pushVars PROVE [LimiterNext]_limiterVars
    OBVIOUS
  <2>1. ASSUME NEW c \in Numbers,
               Store(c) \/ Call(c) \/ Dispatch(c) \/ DispatchFails(c) \/ Done(c)
        PROVE  [LimiterNext]_limiterVars
    <3>1. c \in Calls
      BY PushAssumption DEF Numbers
    <3> QED BY <2>1, <3>1 DEF Store, Call, Dispatch, DispatchFails, Done, LimiterNext
  <2>2. CASE Others
    BY <2>2 DEF Others, LimiterNext
  <2>3. ASSUME NEW j \in Jobs, NEW d \in Devices,
               \/ Accept(j, d) \/ AcceptTwice(j, d)
               \/ Refuse(j, d) \/ Fail(j, d) \/ Expire(j, d)
        PROVE  [LimiterNext]_limiterVars
    BY <2>3 DEF Accept, AcceptTwice, Refuse, Fail, Expire
  <2>4. ASSUME NEW c \in Numbers, NEW d \in Devices, ShowNote(c, d) \/ CloseNote(c, d)
        PROVE  [LimiterNext]_limiterVars
    BY <2>4 DEF ShowNote, CloseNote
  <2>5. ASSUME NEW s \in Syncs, NEW d \in Devices, Sweep(s, d)
        PROVE  [LimiterNext]_limiterVars
    BY <2>5 DEF Sweep
  <2>6. ASSUME NEW d \in Devices, Subscribe(d) \/ Dismiss(d)
        PROVE  [LimiterNext]_limiterVars
    BY <2>6 DEF Subscribe, Dismiss
  <2>7. ASSUME NEW m \in Marks, NEW w \in Devices \cup {NoDevice}, Read(m, w)
        PROVE  [LimiterNext]_limiterVars
    BY <2>7 DEF Read
  <2>8. ASSUME NEW m \in Marks,
               MarkAt(m) \/ MarkFails(m) \/ MarkWritten(m) \/ Schedule(m)
        PROVE  [LimiterNext]_limiterVars
    BY <2>8 DEF MarkAt, MarkFails, MarkWritten, Schedule
  <2>9. CASE Cooled \/ TimerFires
    BY <2>9 DEF Cooled, TimerFires
  <2>10. ASSUME NEW s \in Syncs, SyncOut(s) \/ SyncFails(s)
         PROVE  [LimiterNext]_limiterVars
    BY <2>10 DEF SyncOut, SyncFails
  <2>11. CASE UNCHANGED pushVars
    BY <2>11 DEF pushVars
  <2> QED BY <2>1, <2>2, <2>3, <2>4, <2>5, <2>6, <2>7, <2>8, <2>9, <2>10, <2>11
          DEF PushNext
<1> QED BY <1>1, <1>2, PTL DEF PushSpec, Limiter

\* No slot of the limiter is lost, however dispatches park, fail and finish.
THEOREM SlotsNeverLost == PushSpec => []NoLostSlot
BY PushesImplementLimiter, LimiterLosesNoSlot, PTL

\* Types of the limiter, and with them that its counter is never negative.
THEOREM TypeCorrect == PushSpec => []LimiterTypeOK
BY PushesImplementLimiter, LimiterTypes, PTL

\* active is the number of running tasks in every reachable state, whatever
\* mixture of parked, barging, failing and finishing calls led to it.
THEOREM CounterIsExact == PushSpec => []ActiveCountsRunning
BY PushesImplementLimiter, LimiterCounts, PTL

-----------------------------------------------------------------------------
(* What the devices show. *)

PushKinds == /\ stored \in 0..Messages /\ rows \subseteq Devices
             /\ out \subseteq Jobs \X Devices /\ flights \subseteq Jobs \X Devices
             /\ shade \in [Devices -> SUBSET Numbers]
             /\ mark \in [Marks -> [pc : {"no", "emitted", "write", "wrote"}, at : 0..Messages]]
             /\ sync \in [Syncs -> {"no", "ask"}]

\* Only a subscription that was read is sent a push: a device that shows one,
\* or will, is registered unless the push service has refused it.
Subscribed == \A d \in Devices :
    (\/ shade[d] # {}
     \/ \E j \in Jobs : <<j, d>> \in out \cup flights) => d \in rows \cup gone

ShadeInv == PushKinds /\ Subscribed /\ ShadeIsUnread

LEMMA PushKindsNext == PushKinds /\ [PushNext]_pushVars => PushKinds'
<1> SUFFICES ASSUME PushKinds, [PushNext]_pushVars PROVE PushKinds'
  OBVIOUS
<1> USE DEF PushKinds
<1>1. ASSUME NEW c \in Numbers,
             Store(c) \/ Call(c) \/ Dispatch(c) \/ DispatchFails(c) \/ Done(c)
      PROVE  PushKinds'
  <2>1. c \in Jobs /\ c \in 0..Messages
    BY PushAssumption DEF Jobs, Numbers
  <2> QED BY <1>1, <2>1
          DEF Store, Call, Dispatch, DispatchFails, Done, deliveries, readings, throttle
<1>2. CASE Others
  BY <1>2 DEF Others, deliveries, readings, throttle
<1>3. ASSUME NEW j \in Jobs, NEW d \in Devices,
             \/ Accept(j, d) \/ AcceptTwice(j, d)
             \/ Refuse(j, d) \/ Fail(j, d) \/ Expire(j, d)
      PROVE  PushKinds'
  BY <1>3 DEF Accept, AcceptTwice, Refuse, Fail, Expire, readings, throttle
<1>4. ASSUME NEW c \in Numbers, NEW d \in Devices, ShowNote(c, d) \/ CloseNote(c, d)
      PROVE  PushKinds'
  BY <1>4 DEF ShowNote, CloseNote, readings, throttle
<1>5. ASSUME NEW s \in Syncs, NEW d \in Devices, Sweep(s, d)
      PROVE  PushKinds'
  BY <1>5 DEF Sweep, readings, throttle
<1>6. ASSUME NEW d \in Devices, Subscribe(d) \/ Dismiss(d)
      PROVE  PushKinds'
  BY <1>6 DEF Subscribe, Dismiss, deliveries, readings, throttle
<1>7. ASSUME NEW m \in Marks, NEW w \in Devices \cup {NoDevice}, Read(m, w)
      PROVE  PushKinds'
  BY <1>7 DEF Read, deliveries, throttle
<1>8. ASSUME NEW m \in Marks,
             MarkAt(m) \/ MarkFails(m) \/ MarkWritten(m) \/ Schedule(m)
      PROVE  PushKinds'
  <2>1. 0 \in 0..Messages
    BY PushAssumption
  <2>2. CASE MarkAt(m)
    BY <2>2 DEF MarkAt, deliveries, throttle
  <2>3. CASE MarkFails(m)
    BY <2>1, <2>3 DEF MarkFails, Unread, deliveries, throttle
  <2>4. CASE MarkWritten(m)
    BY <2>4 DEF MarkWritten, deliveries, throttle
  <2>5. CASE Schedule(m)
    BY <2>1, <2>5 DEF Schedule, Postpone, Begin, Unread, deliveries
  <2> QED BY <1>8, <2>2, <2>3, <2>4, <2>5
<1>9. CASE Cooled \/ TimerFires
  BY <1>9 DEF Cooled, TimerFires, Begin, deliveries, readings
<1>10. ASSUME NEW s \in Syncs, SyncOut(s) \/ SyncFails(s)
       PROVE  PushKinds'
  BY <1>10 DEF SyncOut, SyncFails, Jobs, deliveries, readings
<1>11. CASE UNCHANGED pushVars
  BY <1>11 DEF pushVars, deliveries, readings, throttle
<1> QED BY <1>1, <1>2, <1>3, <1>4, <1>5, <1>6, <1>7, <1>8, <1>9, <1>10, <1>11
        DEF PushNext

LEMMA SubscribedNext == PushKinds /\ Subscribed /\ [PushNext]_pushVars => Subscribed'
<1> SUFFICES ASSUME PushKinds, Subscribed, [PushNext]_pushVars PROVE Subscribed'
  OBVIOUS
<1> USE DEF Subscribed
<1>1. ASSUME NEW c \in Numbers,
             Store(c) \/ Call(c) \/ Dispatch(c) \/ DispatchFails(c) \/ Done(c)
      PROVE  Subscribed'
  BY <1>1 DEF Store, Call, Dispatch, DispatchFails, Done, deliveries
<1>2. CASE Others
  BY <1>2 DEF Others, deliveries
<1>3. ASSUME NEW j \in Jobs, NEW d \in Devices,
             \/ Accept(j, d) \/ AcceptTwice(j, d)
             \/ Refuse(j, d) \/ Fail(j, d) \/ Expire(j, d)
      PROVE  Subscribed'
  BY <1>3 DEF Accept, AcceptTwice, Refuse, Fail, Expire
<1>4. ASSUME NEW c \in Numbers, NEW d \in Devices, ShowNote(c, d) \/ CloseNote(c, d)
      PROVE  Subscribed'
  <2>1. c \in Jobs
    BY DEF Jobs
  <2> QED BY <1>4, <2>1 DEF ShowNote, CloseNote, PushKinds
<1>5. ASSUME NEW s \in Syncs, NEW d \in Devices, Sweep(s, d)
      PROVE  Subscribed'
  BY <1>5 DEF Sweep, PushKinds
<1>6. ASSUME NEW d \in Devices, Subscribe(d) \/ Dismiss(d)
      PROVE  Subscribed'
  BY <1>6 DEF Subscribe, Dismiss, deliveries, PushKinds
<1>7. ASSUME NEW m \in Marks, NEW w \in Devices \cup {NoDevice}, Read(m, w)
      PROVE  Subscribed'
  BY <1>7 DEF Read, deliveries
<1>8. ASSUME NEW m \in Marks,
             MarkAt(m) \/ MarkFails(m) \/ MarkWritten(m) \/ Schedule(m)
      PROVE  Subscribed'
  BY <1>8 DEF MarkAt, MarkFails, MarkWritten, Schedule, deliveries
<1>9. CASE Cooled \/ TimerFires
  BY <1>9 DEF Cooled, TimerFires, deliveries
<1>10. ASSUME NEW s \in Syncs, SyncOut(s) \/ SyncFails(s)
       PROVE  Subscribed'
  BY <1>10 DEF SyncOut, SyncFails, deliveries
<1>11. CASE UNCHANGED pushVars
  BY <1>11 DEF pushVars, deliveries
<1> QED BY <1>1, <1>2, <1>3, <1>4, <1>5, <1>6, <1>7, <1>8, <1>9, <1>10, <1>11
        DEF PushNext

LEMMA ShadeNext == ShadeInv /\ [PushNext]_pushVars => ShadeIsUnread'
<1> SUFFICES ASSUME PushKinds, Subscribed, ShadeIsUnread, [PushNext]_pushVars
             PROVE  ShadeIsUnread'
  BY DEF ShadeInv
<1> USE DEF ShadeIsUnread, Coming
<1>1. ASSUME NEW c \in Numbers,
             Store(c) \/ Call(c) \/ Dispatch(c) \/ DispatchFails(c) \/ Done(c)
      PROVE  ShadeIsUnread'
  BY <1>1 DEF Store, Call, Dispatch, DispatchFails, Done, deliveries, readings, throttle
<1>2. CASE Others
  BY <1>2 DEF Others, deliveries, readings, throttle
<1>3. ASSUME NEW j \in Jobs, NEW d \in Devices,
             \/ Accept(j, d) \/ AcceptTwice(j, d)
             \/ Refuse(j, d) \/ Fail(j, d) \/ Expire(j, d)
      PROVE  ShadeIsUnread'
  BY <1>3 DEF Accept, AcceptTwice, Refuse, Fail, Expire, Lost, readings, throttle
<1>4. ASSUME NEW c \in Numbers, NEW d \in Devices, ShowNote(c, d) \/ CloseNote(c, d)
      PROVE  ShadeIsUnread'
  \* A message is no read-sync: ShowNote takes none of these away.
  <2>1. c \notin Syncs
    BY PushAssumption DEF Numbers
  <2>2. CASE ShowNote(c, d)
    BY <2>1, <2>2 DEF ShowNote, PushKinds, readings, throttle
  <2>3. CASE CloseNote(c, d)
    BY <2>3 DEF CloseNote, PushKinds, readings, throttle
  <2> QED BY <1>4, <2>2, <2>3
<1>5. ASSUME NEW s \in Syncs, NEW d \in Devices, Sweep(s, d)
      PROVE  ShadeIsUnread'
  <2> SUFFICES ASSUME NEW e \in Devices \ (missed' \cup gone'), NEW c \in shade'[e],
                      c <= told'
               PROVE  (<<c, e>> \in overdue \/ Coming(e))'
    OBVIOUS
  <2>1. e # d /\ c \in shade[e] /\ e \notin missed \cup gone /\ c <= told
    BY <1>5 DEF Sweep, PushKinds, readings
  <2>2. <<c, e>> \in overdue \/ Coming(e)
    BY <2>1
  <2>3. \A t \in Syncs : <<t, e>> \in out \cup flights => <<t, e>> \in out' \cup flights'
    BY <1>5, <2>1 DEF Sweep
  <2>4. UNCHANGED <<mark, pending, sync, overdue>>
    BY <1>5 DEF Sweep, readings, throttle
  <2> QED BY <2>2, <2>3, <2>4
<1>6. ASSUME NEW d \in Devices, Subscribe(d) \/ Dismiss(d)
      PROVE  ShadeIsUnread'
  <2>1. CASE Subscribe(d)
    BY <2>1 DEF Subscribe, deliveries, readings, throttle
  <2>2. CASE Dismiss(d)
    <3> SUFFICES ASSUME NEW e \in Devices \ (missed' \cup gone'), NEW c \in shade'[e],
                        c <= told'
                 PROVE  (<<c, e>> \in overdue \/ Coming(e))'
      OBVIOUS
    <3>1. c \in shade[e] /\ e \notin missed \cup gone /\ c <= told
      BY <2>2 DEF Dismiss, PushKinds
    <3>2. <<c, e>> \in overdue \/ Coming(e)
      BY <3>1
    <3> QED BY <2>2, <3>2 DEF Dismiss, throttle
  <2> QED BY <1>6, <2>1, <2>2
<1>7. ASSUME NEW m \in Marks, NEW w \in Devices \cup {NoDevice}, Read(m, w)
      PROVE  ShadeIsUnread'
  BY <1>7 DEF Read, PushKinds, deliveries, throttle
<1>8. ASSUME NEW m \in Marks,
             MarkAt(m) \/ MarkFails(m) \/ MarkWritten(m) \/ Schedule(m)
      PROVE  ShadeIsUnread'
  <2>1. CASE MarkAt(m)
    BY <2>1 DEF MarkAt, PushKinds, deliveries, throttle
  <2>2. CASE MarkFails(m)
    BY <2>2 DEF MarkFails, Unread, PushKinds, deliveries, throttle
  <2>3. CASE MarkWritten(m)
    BY <2>3 DEF MarkWritten, PushKinds
  \* It is postponed, or begins: for every device a read-sync is due.
  <2>4. CASE Schedule(m)
    <3>1. pending' # "no" \/ \E s \in Syncs : sync'[s] = "ask"
      BY <2>4 DEF Schedule, Postpone, Begin, PushKinds
    <3> QED BY <3>1
  <2> QED BY <1>8, <2>1, <2>2, <2>3, <2>4
<1>9. CASE Cooled \/ TimerFires
  <2>1. CASE Cooled
    BY <2>1 DEF Cooled, deliveries, readings
  <2>2. CASE TimerFires
    <3>1. \E s \in Syncs : sync'[s] = "ask"
      BY <2>2 DEF TimerFires, Begin, PushKinds
    <3> QED BY <3>1
  <2> QED BY <1>9, <2>1, <2>2
\* A read-sync goes to what is registered: to every device that shows something
\* and has not been refused.
<1>10. ASSUME NEW s \in Syncs, SyncOut(s) \/ SyncFails(s)
       PROVE  ShadeIsUnread'
  BY <1>10 DEF SyncOut, SyncFails, PushKinds, Subscribed, Jobs, deliveries, readings
<1>11. CASE UNCHANGED pushVars
  BY <1>11 DEF pushVars, deliveries, readings, throttle
<1> QED BY <1>1, <1>2, <1>3, <1>4, <1>5, <1>6, <1>7, <1>8, <1>9, <1>10, <1>11
        DEF PushNext

\* Whatever the throttle postpones, the limiter parks and the push service
\* delays: a device shows no message that its person has read and that no
\* read-sync will close, but for the exceptions the property names.  For every
\* number of messages, devices, readings and failures.
THEOREM ShadesAreUnread == PushSpec => []ShadeIsUnread
<1>1. PushInit => ShadeInv
  BY PushAssumption DEF PushInit, ShadeInv, PushKinds, Subscribed, ShadeIsUnread, Unread
<1>2. ShadeInv /\ [PushNext]_pushVars => ShadeInv'
  BY PushKindsNext, SubscribedNext, ShadeNext DEF ShadeInv
<1>3. ShadeInv => ShadeIsUnread
  BY DEF ShadeInv
<1> QED BY <1>1, <1>2, <1>3, PTL DEF PushSpec

-----------------------------------------------------------------------------
(* The views of a room. *)

Handlers == [event : Events, sock : Socks, on : BOOLEAN]
Lined == line \in Seq(Handlers)

\* One step of the composition is one of the cache, or none, and leaves a line
\* of handlers.
LEMMA ViewStep == Lined /\ [ViewNext]_viewVars => Lined' /\ [Next]_vars
<1> SUFFICES ASSUME Lined, [ViewNext]_viewVars PROVE Lined' /\ [Next]_vars
  OBVIOUS
<1> USE DEF Lined
<1>1. ASSUME NEW e \in Events, NEW s \in Socks, NEW on \in BOOLEAN, Ask(e, s, on)
      PROVE  Lined' /\ [Next]_vars
  BY <1>1, ViewAssumption DEF Ask, Next, Handlers
<1>2. CASE Show \/ Hide \/ Switch \/ Away \/ Drop
  BY <1>2 DEF Show, Hide, Switch, Away, Drop, Elsewhere, handlers
<1>3. ASSUME NEW s \in Socks,
             Connect(s) \/ Greet(s) \/ Clear(s) \/ BeaconLost(s) \/ Close(s)
      PROVE  Lined' /\ [Next]_vars
  BY <1>3 DEF Connect, Greet, Clear, BeaconLost, Close, Gone, Elsewhere, handlers
<1>4. ASSUME NEW s \in Socks, Handle(s)
      PROVE  Lined' /\ [Next]_vars
  <2>1. \/ UNCHANGED <<line, vars>>
        \/ \E e \in Events : Ask(e, s, Head(frames[s]) = "on")
    BY <1>4 DEF Handle
  <2> QED BY <1>1, <2>1
<1>5. ASSUME NEW s \in Socks, NEW i \in DOMAIN asked[s], Known(s, i) \/ UnknownTo(s, i)
      PROVE  Lined' /\ [Next]_vars
  <2>1. \/ UNCHANGED <<line, vars>>
        \/ \E e \in Events : Ask(e, s, asked[s][i] = "on")
    BY <1>5 DEF Known, UnknownTo
  <2> QED BY <1>1, <2>1
<1>6. CASE Viewed
  <2>1. Head(line) \in Handlers /\ Tail(line) \in Seq(Handlers)
    BY <1>6 DEF Viewed
  <2>2. Head(line).event \in Events
    BY <2>1 DEF Handlers
  <2>3. line' = Tail(line) /\ Finish(Head(line).event)
    BY <1>6 DEF Viewed
  <2> QED BY <2>1, <2>2, <2>3 DEF Next
<1>7. CASE Cache
  BY <1>7 DEF Cache, Next, handlers
<1>8. CASE UNCHANGED viewVars
  BY <1>8 DEF viewVars, handlers
<1>9. CASE \E s \in Socks : \E i \in DOMAIN asked[s] : Known(s, i) \/ UnknownTo(s, i)
  BY <1>5, <1>9
<1>10. CASE \E s \in Socks : \/ Connect(s) \/ Greet(s) \/ Handle(s) \/ Clear(s)
                             \/ BeaconLost(s) \/ Close(s)
  BY <1>3, <1>4, <1>10
<1> QED BY <1>2, <1>6, <1>7, <1>8, <1>9, <1>10 DEF ViewNext

AccessCache == Init /\ [][Next]_vars

\* Whatever the page, the network and the handlers do, the access cache does
\* its own steps.
THEOREM ViewsImplementCache == ViewSpec => AccessCache
<1>1. ViewInit => Init /\ Lined
  BY DEF ViewInit, Lined
<1> QED BY <1>1, ViewStep, PTL DEF ViewSpec, AccessCache

-----------------------------------------------------------------------------
(* The cache. *)

Kinds == event \in [Events -> Event] /\ load \in [Keys -> Loads]

LEMMA WaitersNext == Kinds /\ NobodyForgotten /\ [Next]_vars
                        => Kinds' /\ NobodyForgotten'
<1> SUFFICES ASSUME Kinds, NobodyForgotten, [Next]_vars
             PROVE  Kinds' /\ NobodyForgotten'
  OBVIOUS
<1> USE DEF Kinds, NobodyForgotten, Event, Loads
<1>1. ASSUME NEW e \in Events, NEW k \in Keys, Resolve(e, k)
      PROVE  Kinds' /\ NobodyForgotten'
  BY <1>1 DEF Resolve
<1>2. ASSUME NEW e \in Events, Finish(e)
      PROVE  Kinds' /\ NobodyForgotten'
  BY <1>2 DEF Finish
<1>3. ASSUME NEW k \in Keys, Query(k)
      PROVE  Kinds' /\ NobodyForgotten'
  BY <1>3 DEF Query
<1>4. ASSUME NEW k \in Keys, Loaded(k) \/ LoadFails(k)
      PROVE  Kinds' /\ NobodyForgotten'
  BY <1>4 DEF Loaded, LoadFails, Answer
<1>5. ASSUME NEW k \in Keys, Leave(k) \/ Invalidate(k) \/ Join(k)
      PROVE  Kinds' /\ NobodyForgotten'
  BY <1>5 DEF Leave, Invalidate, Join
<1>6. CASE Tick \/ UNCHANGED vars
  BY <1>6 DEF Tick, vars
<1> QED BY <1>1, <1>2, <1>3, <1>4, <1>5, <1>6 DEF Next

\* No event waits for ever in resolve: however queries, failures, deletions and
\* the events of pages and sockets follow each other, each that waits has a
\* query out that answers it.
THEOREM NobodyIsForgotten == ViewSpec => []NobodyForgotten
<1>1. Init => Kinds /\ NobodyForgotten
  BY DEF Init, Kinds, NobodyForgotten, Event, Loads
<1> QED BY <1>1, WaitersNext, ViewsImplementCache, PTL DEF AccessCache

\* A yes that comes too late was asked for before the row went.
AnswersExplained == \A k \in Keys : load[k] = "yes" => k \in member \cup leaving \cup raced
Entered == entries \in [Keys -> Nat] /\ clock \in Nat
Vouched == Kinds /\ Entered /\ AnswersExplained /\ StaleOnlyByRace

LEMMA VouchedNext == Vouched /\ [Next]_vars => Vouched'
<1> SUFFICES ASSUME Vouched, [Next]_vars
             PROVE  Vouched'
  OBVIOUS
<1> USE DEF Vouched, Kinds, Entered, AnswersExplained, StaleOnlyByRace, Event, Loads, Cached
<1>1. ASSUME NEW e \in Events, NEW k \in Keys, Resolve(e, k)
      PROVE  Vouched'
  BY <1>1 DEF Resolve
<1>2. ASSUME NEW e \in Events, Finish(e)
      PROVE  Vouched'
  BY <1>2 DEF Finish
<1>3. ASSUME NEW k \in Keys, Query(k) \/ LoadFails(k)
      PROVE  Vouched'
  BY <1>3 DEF Query, LoadFails, Answer
<1>4. ASSUME NEW k \in Keys, Loaded(k)
      PROVE  Vouched'
  <2>1. /\ load' = [load EXCEPT ![k] = "none"]
        /\ load[k] \in {"yes", "no"}
        /\ UNCHANGED <<member, leaving, clock, changes>>
        /\ raced' = IF load[k] = "yes" THEN raced ELSE raced \ {k}
    BY <1>4 DEF Loaded
  <2>2. Kinds'
    BY <1>4, <2>1 DEF Loaded, Answer
  <2>3. CASE load[k] = "yes"
    <3>1. /\ entries' \in [Keys -> Nat]
          /\ \A j \in Keys \ {k} : entries'[j] # 0 => entries[j] # 0
      BY <1>4, <2>3, CacheAssumption DEF Loaded, Remember
    <3> QED BY <2>1, <2>2, <2>3, <3>1
  <2>4. CASE load[k] = "no"
    <3>1. entries' = [entries EXCEPT ![k] = 0]
      BY <1>4, <2>4 DEF Loaded, Forget
    <3> QED BY <2>1, <2>2, <2>4, <3>1
  <2> QED BY <2>1, <2>3, <2>4
<1>5. ASSUME NEW k \in Keys, Leave(k) \/ Join(k)
      PROVE  Vouched'
  BY <1>5 DEF Leave, Join
<1>6. ASSUME NEW k \in Keys, Invalidate(k)
      PROVE  Vouched'
  BY <1>6 DEF Invalidate, Forget
<1>7. CASE Tick \/ UNCHANGED vars
  BY <1>7 DEF Tick, vars
<1> QED BY <1>1, <1>2, <1>3, <1>4, <1>5, <1>6, <1>7 DEF Next

\* Without a race, leaving a room takes effect: whatever the pages and their
\* sockets ask, the cache vouches for who is not a member only until it is told,
\* or if a query was out when it was.
THEOREM StaleByRaceOnly == ViewSpec => []StaleOnlyByRace
<1>1. Init => Vouched
  BY DEF Init, Vouched, Kinds, Entered, AnswersExplained, StaleOnlyByRace, Event, Loads, Cached
<1>2. Vouched => StaleOnlyByRace
  BY DEF Vouched
<1> QED BY <1>1, <1>2, VouchedNext, ViewsImplementCache, PTL DEF AccessCache

-----------------------------------------------------------------------------
(* The views.  What the server will last hear of the page's socket is what   *)
(* the page last said: the word is in the frames, or else with the handlers  *)
(* that await the user's row, or else with those that await the access, or   *)
(* else it is what the registry has.  A leaveRoom overtakes the "off" that   *)
(* was sent before it, and clears what that would clear.                     *)

Word == IF shown THEN "on" ELSE "off"
Says(h) == IF h.on THEN "on" ELSE "off"

Quiet(s) == frames[s] = <<>> \/ frames[s] = <<"leave">>

LastFrame(s) ==
    frames[s] # <<>> =>
       \/ Last(frames[s]) = Word
       \/ /\ Last(frames[s]) = "leave" /\ ~shown
          /\ Len(frames[s]) > 1 => frames[s][Len(frames[s]) - 1] = "off"

Awaits(s) == \E i \in DOMAIN line : /\ line[i].sock = s /\ Says(line[i]) = Word
                                    /\ \A j \in DOMAIN line : j > i => line[j].sock # s
Silent(s) == \A i \in DOMAIN line : line[i].sock # s
Settled(s) == Silent(s) /\ (s \in viewed <=> shown)

Told(s) == /\ LastFrame(s)
           /\ Quiet(s) => IF asked[s] # <<>> THEN Last(asked[s]) = Word
                          ELSE Awaits(s) \/ Settled(s)

Typed == /\ shown \in BOOLEAN /\ cur \in Socks \cup {None}
         /\ up \subseteq Socks /\ fresh \subseteq Socks
         /\ frames \in [Socks -> Seq(Frames)] /\ asked \in [Socks -> Seq({"on", "off"})]
         /\ line \in Seq(Handlers) /\ beacons \subseteq Socks
Registered == /\ views \subseteq viewed /\ viewed \ views \subseteq cut
              /\ viewed \subseteq known /\ views \subseteq up \cup late
              /\ \A i \in DOMAIN line : line[i].sock \in known
Followed == \A s \in up \ (swapped \cup refused) : cur = s => Told(s)

ViewInv == Typed /\ Registered /\ Followed

LEMMA AppendLast ==
  ASSUME NEW S, NEW q \in Seq(S), NEW e \in S
  PROVE  /\ Append(q, e) \in Seq(S) /\ Append(q, e) # <<>>
         /\ Last(Append(q, e)) = e /\ q \o <<e>> = Append(q, e)
         /\ Len(Append(q, e)) = Len(q) + 1 /\ Len(q) \in Nat
         /\ \A i \in 1..Len(q) : Append(q, e)[i] = q[i]
  BY AppendProperties, AppendIsConcat, LenProperties DEF Last

LEMMA TailLast ==
  ASSUME NEW S, NEW q \in Seq(S), q # <<>>
  PROVE  /\ Head(q) \in S /\ Head(q) = q[1] /\ Tail(q) \in Seq(S)
         /\ Tail(q) = <<>> => Last(q) = Head(q) /\ Len(q) = 1
         /\ Tail(q) # <<>> => /\ Last(Tail(q)) = Last(q) /\ Len(q) > 1
                              /\ Len(q) = Len(Tail(q)) + 1 /\ Len(Tail(q)) \in Nat \ {0}
                              /\ \A i \in 1..Len(Tail(q)) : Tail(q)[i] = q[i + 1]
<1>1. /\ Head(q) \in S /\ Tail(q) \in Seq(S) /\ Len(Tail(q)) = Len(q) - 1
      /\ \A i \in 1..Len(Tail(q)) : Tail(q)[i] = q[i + 1]
  BY HeadTailProperties
<1>2. Len(q) \in Nat \ {0} /\ Head(q) = q[1]
  BY EmptySeq
<1>3. Tail(q) # <<>> => Len(Tail(q)) \in Nat \ {0}
  BY <1>1, EmptySeq
<1>4. Tail(q) = <<>> => Len(Tail(q)) = 0
  BY EmptySeq
<1> QED BY <1>1, <1>2, <1>3, <1>4 DEF Last

\* What is left of the frames when the first is taken; if nothing is left
\* that says more, the one taken was the page's word.
LEMMA FrameTaken ==
  ASSUME Typed, NEW s \in Socks, frames[s] # <<>>, LastFrame(s),
         frames'[s] = Tail(frames[s]), shown' = shown
  PROVE  /\ LastFrame(s)'
         /\ Quiet(s)' => \/ Head(frames[s]) = Word
                         \/ Head(frames[s]) = "leave" /\ ~shown /\ Quiet(s)
<1> DEFINE q == frames[s]
<1>1. q \in Seq(Frames)
  BY DEF Typed
<1>2. /\ Head(q) = q[1]
      /\ Tail(q) = <<>> => Last(q) = Head(q) /\ Len(q) = 1
      /\ Tail(q) # <<>> => /\ Last(Tail(q)) = Last(q) /\ Len(q) > 1
                           /\ Len(q) = Len(Tail(q)) + 1 /\ Len(Tail(q)) \in Nat \ {0}
                           /\ \A i \in 1..Len(Tail(q)) : Tail(q)[i] = q[i + 1]
  BY <1>1, TailLast
<1>3. \/ Last(q) = Word
      \/ /\ Last(q) = "leave" /\ ~shown
         /\ Len(q) > 1 => q[Len(q) - 1] = "off"
  BY DEF LastFrame
<1>4. LastFrame(s)'
  <2> SUFFICES ASSUME Tail(q) # <<>>
               PROVE  \/ Last(Tail(q)) = Word
                      \/ /\ Last(Tail(q)) = "leave" /\ ~shown
                         /\ Len(Tail(q)) > 1 => Tail(q)[Len(Tail(q)) - 1] = "off"
    BY DEF LastFrame, Word
  <2>1. Len(Tail(q)) > 1 => Tail(q)[Len(Tail(q)) - 1] = q[Len(q) - 1]
    BY <1>2
  <2> QED BY <1>2, <1>3, <2>1
<1>5. ASSUME Tail(q) = <<>>
      PROVE  \/ Head(q) = Word
             \/ Head(q) = "leave" /\ ~shown /\ Quiet(s)
  <2>1. Len(q) = 1 /\ Last(q) = Head(q) /\ q[1] = Head(q)
    BY <1>2, <1>5
  <2>2. q = <<Head(q)>>
    BY <1>1, <2>1
  <2> QED BY <1>3, <2>1, <2>2 DEF Quiet
<1>6. ASSUME Tail(q) = <<"leave">>
      PROVE  Head(q) = Word
  <2>0. Tail(q) # <<>> /\ Len(Tail(q)) = 1 /\ Last(Tail(q)) = "leave"
    <3>1. <<"leave">> # <<>> /\ Len(<<"leave">>) = 1 /\ <<"leave">>[1] = "leave"
      OBVIOUS
    <3> QED BY <1>6, <3>1, Zenon DEF Last
  <2>1. Len(q) = 2 /\ Last(q) = "leave"
    BY <1>2, <2>0
  <2> QED BY <1>2, <1>3, <2>1 DEF Word
<1> QED BY <1>4, <1>5, <1>6 DEF Quiet

LEMMA LineAppended ==
  ASSUME Typed, NEW s \in Socks, NEW h \in Handlers, line' = Append(line, h), shown' = shown
  PROVE  /\ h.sock = s /\ Says(h) = Word => Awaits(s)'
         /\ h.sock # s => (Awaits(s) => Awaits(s)') /\ (Silent(s) => Silent(s)')
<1>1. /\ line' \in Seq(Handlers) /\ Len(line') = Len(line) + 1 /\ Len(line) \in Nat
      /\ \A i \in 1..Len(line) : line'[i] = line[i]
      /\ line'[Len(line) + 1] = h
  BY AppendProperties, LenProperties DEF Typed
<1>2. DOMAIN line = 1..Len(line) /\ DOMAIN line' = 1..(Len(line) + 1)
  BY <1>1, LenProperties DEF Typed
<1>3. Word' = Word
  BY DEF Word
<1>4. ASSUME h.sock = s, Says(h) = Word
      PROVE  Awaits(s)'
  <2>1. Len(line) + 1 \in DOMAIN line'
    BY <1>1, <1>2
  <2>2. \A j \in DOMAIN line' : ~(j > Len(line) + 1)
    BY <1>1, <1>2
  <2> QED BY <1>1, <1>3, <1>4, <2>1, <2>2 DEF Awaits, Says
<1>5. ASSUME h.sock # s, Awaits(s)
      PROVE  Awaits(s)'
  <2>1. PICK i \in DOMAIN line : /\ line[i].sock = s /\ Says(line[i]) = Word
                                 /\ \A j \in DOMAIN line : j > i => line[j].sock # s
    BY <1>5 DEF Awaits
  <2>2. i \in DOMAIN line' /\ line'[i] = line[i]
    BY <1>1, <1>2, <2>1
  <2>3. \A j \in DOMAIN line' : j > i => line'[j].sock # s
    BY <1>1, <1>2, <1>5, <2>1
  <2> QED BY <1>3, <2>1, <2>2, <2>3 DEF Awaits, Says
<1>6. ASSUME h.sock # s, Silent(s)
      PROVE  Silent(s)'
  BY <1>1, <1>2, <1>6 DEF Silent
<1> QED BY <1>4, <1>5, <1>6

LEMMA LineTaken ==
  ASSUME Typed, NEW s \in Socks, line # <<>>, line' = Tail(line), shown' = shown
  PROVE  /\ Awaits(s) => \/ Awaits(s)'
                         \/ /\ Head(line).sock = s /\ Says(Head(line)) = Word
                            /\ Silent(s)'
         /\ Silent(s) => Silent(s)' /\ Head(line).sock # s
<1>1. /\ line' \in Seq(Handlers) /\ Len(line') = Len(line) - 1
      /\ \A i \in 1..Len(line') : line'[i] = line[i + 1]
  BY HeadTailProperties DEF Typed
<1>2. Len(line) \in Nat \ {0} /\ Head(line) = line[1]
  BY EmptySeq DEF Typed
<1>3. DOMAIN line = 1..Len(line) /\ DOMAIN line' = 1..(Len(line) - 1)
  BY <1>1, LenProperties DEF Typed
<1>4. Word' = Word
  BY DEF Word
<1>5. ASSUME Silent(s)
      PROVE  Silent(s)' /\ Head(line).sock # s
  BY <1>1, <1>2, <1>3, <1>5 DEF Silent
<1>6. ASSUME Awaits(s)
      PROVE  \/ Awaits(s)'
             \/ Head(line).sock = s /\ Says(Head(line)) = Word /\ Silent(s)'
  <2>1. PICK i \in DOMAIN line : /\ line[i].sock = s /\ Says(line[i]) = Word
                                 /\ \A j \in DOMAIN line : j > i => line[j].sock # s
    BY <1>6 DEF Awaits
  <2>2. CASE i = 1
    BY <1>1, <1>2, <1>3, <2>1, <2>2 DEF Silent
  <2>3. CASE i # 1
    <3>1. i - 1 \in DOMAIN line' /\ line'[i - 1] = line[i]
      BY <1>1, <1>2, <1>3, <2>1, <2>3
    <3>2. \A j \in DOMAIN line' : j > i - 1 => line'[j].sock # s
      BY <1>1, <1>2, <1>3, <2>1, <2>3
    <3> QED BY <1>4, <2>1, <3>1, <3>2 DEF Awaits, Says
  <2> QED BY <2>2, <2>3
<1> QED BY <1>5, <1>6


LEMMA SameTold ==
  ASSUME NEW s, Told(s), frames'[s] = frames[s], asked'[s] = asked[s],
         UNCHANGED <<shown, line>>, s \in viewed' <=> s \in viewed
  PROVE  Told(s)'
<1>1. /\ LastFrame(s)' <=> LastFrame(s)
      /\ Quiet(s)' <=> Quiet(s)
  BY DEF LastFrame, Quiet, Word
<1>2. /\ Awaits(s)' <=> Awaits(s)
      /\ Silent(s)' <=> Silent(s)
  BY DEF Awaits, Silent, Says, Word
<1>3. Settled(s) => Settled(s)'
  BY <1>2, Zenon DEF Settled
<1> QED BY <1>1, <1>2, <1>3 DEF Told, Word

\* Who has asked for a word is told it, once it has the access.
LEMMA AskLines ==
  ASSUME NEW e \in Events, NEW s \in Socks, NEW on \in BOOLEAN, Ask(e, s, on)
  PROVE  \E h \in Handlers : /\ line' = Append(line, h) /\ h.sock = s
                             /\ Says(h) = IF on THEN "on" ELSE "off"
<1> DEFINE h == [event |-> e, sock |-> s, on |-> on]
<1>1. h \in Handlers /\ h.sock = s /\ h.on = on
  BY DEF Handlers
<1>2. line' = Append(line, h)
  BY DEF Ask
<1>3. Says(h) = IF on THEN "on" ELSE "off"
  BY <1>1 DEF Says
<1> HIDE DEF h
<1> QED BY <1>1, <1>2, <1>3

\* The page says what is so now.
LEMMA Emitted ==
  ASSUME Typed, cur \in Socks, cur' = cur, NEW w \in {"on", "off"},
         \/ frames' = [frames EXCEPT ![cur] = @ \o <<w>>] /\ w = Word'
         \/ frames' = [frames EXCEPT ![cur] = @ \o <<"off", "leave">>] /\ ~shown'
  PROVE  frames' \in [Socks -> Seq(Frames)] /\ Told(cur)'
<1> DEFINE q == frames[cur]
<1>1. q \in Seq(Frames) /\ Len(q) \in Nat /\ {"on", "off", "leave"} = Frames
  BY LenProperties DEF Typed, Frames
<1>0. Len(<<"leave">>) = 1 /\ <<"leave">>[1] = "leave"
  OBVIOUS
<1>2. CASE frames' = [frames EXCEPT ![cur] = @ \o <<w>>] /\ w = Word'
  <2>1. /\ Append(q, w) \in Seq(Frames) /\ Append(q, w) # <<>>
        /\ Last(Append(q, w)) = w /\ q \o <<w>> = Append(q, w)
    BY <1>1, AppendLast
  <2>2. frames' \in [Socks -> Seq(Frames)] /\ frames'[cur] = Append(q, w)
    BY <1>2, <2>1 DEF Typed
  <2>3. Append(q, w) # <<"leave">>
    <3>1. ASSUME Append(q, w) = <<"leave">> PROVE w = "leave"
      BY <1>0, <2>1, <3>1, Zenon DEF Last
    <3> QED BY <3>1
  <2>4. \A z : frames'[cur] = z /\ z # <<>> /\ z # <<"leave">> /\ Last(z) = Word' => Told(cur)'
    BY DEF Told, LastFrame, Quiet
  <2> QED BY <1>2, <2>1, <2>2, <2>3, <2>4, Zenon
<1>3. CASE frames' = [frames EXCEPT ![cur] = @ \o <<"off", "leave">>] /\ ~shown'
  <2> DEFINE z == q \o <<"off", "leave">>
  <2>1. /\ <<"off", "leave">> \in Seq(Frames) /\ Len(<<"off", "leave">>) = 2
        /\ <<"off", "leave">>[1] = "off" /\ <<"off", "leave">>[2] = "leave"
    BY <1>1
  <2>2. /\ z \in Seq(Frames) /\ Len(z) = Len(q) + 2
        /\ z[Len(q) + 1] = "off" /\ z[Len(q) + 2] = "leave"
    BY <1>1, <2>1, ConcatProperties
  <2>3. z # <<>> /\ z # <<"leave">>
    <3>1. Len(z) # 0 /\ Len(z) # 1
      BY <1>1, <2>2
    <3> QED BY <1>0, <2>2, <3>1, EmptySeq
  <2> HIDE DEF z
  <2>4. frames' = [frames EXCEPT ![cur] = z]
    BY <1>3 DEF z
  <2>5. frames' \in [Socks -> Seq(Frames)] /\ frames'[cur] = z
    BY <2>2, <2>4 DEF Typed
  <2>6. Last(z) = "leave" /\ z[Len(z) - 1] = "off"
    BY <1>1, <2>2 DEF Last
  <2>7. ~shown'
    BY <1>3
  <2>8. LastFrame(cur)'
    BY <2>5, <2>6, <2>7 DEF LastFrame
  <2>9. ~Quiet(cur)'
    BY <2>3, <2>5 DEF Quiet
  <2> QED BY <2>5, <2>8, <2>9 DEF Told
<1> QED BY <1>2, <1>3

LEMMA PageInv ==
  ASSUME ViewInv, Show \/ Hide \/ Switch \/ Away \/ Drop
  PROVE  ViewInv'
<1>1. Typed /\ Registered /\ Followed
  BY DEF ViewInv
<1>2. /\ UNCHANGED <<fresh, up, asked, line, known, viewed, views, late, swapped, refused, cut>>
      /\ beacons' = beacons \/ beacons' = beacons \cup ({cur} \ {None})
  BY DEF Show, Hide, Switch, Away, Drop, Elsewhere, Beacon, handlers, registry, history
<1>3. Registered'
  BY <1>1, <1>2 DEF Registered
<1>4. CASE Show \/ Hide \/ Switch
  <2>1. cur' = cur /\ shown' \in BOOLEAN
    BY <1>4 DEF Show, Hide, Switch
  <2>2. /\ Typed' <=> frames' \in [Socks -> Seq(Frames)]
        /\ Followed' <=> \A s \in up \ (swapped \cup refused) : cur = s => Told(s)'
    BY <1>1, <1>2, <2>1 DEF Typed, Followed
  <2>3. CASE cur = None
    BY <1>1, <1>3, <1>4, <2>2, <2>3, ViewAssumption
       DEF Show, Hide, Switch, Emit, ViewInv, Typed
  <2>4. CASE cur # None
    <3>1. cur \in Socks
      BY <1>1, <2>4 DEF Typed
    <3>2. CASE Show
      BY <1>1, <1>3, <2>2, <2>4, <3>1, <3>2, Emitted DEF Show, Emit, Word, ViewInv
    <3>3. CASE Hide
      BY <1>1, <1>3, <2>2, <2>4, <3>1, <3>3, Emitted DEF Hide, Emit, Word, ViewInv
    <3>4. CASE Switch
      BY <1>1, <1>3, <2>2, <2>4, <3>1, <3>4, Emitted DEF Switch, Emit, ViewInv
    <3> QED BY <1>4, <3>2, <3>3, <3>4
  <2> QED BY <2>3, <2>4
<1>5. CASE Away \/ Drop
  BY <1>1, <1>2, <1>3, <1>5, ViewAssumption DEF Away, Drop, Typed, Followed, ViewInv
<1> QED BY <1>4, <1>5

LEMMA NetworkInv ==
  ASSUME ViewInv, NEW s \in Socks, Connect(s) \/ Greet(s) \/ Clear(s) \/ BeaconLost(s) \/ Close(s)
  PROVE  ViewInv'
<1>1. Typed /\ Registered /\ Followed
  BY DEF ViewInv
<1>2. CASE Connect(s)
  <2>1. /\ UNCHANGED <<shown, asked, line, known, viewed, views, late, swapped, refused, cut>>
        /\ cur' = s /\ fresh' = fresh \ {s} /\ up' = up \cup {s}
        /\ frames' = [frames EXCEPT ![s] = <<Word>>]
        /\ beacons' = beacons \/ beacons' = beacons \cup {s}
    BY <1>2 DEF Connect, handlers, registry, history, Word
  <2>2. Word \in Frames /\ <<Word>> \in Seq(Frames) /\ Word' = Word /\ Word # "leave"
    BY <2>1 DEF Word, Frames
  <2>3. frames'[s] = <<Word>> /\ <<Word>> # <<>> /\ <<Word>> # <<"leave">> /\ Last(<<Word>>) = Word
    BY <1>1, <2>1, <2>2 DEF Typed, Last
  <2>4. Told(s)'
    BY <2>2, <2>3 DEF Told, LastFrame, Quiet
  <2>5. Typed'
    BY <1>1, <2>1, <2>2 DEF Typed
  <2>6. Registered' /\ Followed'
    BY <1>1, <2>1, <2>4 DEF Registered, Followed
  <2> QED BY <2>5, <2>6 DEF ViewInv
<1>3. ASSUME UNCHANGED <<shown, cur, asked, line, late, swapped, refused>>,
             \A t \in up' : t \in up /\ frames'[t] = frames[t] /\ (t \in viewed' <=> t \in viewed)
      PROVE  Followed'
  <2> SUFFICES ASSUME NEW t \in up' \ (swapped \cup refused), cur = t
               PROVE  Told(t)'
    BY <1>3 DEF Followed
  <2>1. Told(t)
    BY <1>1, <1>3 DEF Followed
  <2> QED BY <1>3, <2>1, SameTold
<1>4. CASE Greet(s)
  <2>1. /\ UNCHANGED <<shown, cur, fresh, frames, beacons, up, asked, line, viewed, views,
                       late, swapped, refused, cut>>
        /\ known' = known \cup {s}
    BY <1>4 DEF Greet, page, registry, history
  <2>2. Typed' /\ Registered'
    BY <1>1, <2>1 DEF Typed, Registered
  <2> QED BY <1>3, <2>1, <2>2 DEF ViewInv
<1>5. CASE Clear(s)
  <2>1. /\ UNCHANGED <<shown, cur, fresh, frames, up, asked, line, known, viewed, late, swapped, refused>>
        /\ beacons' = beacons \ {s} /\ views' = views \ {s}
        /\ cut' = IF s \in views THEN cut \cup {s} ELSE cut
    BY <1>5 DEF Clear, handlers
  <2>2. Typed' /\ Registered'
    BY <1>1, <2>1 DEF Typed, Registered
  <2> QED BY <1>3, <2>1, <2>2 DEF ViewInv
<1>6. CASE BeaconLost(s)
  <2>1. /\ UNCHANGED <<shown, cur, fresh, frames, up, asked, line, known, viewed, views,
                       late, swapped, refused, cut>>
        /\ beacons' = beacons \ {s}
    BY <1>6 DEF BeaconLost, Elsewhere, handlers, registry, history
  <2>2. Typed' /\ Registered'
    BY <1>1, <2>1 DEF Typed, Registered
  <2> QED BY <1>3, <2>1, <2>2 DEF ViewInv
<1>7. CASE Close(s)
  <2>1. /\ UNCHANGED <<shown, cur, fresh, beacons, asked, line, known, late, swapped, refused>>
        /\ up' = up \ {s} /\ frames' = [frames EXCEPT ![s] = <<>>]
        /\ \/ s \in known /\ viewed' = viewed \ {s} /\ views' = views \ {s} /\ cut' = cut \ {s}
           \/ s \notin known /\ UNCHANGED <<viewed, views, cut>>
    BY <1>7 DEF Close, Gone, handlers, registry
  <2>2. Typed'
    BY <1>1, <2>1 DEF Typed
  <2>3. Registered'
    BY <1>1, <2>1 DEF Registered
  <2>4. \A t \in up' : t \in up /\ frames'[t] = frames[t] /\ (t \in viewed' <=> t \in viewed)
    BY <1>1, <2>1 DEF Typed
  <2> QED BY <1>3, <2>1, <2>2, <2>3, <2>4 DEF ViewInv
<1> QED BY <1>2, <1>4, <1>5, <1>6, <1>7


LEMMA OtherTold ==
  ASSUME Typed, NEW t \in Socks, Told(t), NEW h \in Handlers, h.sock # t,
         frames'[t] = frames[t], asked'[t] = asked[t], shown' = shown,
         t \in viewed' <=> t \in viewed, line' = Append(line, h)
  PROVE  Told(t)'
<1>1. /\ LastFrame(t)' <=> LastFrame(t)
      /\ Quiet(t)' <=> Quiet(t)
  BY DEF LastFrame, Quiet, Word
<1>2. (Awaits(t) => Awaits(t)') /\ (Silent(t) => Silent(t)')
  BY LineAppended
<1>3. Settled(t) => Settled(t)'
  BY <1>2, Zenon DEF Settled
<1> QED BY <1>1, <1>2, <1>3 DEF Told, Word

LEMMA LineKnown ==
  ASSUME Typed, Registered, known \subseteq known',
         NEW h \in Handlers, h.sock \in known', line' = Append(line, h)
  PROVE  line' \in Seq(Handlers) /\ \A i \in DOMAIN line' : line'[i].sock \in known'
<1>1. Len(line) \in Nat /\ \A i \in 1..Len(line) : line[i].sock \in known
  BY LenProperties DEF Typed, Registered
<1>2. /\ line' \in Seq(Handlers) /\ Len(line') = Len(line) + 1
      /\ \A i \in 1..Len(line) : line'[i] = line[i]
      /\ line'[Len(line) + 1] = h
  BY AppendProperties DEF Typed
<1>3. DOMAIN line' = 1..(Len(line) + 1)
  BY <1>2, LenProperties
<1>4. ASSUME NEW i \in DOMAIN line' PROVE line'[i].sock \in known'
  BY <1>1, <1>2, <1>3
<1> QED BY <1>2, <1>4

LEMMA HandleInv ==
  ASSUME ViewInv, NEW s \in Socks, Handle(s)
  PROVE  ViewInv'
<1> DEFINE f == Head(frames[s])
<1>1. Typed /\ Registered /\ Followed
  BY DEF ViewInv
<1>2. /\ s \in up /\ frames[s] # <<>>
      /\ frames' = [frames EXCEPT ![s] = Tail(@)]
      /\ UNCHANGED <<shown, cur, fresh, beacons, up, known, late, refused>>
  BY DEF Handle
<1>3. f \in Frames /\ Tail(frames[s]) \in Seq(Frames)
  BY <1>1, <1>2, HeadTailProperties DEF Typed
<1>4. /\ frames' \in [Socks -> Seq(Frames)] /\ frames'[s] = Tail(frames[s])
      /\ \A t \in Socks \ {s} : frames'[t] = frames[t]
  BY <1>1, <1>2, <1>3 DEF Typed
<1>5. ASSUME cur = s, s \notin swapped \cup refused
      PROVE  /\ Told(s) /\ LastFrame(s)'
             /\ Quiet(s)' => \/ f = Word
                             \/ f = "leave" /\ ~shown /\ Quiet(s)
  <2>1. Told(s)
    BY <1>1, <1>2, <1>5 DEF Followed
  <2> QED BY <1>1, <1>2, <1>4, <2>1, FrameTaken DEF Told
<1>6. /\ Word \in {"on", "off"} /\ Word' = Word
  BY <1>2 DEF Word
<1>7. \A t \in up : t \in Socks /\ (cur = t /\ t \notin swapped \cup refused => Told(t))
  BY <1>1 DEF Followed, Typed
<1>8. CASE /\ f = "leave" /\ UNCHANGED <<asked, line, swapped>>
           /\ \/ s \in known /\ viewed' = viewed \ {s} /\ views' = views \ {s} /\ cut' = cut \ {s}
              \/ s \notin known /\ UNCHANGED <<viewed, views, cut>>
  <2>1. Typed' /\ Registered'
    BY <1>1, <1>2, <1>4, <1>8 DEF Typed, Registered
  <2>2. ASSUME cur = s, s \notin swapped \cup refused
        PROVE  Told(s)'
    <3>1. s \notin viewed'
      BY <1>1, <1>8 DEF Registered
    <3>2. (Awaits(s)' <=> Awaits(s)) /\ (Silent(s)' <=> Silent(s))
      BY <1>2, <1>8 DEF Awaits, Silent, Says, Word
    <3>3. ~shown /\ Silent(s) => Settled(s)'
      <4>1. ~shown => ~shown'
        BY <1>2
      <4> QED BY <3>1, <3>2, <4>1 DEF Settled
    <3>4. Quiet(s)' => ~shown /\ Quiet(s)
      BY <1>5, <1>6, <1>8, <2>2
    <3>5. Settled(s) => Silent(s)
      BY DEF Settled
    <3> QED BY <1>5, <1>6, <1>8, <2>2, <3>2, <3>3, <3>4, <3>5 DEF Told
  <2>3. ASSUME NEW t \in up, t # s, cur = t, t \notin swapped \cup refused
        PROVE  Told(t)'
    BY <1>2, <1>4, <1>7, <1>8, <2>3, SameTold
  <2> QED BY <1>2, <1>8, <2>1, <2>2, <2>3 DEF ViewInv, Followed
<1>9. CASE /\ f # "leave" /\ s \notin known
           /\ asked' = [asked EXCEPT ![s] = Append(@, f)]
           /\ UNCHANGED <<line, viewed, views, cut, swapped>>
  <2>1. /\ Append(asked[s], f) \in Seq({"on", "off"}) /\ Append(asked[s], f) # <<>>
        /\ Last(Append(asked[s], f)) = f
    BY <1>1, <1>3, <1>9, AppendLast DEF Typed, Frames
  <2>2. /\ asked' \in [Socks -> Seq({"on", "off"})] /\ asked'[s] = Append(asked[s], f)
        /\ \A t \in Socks \ {s} : asked'[t] = asked[t]
    BY <1>1, <1>9, <2>1 DEF Typed
  <2>3. Typed' /\ Registered'
    BY <1>1, <1>2, <1>4, <1>9, <2>2 DEF Typed, Registered
  <2>4. ASSUME cur = s, s \notin swapped \cup refused
        PROVE  Told(s)'
    BY <1>5, <1>6, <1>9, <2>1, <2>2, <2>4 DEF Told
  <2>5. ASSUME NEW t \in up, t # s, cur = t, t \notin swapped \cup refused
        PROVE  Told(t)'
    BY <1>2, <1>4, <1>7, <1>9, <2>2, <2>5, SameTold
  <2> QED BY <1>2, <1>9, <2>3, <2>4, <2>5 DEF ViewInv, Followed
<1>10. CASE /\ f # "leave" /\ s \in known
            /\ \E e \in Events : Ask(e, s, f = "on")
            /\ swapped' = IF asked[s] = <<>> THEN swapped ELSE swapped \cup {s}
            /\ UNCHANGED <<asked, viewed, views, cut>>
  <2>1. PICK h \in Handlers : /\ line' = Append(line, h) /\ h.sock = s
                              /\ Says(h) = IF f = "on" THEN "on" ELSE "off"
    BY <1>10, AskLines
  <2>2. Says(h) = f
    BY <1>3, <1>10, <2>1 DEF Frames
  <2>3. line' \in Seq(Handlers) /\ \A i \in DOMAIN line' : line'[i].sock \in known'
    BY <1>1, <1>2, <1>10, <2>1, LineKnown
  <2>4. Typed' /\ Registered'
    BY <1>1, <1>2, <1>4, <1>10, <2>3 DEF Typed, Registered
  <2>5. ASSUME cur = s, s \notin swapped' \cup refused
        PROVE  Told(s)'
    <3>1. asked[s] = <<>> /\ s \notin swapped
      BY <1>10, <2>5
    <3>2. f = Word => Awaits(s)'
      BY <1>1, <1>2, <2>1, <2>2, LineAppended
    <3> QED BY <1>5, <1>10, <2>5, <3>1, <3>2 DEF Told
  <2>6. ASSUME NEW t \in up, t # s, cur = t, t \notin swapped' \cup refused
        PROVE  Told(t)'
    <3>1. t \in Socks /\ Told(t)
      BY <1>7, <1>10, <2>6
    <3> QED BY <1>1, <1>2, <1>4, <1>10, <2>1, <2>6, <3>1, OtherTold
  <2> QED BY <1>2, <2>4, <2>5, <2>6 DEF ViewInv, Followed
<1> QED BY <1>8, <1>9, <1>10 DEF Handle, registry

LEMMA WithoutOne ==
  ASSUME NEW S, NEW q \in Seq(S), NEW i \in DOMAIN q
  PROVE  RemoveAt(q, i) \in Seq(S) /\ (i = 1 => RemoveAt(q, i) = Tail(q)) /\ q # <<>>
<1>1. Len(q) \in Nat /\ DOMAIN q = 1..Len(q) /\ \A j \in 1..Len(q) : q[j] \in S
  BY LenProperties, ElementOfSeq
<1>2. q # <<>>
  BY <1>1, EmptySeq
<1>3. SubSeq(q, 1, i - 1) \in Seq(S) /\ SubSeq(q, i + 1, Len(q)) \in Seq(S)
  <2>1. i - 1 \in Int /\ i + 1 \in Int /\ Len(q) \in Int
    BY <1>1
  <2>2. (\A j \in 1..(i - 1) : q[j] \in S) /\ (\A j \in (i + 1)..Len(q) : q[j] \in S)
    BY <1>1
  <2> QED BY <2>1, <2>2, SubSeqProperties
<1>4. RemoveAt(q, i) \in Seq(S)
  BY <1>3, ConcatProperties DEF RemoveAt
<1>5. ASSUME i = 1 PROVE RemoveAt(q, i) = Tail(q)
  <2>1. SubSeq(q, 1, i - 1) = <<>>
    BY <1>5, SubSeqEmpty
  <2>2. SubSeq(q, i + 1, Len(q)) = Tail(q)
    BY <1>2, <1>5, TailIsSubSeq
  <2> QED BY <1>3, <2>1, <2>2, ConcatEmptySeq DEF RemoveAt
<1> QED BY <1>2, <1>4, <1>5


LEMMA KnownInv ==
  ASSUME ViewInv, NEW s \in Socks, NEW i \in DOMAIN asked[s], Known(s, i) \/ UnknownTo(s, i)
  PROVE  ViewInv'
<1> DEFINE q == asked[s]
<1>1. Typed /\ Registered /\ Followed
  BY DEF ViewInv
<1>2. /\ asked' = [asked EXCEPT ![s] = RemoveAt(@, i)]
      /\ UNCHANGED <<shown, cur, fresh, frames, beacons, up, viewed, views, late, cut>>
  BY DEF Known, UnknownTo, page, registry
<1>3. /\ q \in Seq({"on", "off"}) /\ q # <<>> /\ q[i] \in {"on", "off"}
      /\ RemoveAt(q, i) \in Seq({"on", "off"}) /\ (i = 1 => RemoveAt(q, i) = Tail(q))
  BY <1>1, WithoutOne, ElementOfSeq, LenProperties DEF Typed
<1>4. /\ asked' \in [Socks -> Seq({"on", "off"})] /\ asked'[s] = RemoveAt(q, i)
      /\ \A t \in Socks \ {s} : asked'[t] = asked[t]
  BY <1>1, <1>2, <1>3 DEF Typed
<1>5. \A t \in up : t \in Socks /\ (cur = t /\ t \notin swapped \cup refused => Told(t))
  BY <1>1 DEF Followed, Typed
<1>6. CASE UnknownTo(s, i)
  <2>1. UNCHANGED <<known, line, swapped>> /\ refused' = refused \cup {s}
    BY <1>6 DEF UnknownTo
  <2>2. Typed' /\ Registered'
    BY <1>1, <1>2, <1>4, <2>1 DEF Typed, Registered
  <2>3. ASSUME NEW t \in up, t # s, cur = t, t \notin swapped \cup refused
        PROVE  Told(t)'
    BY <1>2, <1>4, <1>5, <2>1, <2>3, SameTold
  <2> QED BY <1>2, <2>1, <2>2, <2>3 DEF ViewInv, Followed
<1>7. CASE Known(s, i)
  <2>1. /\ known' = known \cup {s} /\ refused' = refused
        /\ swapped' = IF i = 1 THEN swapped ELSE swapped \cup {s}
        /\ \E e \in Events : Ask(e, s, q[i] = "on")
    BY <1>7 DEF Known
  <2>2. PICK h \in Handlers : /\ line' = Append(line, h) /\ h.sock = s
                              /\ Says(h) = IF q[i] = "on" THEN "on" ELSE "off"
    BY <2>1, AskLines
  <2>3. Says(h) = q[i]
    BY <1>3, <2>2
  <2>4. line' \in Seq(Handlers) /\ \A j \in DOMAIN line' : line'[j].sock \in known'
    BY <1>1, <2>1, <2>2, LineKnown
  <2>5. Typed' /\ Registered'
    BY <1>1, <1>2, <1>4, <2>1, <2>4 DEF Typed, Registered
  <2>6. ASSUME cur = s, s \in up, s \notin swapped' \cup refused'
        PROVE  Told(s)'
    <3>1. i = 1 /\ Told(s)
      BY <1>5, <2>1, <2>6
    <3>2. /\ LastFrame(s)' <=> LastFrame(s)
          /\ Quiet(s)' <=> Quiet(s)
          /\ Word' = Word
      BY <1>2 DEF LastFrame, Quiet, Word
    <3>3. Quiet(s) => Last(q) = Word
      BY <1>3, <3>1 DEF Told
    <3>4. asked'[s] = Tail(q) /\ Head(q) = q[1]
      BY <1>3, <1>4, <3>1
    <3>5. Tail(q) # <<>> => Last(Tail(q)) = Last(q)
      BY <1>3, TailLast
    <3>6. Tail(q) = <<>> => Last(q) = Head(q)
      BY <1>3, TailLast
    <3>7. q[1] = Word => Awaits(s)'
      BY <1>1, <1>2, <2>2, <2>3, <3>1, LineAppended
    <3> QED BY <3>1, <3>2, <3>3, <3>4, <3>5, <3>6, <3>7 DEF Told
  <2>7. ASSUME NEW t \in up, t # s, cur = t, t \notin swapped' \cup refused'
        PROVE  Told(t)'
    <3>1. t \in Socks /\ Told(t)
      BY <1>5, <2>1, <2>7
    <3> QED BY <1>1, <1>2, <1>4, <2>2, <2>7, <3>1, OtherTold
  <2> QED BY <1>2, <2>5, <2>6, <2>7 DEF ViewInv, Followed
<1> QED BY <1>6, <1>7

LEMMA ViewedInv ==
  ASSUME ViewInv, Viewed
  PROVE  ViewInv'
<1> DEFINE h == Head(line)
           s == h.sock
<1>1. Typed /\ Registered /\ Followed
  BY DEF ViewInv
<1>2. /\ line # <<>> /\ line' = Tail(line)
      /\ UNCHANGED <<shown, cur, fresh, frames, beacons, up, asked, known, swapped>>
      /\ \/ /\ h.on /\ s \notin viewed
            /\ viewed' = viewed \cup {s} /\ views' = views \cup {s}
            /\ late' = IF s \in up THEN late ELSE late \cup {s}
            /\ UNCHANGED <<refused, cut>>
         \/ /\ ~h.on /\ s \in viewed
            /\ viewed' = viewed \ {s} /\ views' = views \ {s} /\ cut' = cut \ {s}
            /\ UNCHANGED <<late, refused>>
         \/ (h.on <=> s \in viewed) /\ UNCHANGED <<viewed, views, late, refused, cut>>
         \/ refused' = refused \cup {s} /\ UNCHANGED <<viewed, views, late, cut>>
  BY DEF Viewed, page, registry
<1>3. /\ line' \in Seq(Handlers) /\ Len(line') = Len(line) - 1
      /\ \A i \in 1..Len(line') : line'[i] = line[i + 1]
  BY <1>1, <1>2, HeadTailProperties DEF Typed
<1>4. /\ Len(line) \in Nat \ {0} /\ h = line[1]
      /\ DOMAIN line = 1..Len(line) /\ DOMAIN line' = 1..(Len(line) - 1)
  BY <1>1, <1>2, <1>3, EmptySeq, LenProperties DEF Typed
<1>5. h \in Handlers /\ s \in known /\ h.on \in BOOLEAN
  <2>1. h \in Handlers
    BY <1>1, <1>2, HeadTailProperties DEF Typed
  <2>2. line[1].sock \in known
    BY <1>1, <1>4 DEF Registered
  <2> QED BY <1>4, <2>1, <2>2 DEF Handlers
<1>6. \A i \in DOMAIN line' : line'[i].sock \in known'
  <2>1. \A i \in DOMAIN line : line[i].sock \in known
    BY <1>1 DEF Registered
  <2> QED BY <1>2, <1>3, <1>4, <2>1
<1>7. Typed'
  BY <1>1, <1>2, <1>3 DEF Typed
<1> HIDE DEF h, s
<1>8. Registered'
  BY <1>1, <1>2, <1>5, <1>6 DEF Registered
<1>9. ASSUME NEW t \in up, cur = t, t \notin swapped \cup refused'
      PROVE  Told(t)'
  <2>1. t \in Socks /\ Told(t)
    BY <1>1, <1>2, <1>9 DEF Typed, Followed
  <2>2. /\ LastFrame(t)' <=> LastFrame(t)
        /\ Quiet(t)' <=> Quiet(t)
        /\ Word' = Word
    BY <1>2 DEF LastFrame, Quiet, Word
  <2>3. /\ Awaits(t) => \/ Awaits(t)'
                        \/ s = t /\ Says(h) = Word /\ Silent(t)'
        /\ Silent(t) => Silent(t)' /\ s # t
    BY <1>1, <1>2, <2>1, LineTaken DEF h, s
  <2>4. ASSUME s = t, Says(h) = Word
        PROVE  t \in viewed' <=> shown'
    <3>1. h.on <=> s \in viewed'
      BY <1>2, <1>9, <2>4
    <3>2. shown \in BOOLEAN /\ shown' = shown /\ ("on" = "off" <=> FALSE)
      BY <1>1, <1>2 DEF Typed
    <3>3. h.on <=> shown
      BY <2>4, <3>2 DEF Says, Word
    <3> QED BY <2>4, <3>1, <3>2, <3>3
  <2>5. ASSUME Settled(t)
        PROVE  Settled(t)'
    <3>1. Silent(t)' /\ s # t
      BY <2>3, <2>5 DEF Settled
    <3>2. t \in viewed' <=> t \in viewed
      BY <1>2, <3>1
    <3> QED BY <1>2, <2>5, <3>1, <3>2, Zenon DEF Settled
  <2>6. Awaits(t) \/ Settled(t) => Awaits(t)' \/ Settled(t)'
    BY <2>3, <2>4, <2>5, Zenon DEF Settled
  <2> QED BY <1>2, <2>1, <2>2, <2>6 DEF Told
<1> QED BY <1>2, <1>7, <1>8, <1>9 DEF ViewInv, Followed

LEMMA ViewInvNext == ViewInv /\ [ViewNext]_viewVars => ViewInv'
<1> SUFFICES ASSUME ViewInv, [ViewNext]_viewVars PROVE ViewInv'
  OBVIOUS
<1>1. CASE \/ Cache \/ UNCHANGED viewVars
  <2>1. UNCHANGED <<shown, cur, fresh, up, known, frames, asked, line, viewed, views, beacons,
                    late, swapped, refused, cut>>
    BY <1>1 DEF Cache, viewVars, page, handlers, registry, history
  <2>2. Typed' /\ Registered'
    BY <2>1 DEF ViewInv, Typed, Registered
  <2>3. Followed'
    BY <2>1, SameTold DEF ViewInv, Followed
  <2> QED BY <2>2, <2>3 DEF ViewInv
<1>2. CASE Show \/ Hide \/ Switch \/ Away \/ Drop
  BY <1>2, PageInv
<1>3. CASE \E s \in Socks : \/ Connect(s) \/ Greet(s) \/ Handle(s) \/ Clear(s)
                             \/ BeaconLost(s) \/ Close(s)
  BY <1>3, NetworkInv, HandleInv
<1>4. CASE \E s \in Socks : \E i \in DOMAIN asked[s] : Known(s, i) \/ UnknownTo(s, i)
  BY <1>4, KnownInv
<1>5. CASE Viewed
  BY <1>5, ViewedInv
<1> QED BY <1>1, <1>2, <1>3, <1>4, <1>5 DEF ViewNext


\* Either the page's word is on its way, or the registry has it.
LEMMA WordSaid ==
  ASSUME ViewInv, NEW s \in up \ (swapped \cup refused), cur = s
  PROVE  \/ Saying(s, Frames) /\ (~shown => Saying(s, {"off", "leave"}))
         \/ s \in viewed <=> shown
<1>1. /\ s \in Socks /\ Told(s)
      /\ frames[s] \in Seq(Frames) /\ asked[s] \in Seq({"on", "off"})
  BY DEF ViewInv, Typed, Followed
<1>2. Word \in Frames /\ (~shown => Word = "off")
  BY DEF Word, Frames
<1>3. CASE frames[s] # <<>>
  <2>1. Len(frames[s]) \in DOMAIN frames[s] /\ Last(frames[s]) = frames[s][Len(frames[s])]
    BY <1>1, <1>3, EmptySeq, LenProperties DEF Last
  <2>2. Last(frames[s]) \in Frames /\ (~shown => Last(frames[s]) \in {"off", "leave"})
    BY <1>1, <1>2, <1>3 DEF Told, LastFrame, Frames
  <2> QED BY <2>1, <2>2 DEF Saying
<1>4. CASE frames[s] = <<>> /\ asked[s] # <<>>
  <2>1. Len(asked[s]) \in DOMAIN asked[s] /\ Last(asked[s]) = asked[s][Len(asked[s])]
    BY <1>1, <1>4, EmptySeq, LenProperties DEF Last
  <2>2. Last(asked[s]) = Word
    BY <1>1, <1>4 DEF Told, Quiet
  <2> QED BY <1>2, <2>1, <2>2 DEF Saying
<1>5. CASE frames[s] = <<>> /\ asked[s] = <<>>
  <2>1. Awaits(s) \/ Settled(s)
    BY <1>1, <1>5 DEF Told, Quiet
  <2>2. Settled(s) => (s \in viewed <=> shown)
    BY Zenon DEF Settled
  <2>3. CASE Awaits(s)
    <3>1. PICK i \in DOMAIN line : line[i].sock = s /\ Says(line[i]) = Word
      BY <2>3 DEF Awaits
    <3> QED BY <1>2, <3>1 DEF Saying, Says
  <2> QED BY <2>1, <2>2, <2>3
<1> QED BY <1>3, <1>4, <1>5

LEMMA InvExplains == ViewInv => ViewsExplained
<1> SUFFICES ASSUME ViewInv PROVE ViewsExplained
  OBVIOUS
<1>1. ASSUME NEW s \in views \ (late \cup swapped \cup refused)
      PROVE  \/ Looking(s) \/ Saying(s, {"off", "leave"})
             \/ s \in up /\ cur # s
  <2>1. s \in up /\ s \in viewed
    BY <1>1 DEF ViewInv, Registered
  <2>2. CASE cur = s
    BY <1>1, <2>1, <2>2, WordSaid DEF Looking
  <2> QED BY <2>1, <2>2
<1>2. ASSUME NEW s \in up \ (views \cup cut \cup swapped \cup refused), Looking(s)
      PROVE  Saying(s, Frames)
  <2>1. s \notin viewed
    BY <1>2 DEF ViewInv, Registered
  <2> QED BY <1>2, <2>1, WordSaid DEF Looking
<1> QED BY <1>1, <1>2 DEF ViewsExplained

\* Who gets no pushes of a room looks at it, or the end of it is on its way, and
\* who looks at it gets none once nothing is on its way: for any number of
\* sockets, breaks and beacons, however the handlers and the queries of their
\* access are mixed, with the exceptions the property names.
THEOREM ViewsAreExplained == ViewSpec => []ViewsExplained
<1>1. ViewInit => ViewInv
  <2> SUFFICES ASSUME ViewInit PROVE ViewInv
    OBVIOUS
  <2>1. <<>> \in Seq(Frames) /\ <<>> \in Seq({"on", "off"}) /\ <<>> \in Seq(Handlers)
    BY EmptySeq
  <2>2. Typed
    BY <2>1 DEF ViewInit, Typed
  <2>3. Registered /\ Followed
    BY DEF ViewInit, Registered, Followed
  <2> QED BY <2>2, <2>3 DEF ViewInv
<1> QED BY <1>1, ViewInvNext, InvExplains, PTL DEF ViewSpec

=============================================================================
