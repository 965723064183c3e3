----------------------------- MODULE ChatPushes -----------------------------
(***************************************************************************)
(* What one person's devices show of one room: dispatchChatMessagePush and *)
(* sendReadSyncPush (backend/src/push/push.service.ts), markRoomRead and   *)
(* scheduleReadSync (chat/chat.gateway.ts), the push handler of            *)
(* frontend/public/sw.js and markRoomAsRead of the room's page.  The       *)
(* dispatches of the room's messages are calls of the limiter, beside      *)
(* calls of other rooms.                                                   *)
(***************************************************************************)
EXTENDS AsyncLimiter

CONSTANTS Messages,   \* how many messages the others write; calls 1..Messages
          Devices,    \* push subscriptions of the person, each a service worker
          NoDevice,   \* a browser without a subscription
          Marks,      \* markRoomRead events in progress at the same time
          Syncs,      \* read-sync pushes in progress at the same time
          MaxReads,   \* bound on the readings
          MaxFaults   \* bound on the failures

ASSUME PushAssumption == /\ Messages \in Nat /\ 1..Messages \subseteq Calls
                         /\ NoDevice \notin Devices
                         /\ Syncs \cap 1..Messages = {}

VARIABLES stored,   \* messages in the table, in the order of createdAt
          stage,    \* the dispatch of each message
          rows,     \* PushSubscription
          gone,     \* subscriptions that the push service has refused
          out,      \* requests to the push service: <<message or sync, device>>
          again,    \* requests that are a second attempt
          flights,  \* pushes accepted and not delivered yet
          shade,    \* the room's notifications on each device
          local,    \* devices whose page is about to dismiss them
          mark,     \* the markRoomRead events: where they are, their readAt
          told,     \* the latest readAt that such an event has saved
          cool,     \* lastReadSyncAt is less than READ_SYNC_THROTTLE_MS ago
          pending,  \* pendingReadSync: its timer is set, or due
          sync,     \* sendReadSyncPush, until its requests go out
          reads, faults,
          overdue,  \* history: pushes delivered after their message was read
          missed    \* history: devices that a read-sync has failed to reach

deliveries == <<out, again, flights, shade>>
readings == <<mark, told, local, reads>>
throttle == <<cool, pending, sync>>
pushVars == <<stored, stage, rows, gone, deliveries, readings, throttle, faults,
              overdue, missed, limiterVars>>

Numbers == 1..Messages
Jobs == Numbers \cup Syncs

PushTypeOK ==
    /\ stored \in 0..Messages
    /\ stage \in [Numbers -> {"no", "stored", "excluded", "called", "sent", "done"}]
    /\ rows \subseteq Devices /\ gone \subseteq Devices
    /\ out \subseteq Jobs \X Devices /\ again \subseteq Jobs \X Devices
    /\ flights \subseteq Jobs \X Devices
    /\ shade \in [Devices -> SUBSET Numbers] /\ local \subseteq Devices
    /\ mark \in [Marks -> [pc : {"no", "emitted", "write", "wrote"}, at : 0..Messages]]
    /\ told \in 0..Messages
    /\ cool \in BOOLEAN /\ pending \in {"no", "set", "due"}
    /\ sync \in [Syncs -> {"no", "ask"}]
    /\ reads \in 0..MaxReads /\ faults \in 0..MaxFaults
    /\ overdue \subseteq Numbers \X Devices /\ missed \subseteq Devices

Unread == [pc |-> "no", at |-> 0]

PushInit == /\ LimiterInit
            /\ stored = 0 /\ stage = [c \in Numbers |-> "no"]
            /\ rows \in SUBSET Devices /\ gone = {}
            /\ out = {} /\ again = {} /\ flights = {}
            /\ shade = [d \in Devices |-> {}] /\ local = {}
            /\ mark = [m \in Marks |-> Unread] /\ told = 0
            /\ cool = FALSE /\ pending = "no" /\ sync = [s \in Syncs |-> "no"]
            /\ reads = 0 /\ faults = 0 /\ overdue = {} /\ missed = {}

Fault == faults < MaxFaults /\ faults' = faults + 1

-----------------------------------------------------------------------------
(* A message and its dispatch. *)

\* The row of the next message is inserted; its handler goes on later.
Store(c) == /\ c = stored + 1 /\ stored' = c
            /\ stage' = [stage EXCEPT ![c] = "stored"]
            /\ UNCHANGED <<rows, gone, deliveries, readings, throttle, faults,
                           overdue, missed, limiterVars>>

\* broadcastNewChatMessage: who looks at the room now is excluded, and the
\* dispatch asks the limiter for a slot.
Call(c) == /\ stage[c] = "stored"
           /\ \E to \in {"excluded", "called"} : stage' = [stage EXCEPT ![c] = to]
           /\ Park(c) \/ Enter(c)
           /\ UNCHANGED <<stored, rows, gone, deliveries, readings, throttle, faults,
                          overdue, missed>>

\* The recipients without the excluded, and their subscriptions, have been
\* read: the requests go out.
Dispatch(c) == /\ pc[c] = "running" /\ stage[c] \in {"excluded", "called"}
               /\ stage' = [stage EXCEPT ![c] = "sent"]
               /\ out' = IF stage[c] = "excluded" THEN out ELSE out \cup ({c} \X rows)
               /\ UNCHANGED <<stored, rows, gone, again, flights, shade, readings,
                              throttle, faults, overdue, missed, limiterVars>>

\* One of these queries fails: the dispatch ends.
DispatchFails(c) == /\ Fault
                    /\ pc[c] = "running" /\ stage[c] \in {"excluded", "called"}
                    /\ stage' = [stage EXCEPT ![c] = "sent"]
                    /\ UNCHANGED <<stored, rows, gone, deliveries, readings, throttle,
                                   overdue, missed, limiterVars>>

\* Every request is answered: the dispatch gives its slot back.
Done(c) == /\ stage[c] = "sent" /\ \A d \in Devices : <<c, d>> \notin out
           /\ stage' = [stage EXCEPT ![c] = "done"]
           /\ Release(c)
           /\ UNCHANGED <<stored, rows, gone, deliveries, readings, throttle, faults,
                          overdue, missed>>

\* The limiter goes on: a resolved call takes its slot, other rooms use it.
Others == /\ \/ Resume
             \/ \E c \in Calls \ Numbers : Park(c) \/ Enter(c) \/ Release(c)
          /\ UNCHANGED <<stored, stage, rows, gone, deliveries, readings, throttle,
                         faults, overdue, missed>>

-----------------------------------------------------------------------------
(* sendToSubscription, the push service and the service worker. *)

\* The push service takes the push.
Accept(j, d) == /\ <<j, d>> \in out
                /\ out' = out \ {<<j, d>>} /\ again' = again \ {<<j, d>>}
                /\ flights' = flights \cup {<<j, d>>}
                /\ UNCHANGED <<stored, stage, rows, gone, shade, readings, throttle,
                               faults, overdue, missed, limiterVars>>

\* It takes the push, but its answer is an error that is retried once.
AcceptTwice(j, d) == /\ Fault
                     /\ <<j, d>> \in out \ again
                     /\ again' = again \cup {<<j, d>>}
                     /\ flights' = flights \cup {<<j, d>>}
                     /\ UNCHANGED <<stored, stage, rows, gone, out, shade, readings,
                                    throttle, overdue, missed, limiterVars>>

\* 404 or 410: the row goes.  The browser's next subscription is another one.
Refuse(j, d) == /\ <<j, d>> \in out
                /\ Fault \/ (d \in gone /\ UNCHANGED faults)
                /\ out' = out \ {<<j, d>>} /\ again' = again \ {<<j, d>>}
                /\ rows' = rows \ {d} /\ gone' = gone \cup {d}
                /\ UNCHANGED <<stored, stage, flights, shade, readings, throttle,
                               overdue, missed, limiterVars>>

Lost(j, d) == missed' = IF j \in Syncs THEN missed \cup {d} ELSE missed

\* Another error, twice: nobody tries again.
Fail(j, d) == /\ Fault
              /\ <<j, d>> \in out
              /\ out' = out \ {<<j, d>>} /\ again' = again \ {<<j, d>>}
              /\ Lost(j, d)
              /\ UNCHANGED <<stored, stage, rows, gone, flights, shade, readings,
                             throttle, overdue, limiterVars>>

\* The device stays away for longer than the push may wait.
Expire(j, d) == /\ Fault
                /\ <<j, d>> \in flights
                /\ flights' = flights \ {<<j, d>>}
                /\ Lost(j, d)
                /\ UNCHANGED <<stored, stage, rows, gone, out, again, shade, readings,
                               throttle, overdue, limiterVars>>

\* A message is shown; its tag is its own, so a second copy replaces the first.
ShowNote(c, d) == /\ <<c, d>> \in flights
                  /\ flights' = flights \ {<<c, d>>}
                  /\ shade' = [shade EXCEPT ![d] = @ \cup {c}]
                  /\ overdue' = IF c <= told THEN overdue \cup {<<c, d>>} ELSE overdue
                  /\ UNCHANGED <<stored, stage, rows, gone, out, again, readings, throttle,
                                 faults, missed, limiterVars>>

\* A read-sync: dismissRoomNotifications closes all that the room has shown.
Sweep(s, d) == /\ <<s, d>> \in flights
               /\ flights' = flights \ {<<s, d>>}
               /\ shade' = [shade EXCEPT ![d] = {}]
               /\ missed' = missed \ {d}
               /\ UNCHANGED <<stored, stage, rows, gone, out, again, readings, throttle,
                              faults, overdue, limiterVars>>

\* The person closes a notification.
CloseNote(c, d) == /\ c \in shade[d]
                   /\ shade' = [shade EXCEPT ![d] = @ \ {c}]
                   /\ UNCHANGED <<stored, stage, rows, gone, out, again, flights, readings,
                                  throttle, faults, overdue, missed, limiterVars>>

\* A browser registers its subscription.
Subscribe(d) == /\ d \notin rows \cup gone
                /\ rows' = rows \cup {d}
                /\ UNCHANGED <<stored, stage, gone, deliveries, readings, throttle,
                               faults, overdue, missed, limiterVars>>

-----------------------------------------------------------------------------
(* Reading the room. *)

\* markRoomAsRead of the page: it tells the server, and will dismiss what is
\* shown on its own device.
Read(m, w) == /\ mark[m].pc = "no" /\ reads < MaxReads /\ reads' = reads + 1
              /\ mark' = [mark EXCEPT ![m].pc = "emitted"]
              /\ local' = IF w = NoDevice THEN local ELSE local \cup {w}
              /\ UNCHANGED <<stored, stage, rows, gone, deliveries, told, throttle,
                             faults, overdue, missed, limiterVars>>

Dismiss(d) == /\ d \in local /\ local' = local \ {d}
              /\ shade' = [shade EXCEPT ![d] = {}]
              /\ missed' = missed \ {d}
              /\ UNCHANGED <<stored, stage, rows, gone, out, again, flights, mark, told,
                             reads, throttle, faults, overdue, limiterVars>>

\* handleMarkRoomRead, once access is granted: readAt is now.
MarkAt(m) == /\ mark[m].pc = "emitted"
             /\ mark' = [mark EXCEPT ![m] = [pc |-> "write", at |-> stored]]
             /\ UNCHANGED <<stored, stage, rows, gone, deliveries, told, local, reads,
                            throttle, faults, overdue, missed, limiterVars>>

\* The event is lost with its socket, access is denied, or a query fails.
MarkFails(m) == /\ Fault
                /\ mark[m].pc \in {"emitted", "write"}
                /\ mark' = [mark EXCEPT ![m] = Unread]
                /\ UNCHANGED <<stored, stage, rows, gone, deliveries, told, local,
                               reads, throttle, overdue, missed, limiterVars>>

\* markRoomAsRead: the row is written; a later readAt may have been before it.
MarkWritten(m) == /\ mark[m].pc = "write"
                  /\ mark' = [mark EXCEPT ![m].pc = "wrote"]
                  /\ told' = IF mark[m].at > told THEN mark[m].at ELSE told
                  /\ UNCHANGED <<stored, stage, rows, gone, deliveries, local, reads,
                                 throttle, faults, overdue, missed, limiterVars>>

\* A slot for the pushes of a read-sync whose previous ones are all over.
Free(s) == sync[s] = "no" /\ \A d \in Devices : <<s, d>> \notin out \cup flights
Begin(s) == Free(s) /\ sync' = [sync EXCEPT ![s] = "ask"] /\ cool' = TRUE

\* Mutant of Postpone: what falls into the window is dropped.
PostponeNothing == cool /\ UNCHANGED throttle

\* scheduleReadSync within the window: one deferred read-sync for all.
Postpone == /\ cool
            /\ pending' = IF pending = "no" THEN "set" ELSE pending
            /\ UNCHANGED <<cool, sync>>

\* The rest of handleMarkRoomRead: the read-sync goes out at once, or waits.
Schedule(m) == /\ mark[m].pc = "wrote"
               /\ mark' = [mark EXCEPT ![m] = Unread]
               /\ \/ Postpone
                  \/ ~cool /\ (\E s \in Syncs : Begin(s)) /\ UNCHANGED pending
               /\ UNCHANGED <<stored, stage, rows, gone, deliveries, told, local, reads,
                              faults, overdue, missed, limiterVars>>

\* READ_SYNC_THROTTLE_MS are over, for the window and for the timer set in it.
Cooled == /\ cool /\ cool' = FALSE
          /\ pending' = IF pending = "set" THEN "due" ELSE pending
          /\ UNCHANGED <<stored, stage, rows, gone, deliveries, readings, sync, faults,
                         overdue, missed, limiterVars>>

\* The timer fires.
TimerFires == /\ pending = "due" /\ pending' = "no"
              /\ \E s \in Syncs : Begin(s)
              /\ UNCHANGED <<stored, stage, rows, gone, deliveries, readings, faults,
                             overdue, missed, limiterVars>>

\* sendReadSyncPush has read the person's subscriptions and counted the badge:
\* a push for each of them, the one that has read included.
SyncOut(s) == /\ sync[s] = "ask" /\ sync' = [sync EXCEPT ![s] = "no"]
              /\ out' = out \cup ({s} \X rows)
              /\ UNCHANGED <<stored, stage, rows, gone, again, flights, shade, readings,
                             cool, pending, faults, overdue, missed, limiterVars>>

\* One of the queries fails: no read-sync.
SyncFails(s) == /\ Fault
                /\ sync[s] = "ask" /\ sync' = [sync EXCEPT ![s] = "no"]
                /\ missed' = missed \cup Devices
                /\ UNCHANGED <<stored, stage, rows, gone, deliveries, readings, cool,
                               pending, overdue, limiterVars>>

PushNext ==
    \/ \E c \in Numbers : \/ Store(c) \/ Call(c) \/ Dispatch(c) \/ DispatchFails(c)
                          \/ Done(c)
    \/ Others
    \/ \E j \in Jobs, d \in Devices : \/ Accept(j, d) \/ AcceptTwice(j, d)
                                      \/ Refuse(j, d) \/ Fail(j, d) \/ Expire(j, d)
    \/ \E c \in Numbers, d \in Devices : ShowNote(c, d) \/ CloseNote(c, d)
    \/ \E s \in Syncs, d \in Devices : Sweep(s, d)
    \/ \E d \in Devices : Subscribe(d) \/ Dismiss(d)
    \/ \E m \in Marks, w \in Devices \cup {NoDevice} : Read(m, w)
    \/ \E m \in Marks : MarkAt(m) \/ MarkFails(m) \/ MarkWritten(m) \/ Schedule(m)
    \/ Cooled \/ TimerFires
    \/ \E s \in Syncs : SyncOut(s) \/ SyncFails(s)

\* The limiter's microtasks run, queries and requests are answered, and the
\* dispatches of other rooms end as these do.
PushFairness ==
    /\ WF_pushVars(Others /\ Resume)
    /\ \A c \in Numbers : WF_pushVars(Dispatch(c)) /\ WF_pushVars(Done(c))
    /\ \A c \in Calls \ Numbers : WF_pushVars(Others /\ Release(c))
    /\ \A j \in Numbers, d \in Devices : WF_pushVars(Accept(j, d))

PushSpec == PushInit /\ [][PushNext]_pushVars /\ PushFairness

-----------------------------------------------------------------------------
\* A read-sync is due, or on its way to the device.
Coming(d) == \/ \E m \in Marks : mark[m].pc = "wrote"
             \/ pending # "no"
             \/ \E s \in Syncs : sync[s] = "ask" \/ <<s, d>> \in out \cup flights

\* A device whose person has read a message shows it no more, or will close it:
\* readings that fall into the throttle's window, overtake each other or race
\* the dispatch, the limiter and the devices lose nothing.  Excepted are pushes
\* that were delivered after the reading, and devices that a failed push, query
\* or subscription left without their read-sync.
ShadeIsUnread == \A d \in Devices \ (missed \cup gone) : \A c \in shade[d] :
    c <= told => <<c, d>> \in overdue \/ Coming(d)

=============================================================================
