# ChristApp: TLA+ models of the server's shared state

ChristApp is an npm monorepo: a NestJS backend (`src/backend/src`, one Node
process, Postgres through Prisma, Socket.IO) and a Next.js frontend
(`src/frontend/src`, with a proxy for the authentication routes). Most of what
can go wrong in it is not in one function: it is in what happens between two
`await`s of a service that keeps maps in memory, beside a database, for clients
that disconnect, retry and open several tabs. These modules describe that part.

The text below has four parts: the inventory of the system, the modules (what
each models, checks and proves), what was found, and the plan.

## 1. Inventory

"State" is what a component keeps between calls. "Hard" is what its unit tests
hardly reach.

| Component | State | Operations | Hard | Correct when | Module |
|---|---|---|---|---|---|
| Push limiter, `push/async-limiter.ts` | counter, queue of parked calls | `run` | microtask between the release of a slot and the resumption of a waiter | no slot is lost, parked calls run | `AsyncLimiter`, in `ChatPushes` |
| Ruby economy, `flock/flock.rubies.service.ts` | `FlockProfile`, `RubyTransaction`, purchases, `FlockTeamReward` | awards, purchases, collection reward, admin grants and corrections | read, decide, write in one transaction; daily limits across midnight; two tabs | balance and journal agree, limits hold, once is once | `RubyLedger`, `Wallet` |
| Records of the day, `flock/flock.daily.service.ts` | `FlockDailyRecord`, `FlockDayWinner`, `FlockStreak`, a map of written results | `recordMass`, `closePendingDays`, `closeDay`, `claimStreakAward` | two processes while deploying, restarts between two days, failed inserts | each day is closed once, in order, and paid once | `DailyStreak` |
| Refresh sessions, `auth/auth.service.ts`, the proxy route, `lib/authSession.ts` | `RefreshSession` rows, the cookie | `refresh`, `logout`, login, register | parallel refreshes, lost answers, crash between rotation and insertion | one successor, a refusal has a reason, logout is final | `RefreshSessions` |
| User cache, `auth/auth-user-cache.ts`, `jwt.strategy.ts` | map of users with expiry | `validate`, `get`, `set`, `invalidate` | a row read before an edit is stored after it | stale only by such a race; bounded | `AuthUserCache` |
| Room access cache, `chat/room-access.cache.ts` | map of grants, map of queries in flight | `resolve`, `invalidate`, `remember` | a shared query older than the change | stale only by such a race; nobody is forgotten | `RoomAccessCache` |
| Watch-party hall, `watch-party/watch-party.service.ts`, `.gateway.ts`, `.state.ts` | runtimes, loads, presence, grace timers; `WatchRoom`, members | join, leave, disconnect, control, transfer, delete, grace timer | every operation awaits the database and goes on with the maps of afterwards | a hall with members in it has, or gets, a host who is in it | `WatchHall` |
| Service lines, `watch-party/watch-presence-notices.ts` | `PairState` objects with timers and counters | `departed`, `arrived`, `clearRoom`, `dispose` | a row is being written while the person comes back | the last line says where the person is | `PresenceNotices` |
| Presence registry, `chat/presence.registry.ts`, `last-seen-writer.ts`, the page's `lib/presenceReporter.ts` | devices with heartbeats, online set, debounce timers, times waiting to be written | connect, active, beat, disconnect, sweep, beacon | handlers that await the user's row, several sockets breaking and returning around one timer, late beacons | online iff an active device or a break within the debounce; the time last seen is true and is saved | `PresenceRegistry` |
| Chat gateway and messages, `chat/chat.gateway.ts`, `messages/`; the open room, `chat/[roomId]/page.tsx`, `lib/chatOutgoing.ts`, `lib/chatReconcile.ts` | `Message` rows, socket rooms; the list, the bubbles, the queue of unsent texts | send, retry, edit, delete, join, load a history | a retry of what was stored, events between a history's reading and its arrival, broken sockets | the page shows the room; no text is lost unsaved; a retry makes no second message | `RoomMessages`; leaving and joining a room in `RoomAccessCache` |
| Puzzle, guess the character, snake duel, `chat/*/` | sessions in memory | moves, turns, departures | departures in the middle of a turn | a lock is freed, a turn passes on | not modelled |
| Game activity, `chat/game-activity/` | who plays what, heartbeat | start, beat, stop | as the presence registry | as the presence registry | not modelled |
| Push delivery, `push/push.service.ts`, `public/sw.js`, the read-sync of `chat/chat.gateway.ts` | `PushSubscription` rows, the throttle's times and timers; what each device shows | dispatch, retry, refusal, `markRoomRead`, read-sync, subscribe | readings that fall into a throttle's window, pushes that are late, lost or twice | what was read leaves every device | `ChatPushes` |
| Who looks at a room, `push/room-view.registry.ts`, `roomViewState`, the beacon | views by socket; `client.data.viewedRooms` | show, hide, leave, disconnect, clear | two channels that say the same, handlers that outlive their socket or overtake each other | who gets no pushes looks at the room | `RoomViews` |
| Arena manager, `flock/flock.manager.ts`, `.gateway.ts` | arenas, sessions by user and by socket, players | join, resume, leave, disconnect, sweep, rounds | a join that awaits while its socket goes, resumption on another socket, pauses that hold places | one session and one body per player; a pause is safe; a life counts once | `FlockSessions` |
| Arena engine, `flock/flock.engine.ts`, castles, boss, bots | a simulation | `tick` | real-valued positions | - | not modelled (out of TLC's reach as a whole) |
| Google login, rate limiter, `auth/` | identities, counters | link, count | parallel attempts | - | not modelled |
| Users, admin, verses, health | rows | single statements | - | they invalidate the user cache | only as writers in `AuthUserCache` |
| Video search and resolver, `url-safety.ts`, Cloudinary | none | requests to third parties | - | - | not modelled (pure I/O, parsing) |
| The rest of the frontend, `lib/`, `components/` | React state | - | - | - | the session in `RefreshSessions`, the hall in `WatchHall`; the rest not modelled |

How the parts interact:

- the browser holds the refresh cookie and calls the proxy route, which calls
  `AuthController` and sets or clears the cookie by the answer; `JwtStrategy`
  is asked on every request and asks the user cache;
- the chat gateway asks the room access cache on every socket event; the handlers
  that remove a member invalidate it after their `await`;
- the gateway of the watch party translates socket events into calls of
  `WatchPartyService`, which calls `PresenceNotices` when a person enters or
  leaves the hall;
- the arena reports results to `FlockDailyService.recordMass` and awards to
  `FlockRubiesService`; closing a day pays the streak through `grantStreakInTx`,
  inside the transaction of the day;
- chat messages are dispatched as pushes through the limiter; the dispatch leaves out whom the
  view registry knows to be looking, and a reading sends a silent push that closes what is shown;
- the handler of `roomViewState` asks the room access cache before it changes the view registry,
  which the beacon of a page that is being hidden changes directly;
- the gateway feeds the presence registry from the frames of `presenceReporter`, and the push
  controller feeds it from the beacon of a page that is being hidden; what the registry
  publishes reaches `LastSeenWriter`;
- the room's page keeps a text as a bubble until the gateway's echo or a history holds it.

## 2. The modules

JavaScript runs one piece of code at a time, so an action is what runs between two
`await`s; a database transaction that locks its row first is one action from the
lock to the commit (`RubyLedger` models the lock itself). An operation that awaits
is a `pc` and the values it carries on. The names of variables and actions are those
of the source, and `PROJECT.json` gives the lines of each definition. Definitions
marked "Mutant of X" are plausible bugs; no specification uses them. They are there
so that each property can be seen to fail for some bug.

History variables record what a property has to remember (`raced`, `ended`,
`dropped`, `stale`, `overlap`, `wiped`, ...). No guard reads them.

### AsyncLimiter

`active`, `waiting` are the fields. `resumed` is the part of the microtask queue the
class depends on: the calls whose promise is resolved but whose continuation has
not run. `Park`, `Enter` are the two branches at the top of `run`, `Resume` the
continuation of a parked call, `Release` the `finally` block.

- It is checked in its composition, run `chat_pushes`: `NoLostSlot` and, with fairness,
  `ParkedCallRuns`. That `active` counts the running tasks is proved (`CounterIsExact`).
- More tasks than the limit may run for a while (section 3), so the properties speak of
  slots, not of the limit.

### ChatPushes

One person, one room, the person's devices. `stage` is the dispatch of each message: its call of the
limiter, the queries, the requests `out` to the push service, its end. `flights` are pushes that
the push service has taken, `shade` the room's notifications on each device. `mark` holds the
handlers of `markRoomRead` between their queries, `cool` and `pending` are the throttle of
`scheduleReadSync`, `sync` the read-sync pushes. `told` is the latest reading that a handler has saved.
Calls of the limiter that are no message of this room are other rooms' dispatches (`Others`).

- Run `chat_pushes` (three calls and a limit of one, so that a dispatch parks behind another room's; one
  message, two readings, so that one falls into the window of the other; one failure of a query, a
  request, a push or a subscription): `NoLostSlot`, `ShadeIsUnread`, `ParkedCallRuns`. Without the
  liveness property the same holds for two messages and two read-syncs at once (5.5 million states,
  not a run because of its length); for every number it is proved.
- Fairness: microtasks run, queries and requests settle, other rooms' dispatches end as these do.
  Nothing of the person, the devices or new calls.
- A dispatch excludes the person or not, whatever they look at (`Call`): `RoomViews` says when
  it may.
- Left out: titles, texts and badges; pushes of calls, invitations and the hall; the mark that
  `joinRoom` writes without a read-sync; a restart, which forgets the timers (a read-sync that was
  due is then never sent); a subscription that changes its owner.

### RoomViews

One person with one page, the sockets the page has one after the other, and one room, whose access is
the pair `Key` of the cache. `shown` and `cur` are the page; `frames` what it has emitted; `asked`
and `line` the handlers of `roomViewState` at their two awaits; `viewed` is `viewedRooms`, `views` the
registry; `beacons` the keepalive requests. The user's row is read by each handler for itself, so
`asked` may be answered in any order; the answers of the cache come in the order of the questions.

- Run `room_views` (two sockets, so that a page returns while its old socket is still up; three moves of
  the person or the network; two keys in a cache of one, so that another room's entry displaces this
  one's; a membership that changes once): `StaleOnlyByRace`, `NobodyForgotten`, `ViewsExplained`.
- Other events of the same person in the same room are left out: they would only fill the cache.

### RubyLedger and Wallet

One player (profiles share nothing), several open requests. `Call` evaluates `now`,
before the lock; `Lock` is `lockProfile`; each operation of the service is an action
from there to the commit, `GiveUp` is any rollback. The append-only journal is kept
as the sums that the properties ask of it: of all deltas, of the arena's deltas since
each day, the number of rows of each name. `Wallet` is the abstract specification:
indivisible steps of a balance, with no transaction, lock or journal.

- Run `ruby_ledger` (two requests, six in all, two days, limits a little above one
  reward, so that clipping, a full limit, a purchase that completes the collection,
  and a request that waits beyond midnight all occur): `JournalExplainsBalance`,
  `DailyLimits` (the arena's and both of the team victories), `OneRowEach`, and `ImplementsWallet`.

### DailyStreak

`written` and `pend` are `recordMass`'s map and its inserts in flight; `rec`, `winner`,
`closed`, `streak` the tables, and `won`, `granted`, `shown` what was paid, what the journal says
was paid for which day, and what the player was told of; `sweep` is `closePendingDays` of each server, a loop
with one transaction (`CloseDay`) per day, ended by the deletion of old records
(`SweepEnd`). `claimStreakAward` is two statements (`Claim`, `ClaimClean`). Rows
are ordered by `updatedAt`, which decides among equal results. `SweepFails`,
`RecordFails` and `Restart` are the failures.

- Run `daily_streak` (two servers, the days 2 to 4 closed, a cycle of two rewards, so
  that a cycle ends and starts again; failures and restarts): `PaidIsEarned` (the journal
  holds for each day what its winner earned by the place of the day in the run, computed from the
  winners alone, and nothing for anybody else),
  `StreakIsRun` (no day skipped; the streak counter is the run of days), `ToldOnce`,
  `WrittenIsTrue`, and, under fairness, `RecordsWaitForClosing`, `DaysGetClosed`.
- Fairness: the interval of 60 s calls the sweep, and the database answers; failures are
  finite in number (`MaxFaults`).
- Not in the model: the very first sweep on an empty table (day 1 is closed in `Init`),
  and a sweep that is more than `MaxCatchUp + KeepDays` days behind, which the guard of
  `Tick` rules out (70 days of continuous failure with the code's constants 40 and 30: then the
  sweep would delete records of days it has not closed). In the run both constants are 1 and every
  result is as good as another; with two masses the invariants hold as well.

### RefreshSessions

One browser, one cookie, several calls in flight. `Send` is a tab, `Sweep`, `Find`, `Drop`,
`GraceUser`, `LiveUser`, `DropAll`, `Rotate`, `Reread`, `Issue` are the pieces of
`refresh` between its awaits, `LogoutDelete` is `logout`, `Deliver` is the proxy's answer
in the browser. `Lose` drops an answer, `Crash` stops the backend, `Deactivate`
switches the account off. Tokens are numbered; the hash and the JWT are left out.

- Run `refresh_sessions` (two calls at once, four in all, grace 2, lifetime 3, clock to
  4, so that the grace and the lifetime both pass): `RotatedOnce`,
  `RefusedForAReason`, `LogoutIsFinal`, `DisabledGetsNothing`.
- `RefusedForAReason` is what the note on rotation in `docs/auth-pwa-ios.md` promises, as
  far as it can be promised: it excepts calls slower than half the grace (`slow`),
  lost answers of a rotation (`dropped`) and sessions the user logged out of (`out`).
- A logout whose refresh has rotated just before deletes the old row only; the new session
  stays. `LogoutIsFinal` therefore speaks of the sessions that were live when the
  logout reached them.

### AuthUserCache

`cache` is the map, `req` the HTTP requests inside `validate`, each with its own query;
`Edit`, `Delete` are the handlers that write and then invalidate, `Deactivate` a change
in the database that nobody announces. A row is its version.

- Run `auth_user_cache` (two users, two requests, a cache of one, two ticks beyond the
  TTL): `OwnEditSeen`, `OffWithinTtl`. That the cache is bounded is proved (`CacheBounded`).

### RoomAccessCache

`entries` is the map, with `older` the order of insertion, `load` the query in flight of each key, `event`
the socket events waiting for an answer. `Query` is the moment the database evaluates.

- It is checked in its composition, run `room_views`: `StaleOnlyByRace`, `NobodyForgotten`.

### WatchHall

One room. `rt` is the runtime (host, `hostAway`, whether the grace timer is armed), `load`
the shared load, `presence` the sockets of each user, `watched` the gateway's
`client.data.watchRooms`, `db` and `joinedAt` the rows (members are asked for in the order in
which they joined), `writes` the saves that were not
awaited. `join`, `leave`, `resolve`, `setting` are the points where `joinHall`,
`leaveRoom`/`deleteRoom`, `resolveHostAbsence` and `setHost` wait. `Quiet` says that
the continuation of `getRuntime` runs as a microtask, before any other event.
A `resolveHostAbsence` whose runtime is evicted while it waits for the members goes on with the
object it has (`Orphaned`, `ResolveOrphan`): it calls `setHost` all the same, or saves that object.
A query of `joinHall` may fail after the socket was added (`AnswerFails`): the client has an error,
and the socket is counted all the same.

- Run `watch_hall` (two members, three sockets, one of the members with two tabs):
  `HandoverPending`, `HostSavedUnlessOverlap`, `PresentUnlessStale`. All three speak of the members
  who have the hall open and were counted (`Watching`): a socket that a race has left behind is no
  reason for a hand-over.
- Run `watch_hall_fair` (two sockets, a database that may fail): `GhostOnlyByRace` and,
  under fairness, `HandoverHappens`.
- Fairness: the database answers, timers fire, tasks go on. Nothing of the clients.
- Assumed: the queries of one `resolveHostAbsence` end within the next grace of 15 s, so
  there is one at a time; no more than `MaxWrites` saves are told apart. One opening of the
  hall is enough for each race, `MaxOpens` is two so that somebody enters while somebody
  else does. With `MaxMoves` of 2 TLC found no violation in 9.5 million states, without
  coming to the end; the theorems hold for every number.
- Left out: position, video, chat, reactions, read marks, notifications.

### PresenceNotices

One person and one room. A `PairState` is an object that a publication keeps although the
map may have forgotten it, hence `pair` (the objects) and `cur` (the map). `call` are the
asynchronous functions in flight, `rows` the lines in the chat. Timers and windows may pass
at any time (`Fire`, `Age`, `Forget`); `Restart` forgets everything but the rows. `Evict` is the
service's `evictRuntime` after the await of `resolveHostAbsence`: it drops the presence of the room
with whoever came meanwhile, and tells the notices nothing; nor does the `leaveHall` of such a person,
which finds no presence.

- Run `presence_notices` (two calls at once, two objects, seven turns of the person or the room, one
  failure or restart): `LastLineTrue`, which excepts calls that overlapped (`crossed`) and rows that
  were not written (`refused`); section 3 says why. Of a person who was evicted in silence the line may
  say that they are there (`evicted`), until they come again; whoever is in the hall is always said to
  be. A person without a line has never been in the hall. The eviction is possible whenever the person is
  in the hall, which is more than the hall allows.

### PresenceRegistry

`device`, `beat`, `online`, `leaving` are the registry's devices, `lastBeat`, published set and
`pendingOffline`; `known`, `asked` are the gateway's `client.data.user` and the handlers that await
it; `shown`, `beacons` the page and its keepalive request; `wrote`, `waiting`, `writes`, `row` the
writer, its updates in the database and `User.lastSeenAt`. `Connect`, `Frame`, `Resolve`, `Close`
are the handlers, `Register`, `SetActive`, `Forget`, `Sweep`, `GraceOver` the registry's methods and
timer, `Schedule`, `WriteLater` the writer's.

A tick is one interval of the sweep. Times are ages in ticks, and a timer that is due runs before
the next tick: timers may be late by less than the sweep's period, not by more, and nothing else
is assumed of the order within a tick. A published time is "new" until the next one, which is all
`SavedUnlessLost` needs. A beacon may be late or lost; a page may be frozen before its frame goes out.

- Run `presence_registry` (one user, because users share nothing; two sockets; a debounce of one
  tick; one failed write, failed query, restart or crash): `OnlineExplained`, `NoGhost`,
  `LastSeenTrue`, `SavedUnlessLost`, `GraceBounded`.
- `GraceBounded` says with a bound what a liveness property would say without one: who is gone
  is shown as gone after the debounce.

### FlockSessions

`m` holds the manager's maps (`byConn`, `byUser`, each arena's sessions, the players of the worlds,
the arenas), `sess` each session with its player, `link` and `asks` the gateway's sockets and the
joins that await the checks of skin and artifact. `Again`, `Resume`, `Expired`, `Enter` are the
branches of `join`, in the order of the code; `Remove` is `removeSession`, `Picks` is `pickArena`,
`Broadcast` the part of the tick that tells a death and pays the first place, `Round`,
`StartRound`, `ResetMatch` what the circle and the castles do to the lives on them.

Of the world only lives and shields are kept. How long a pause, an absence of input, a map or a
round lasts is left open: each may end at any time, which allows every order the code's timers
can have. Arena numbers grow in the code; here a name is used again once its arena is gone, and
nothing of the old one is kept. Bots, input, phrases and packets are left out.

- Run `flock_sessions` (two players, one of them with two sockets; two normal arenas of one place
  each, a circle of two, a castle of one; a join in flight per socket and token):
  `SessionsAgree`, `RoomKept`, `PausedIsSafe`, `LifeCountedOnce`. Two normal arenas of one place are
  the smallest in which an arena is full, the mode is at its limit, and a retired map is
  better than none.

### RoomMessages

`db`, `born` are the rows with their `createdAt`; `send`, `change`, `join` the handlers between their
queries; `room` and `inbox` what socket.io keeps; `shown`, `bubble`, `queue`, `sentAt`, `fetch` the
page. A text has an author and may be sent several times with its `clientMessageId`; a row is the text
and how often it was stored; content is a version. `Apply` is `applyServerHistory` with
`reconcileMessages`, `OnNew` is `onNewMessage` with `confirm` and `integrateEcho`. Two actions empty a
page: `Leave`, which is the author's, and `Renew`, which nobody asked for: a refresh of the token in the
background installs a new `user` object (`authSession.ts:203`), on which the effects of the page depend.
The socket is let go (`page.tsx:2350`) and the list of the room that is open is emptied
(`page.tsx:1197`), bubbles and all, while the queue of texts stays.

- Run `room_messages` (one page that is looked at, the others are `Elsewhere`: pages share only
  the server; two texts, a window of one message, so that a history may miss what is shown; two
  attempts, one edit or deletion, one fault, which may be a renewal): `ShowsTheRoom`, `TextKept`,
  `BubbleIsUnsent`. With `MaxFaults = 2` TLC found no violation in 6.7 million states, without coming to
  the end; the theorems hold for every number.
- `TextKept` follows a text through the queue and through its bubble. The queue keeps it in every case;
  the bubble is excepted once a renewal has taken it away (`wiped`, section 3).
- Left out: the cache in IndexedDB, reactions, replies, membership, read marks, media; the room
  "share with Jesus", whose queue is emptied by a renewal too, since its socket room is looked up anew.

### Bounds

All bounds are CONSTANTS named `Max...`, `LastDay`, `Messages`, and guards; the runs do not
report a deadlock, because a bound may end the behaviour. Each was chosen by the
smallest value at which the case it is for happens: two actors for a race, three
sockets for two tabs and another person, capacity of one or two with one key more, one
failure. A run's mutants show that the interesting states are inside the bounds: each
property fails for the bug it is meant for.

### Proofs

`*_proofs` modules hold the theorems, for all values of the constants under the named
assumptions of each module (which TLC evaluates in every run).

- `Pushes_proofs`, first part (`ChatPushes`): `PushesImplementLimiter` (the composition takes the limiter's own steps), and
  through it `TypeCorrect`, `CounterIsExact`, `SlotsNeverLost`, whose invariant
  says that `waiting` and `resumed` hold each parked or resolved call exactly once, and
  that `active` is the cardinality of the running calls. `ShadesAreUnread` needs one thing
  more than the property: a device that shows or awaits something is registered or was refused
  (`Subscribed`), since a read-sync goes to the registered ones.
- `Pushes_proofs`, second part (`RoomViews`): `ViewsImplementCache` in the same way, and from it `NobodyIsForgotten` and `StaleByRaceOnly`.
  `ViewsAreExplained` follows from where the page's last word is (`ViewInv`): at the end of the frames, or of the
  handlers that await the user's row, or of those that await the access, or else in the registry.
- `RubyLedger_proofs`: `TypeCorrect`, `BalanceExplained`, `DaysLimited` (from
  `ArenaLimited` and `TeamLimited`), `PaidOnce`, `LedgerImplementsWallet`. None is inductive alone; the strengthening is
  `LockInv` (who has read the balance holds the lock, and the balance it read is the
  row's) and `NowInv` (a request's day is not in the future, so that rows are stamped
  no later than the sums they are added to). The refinement shows each action to be a
  step of `Wallet` or a stutter under the mapping `claimed` from the two stamps.
- `RubyLedger_proofs`, second part (`DailyStreak`): `DaysPaidAsEarned`, `StreaksAreRuns`, `RubiesToldOnce`,
  `WrittenResults`, `RecordsWait`. The invariant (`StreakInv`) names the last closed day c: the days 1 to
  c are closed and no others, and a sweep under way stands on one of them or on the next (`DaysInv`), so
  that whichever server comes second finds the day closed. A player's row holds the place of c in the
  run, and the journal what each day earned (`RowsInv`); the place of the next day is one more in the
  cycle, for any length of the cycle (`ModNext`). What was noted as written has its row or its insert
  (`WriteInv`). `RecordsWait` is an action property: the deletion stops short of every open day.
- `RefreshSessions_proofs`: `TypeCorrect`, `SessionRotatedOnce`, `LogoutEndsSession`,
  `DisabledIsRefused`, `RefusalsHaveReasons`. The strengthening speaks of the call between the rotation and the
  insertion of the new row: it is the only one for its token, whose session is not live,
  not ended, and has no successor. The last has an invariant of its own, `Refusals`, that
  explains the present by what is still to happen: a token that was replaced is with the browser only
  while the answer that brings the new one is on its way (`Awaited`), and, unless a call was slow, a call that
  carries it finds the grace still running (`Timely`) and the row in the table (`Present`).
- `AuthUserCache_proofs`: `TypeCorrect`, `EditSeen`, `CacheBounded`, `OffInTime`, with the lemma-like
  theorem `CacheCurrent`. What a request is about to store matters as much as what is
  stored: the invariant says the same of both. For `OffInTime` (`OffInv`) it bounds the age of an answer by
  `Delay` and with it the end of an entry that says "active" of a disabled account.

- `PresenceRegistry_proofs`: `Explanation`, `NoGhosts`, `GraceEnds`, `TimesAreTrue`, `TimesAreSaved`. The first three are
  nearly inductive together: a device belongs to a connected socket, a pending departure to
  an online user without an active device, and its age is the time since the last one went.
  The fourth needs the ages of beats: an active device is at most as old as the sweep allows. The last says
  where a time that is not lost is: in the table, in the writer's entry, or in an update under way (`WInv`).
- `FlockSessions_proofs`: `TypeCorrect`, `MapsAgree`, `RoomIsKept`, `PausedAreSafe`, `LivesCountOnce`. The
  first three are inductive only together: a new session fits because `pickArena` counted the
  seats, and the seats are those of the sessions. Its `Fates` adds to the fourth and fifth
  that a prize follows its mark and that only a resumed session has forgotten its end. One lemma says what
  `removeSession`, `resume` and the entry into an arena do to maps that agree, and each action is made of those.
- `RoomMessages_proofs`: `TextsAreKept`, `BubblesAreUnsent`, `RoomIsShown`. What takes a text off the queue, or
  its bubble off a page that is not renewed, is an echo or a history (`Spared`), so the first follows a row through everything that may name it: nobody, whether
  handler, socket, answer or page, hears of a row before it is in the table (`Known`). The second adds
  that a bubble has its entry and that a row beside it is older than the bubble (`BInv`). The third adds,
  for each row and page, who is still to tell the page of what it does not show (`ToTell`), and for each history
  on its way, that it holds every row that it reaches and that nobody will tell of (`VInv`). That a
  reading of the newest rows misses none that it reaches is counted (`NewestFill`).
- `WatchParty_proofs`, first part (`WatchHall`): `HallTypesHold`, `HandoverIsPending`, `GhostsComeOfRaces`,
  `WhoWatchesIsPresent`, `HostIsSaved`. A task awaits `setHost` exactly while there is a hand-over of its own
  (`Tasks`); without a runtime nobody is counted, and who is about to enter has one (`Rooms`). `Ghosts` and
  `Presents` say of each socket where it is on its way into the hall and out of it. `HandoverPending` is the
  sum of two halves that need each other: a host marked away has nobody waiting (`Away`, because who enters
  becomes the host), and one not marked away is waited for (`Absent`). `Hosts` says of every host that is in
  memory, in a save, in a load or in a hand-over that it is the row's; a resolve that goes on with an
  evicted runtime is none of these, and either hands over or ends the property's case (`overlap`).
- `WatchParty_proofs`, second part (`PresenceNotices`): `NoticeTypesHold`, `LastLineIsTrue`. As long as no
  calls overlapped and no row was refused, the person is in one of three phases (`NoticeInv`): unknown, with no
  line (`Stranger`); known, with no call in flight, and line, flag and timer agree (`Resting`); or with one call in
  flight, and what it is about to write is what the last line lacks (`Working`). A return in the middle of a
  departure's insertion is the case `wrote` of the last. A person who was evicted in silence is, for the
  lines, still where they were (`Placed`), until they come again. No object but the person's own has a timer
  (`OthersQuiet`), so that nothing is written on behalf of an object that the map has forgotten.

Only model-checked: what needs fairness, `ParkedCallRuns`, `HandoverHappens` and `DaysGetClosed`, since
liveness is beyond the prover. Every invariant and every action property of the runs, and the
refinement of `Wallet`, is stated by a theorem. Two induction arguments were needed (the first row of an
ordering, the newest rows of a table); they go through the well-foundedness of the numbers and the
cardinality of finite sets, which the library states without an operator as a parameter.

The proofs changed the models where TLC's bounds had been too small. `HandoverPending` was false beyond
one move as first stated: a socket left behind by a race kept a host waiting that nobody could replace;
it now speaks of `Watching`. `overlap` became narrower, and `rushed` says when it ends.

## 3. What was found

Three behaviours contradict what the code says of itself; the models have them, and no property
excludes them:

- `async-limiter.ts:13`: a call made between `waiting.shift()?.()` and the microtask of the
  resolved waiter passes `active >= limit` as well; both run. The class comment and the
  test "never runs more than `limit` tasks at once" say otherwise.
- `watch-party.service.ts:496`: when the host and the only other member leave together, each
  sees the other's row; both rows go, and the room stays without members although
  the comment of `leaveRoom` says it is deleted.
- `page.tsx:1197`: the list of messages is emptied whenever `user` is a new object, which it is after
  every refresh of the token. A text that waits for its echo, or has failed, is then shown nowhere,
  though neither sent nor dismissed, and there is no button left to send it again; `chatOutgoing.ts:5`
  says that a text without an echo is not removed but marked as not sent, with a button to repeat it.

The races that were met are written into the properties as the named exceptions
under which the code's promise does not hold. Each exception is reachable:

| Exception | Where | What happens |
|---|---|---|
| `raced` in `OwnEditSeen` | `jwt.strategy.ts:60` | a row read before an edit is stored after its invalidation; `auth-user-cache.ts:8` promises there are no stale data after one's own edit |
| `raced` in `StaleOnlyByRace` | `room-access.cache.ts:62` | `invalidate` does not reach the query in flight; a leaver stays allowed for ten minutes. In the same way an event of a new member may join an older query and be refused once (line 46) |
| `rushed` in `GhostOnlyByRace` | `watch-party.service.ts:592` | a socket that is gone by the time its `joinHall` has its answer is added and never removed; one whose `joinHall` fails after adding it (line 600) is counted although the client was told of an error |
| `stale` in `HandoverPending`, `PresentUnlessStale` | `watch-party.service.ts:1117` | `resolveHostAbsence` goes by the presence it read before its query; whoever enters meanwhile is passed over, or evicted with the runtime |
| `faults` in `HandoverHappens` | `watch-party.service.ts:1094` | a failed query leaves neither timer nor `hostAway`: control passes to nobody until the next arrival or departure |
| `overlap` in `HostSavedUnlessOverlap` | `watch-party.service.ts:1243` | `persist` of the old host lands after `setHost`'s update, or is called between that update and the moment the runtime has the new host; a second hand-over, or a load of the room, crosses the first in the same way; a runtime that was evicted while its `resolveHostAbsence` read the members is saved after the next one was loaded (line 1135) |
| `crossed` in `LastLineTrue` | `watch-presence-notices.ts:97`, `:223` | a departure while the previous line is being written shows a second one; a return then may leave "left" as the last line |
| `evicted` in `LastLineTrue` | `watch-party.service.ts:1136`, `:1182`, `:637` | who enters while `resolveHostAbsence` saves an empty hall is evicted with the runtime, and nobody tells the notices: the last line stays "joined" although the person has gone |
| `late` in `ViewsExplained` | `chat.gateway.ts:1010` | a handler that goes on after its socket has gone adds a view that nothing removes: the person gets no more pushes of this room until the server restarts; `room-view.registry.ts:3` says that the break of a socket takes its view away at once |
| `swapped` in `ViewsExplained` | `chat.gateway.ts:500` | before the user is known each handler runs its own query of the user's row; "hidden" may be handled before the "shown" it follows |
| `cut` in `ViewsExplained` | `push.controller.ts:77`, `chat.gateway.ts:1006` | a beacon that arrives late clears the view of a page that is back; and since it leaves `viewedRooms`, the next "shown" is ignored |
| `overdue` in `ShadeIsUnread` | `sw.js:476` | a push that arrives after the reading, or after the read-sync, is shown and stays |
| `missed` in `ShadeIsUnread` | `push.service.ts:655` | a read-sync whose query, request or push fails, or that its TTL drops, is not sent again |
| `lost` in `SavedUnlessLost` | `last-seen-writer.ts:53` | a failed update is not repeated; two updates of one user may commit in the other order |
| circle and castles in `PausedIsSafe` | `flock.manager.ts:370`, `flock.castles.ts:424` | a new round or match respawns who is in a pause and takes the pause's shield; `flock.manager.spec.ts:403` tests that a paused player cannot be eaten, on a normal arena |
| `recalled` in `LifeCountedOnce` | `flock.manager.ts:1609` | a dead session that is resumed is told of its death again, and counted again |
| `stale` in `ShowsTheRoom` | `chat.gateway.ts:669`, `chatReconcile.ts:36` | an edit or deletion overtakes a history that was read before it; a message newer than the whole history that was deleted while the page was away stays, as if it were live; an empty history drops a message that came just before it (line 31); a handler that fails between the row and the broadcast tells nobody |
| `wiped` in `TextKept` | `page.tsx:1197`, `authSession.ts:205` | a refresh of the token in the background empties the list of the open room, the bubbles of unsaved texts with it; the queue keeps them, but nothing shows it |
| `since` in `ShowsTheRoom` | `chat.gateway.ts:669` | who has missed more than a window has a hole above it until it is paged in |
| `paged` in `BubbleIsUnsent` | `page.tsx:3103` | an older page brings the message of a bubble, which stays beside it |
| `Skew` in `BubbleIsUnsent` | `chatReconcile.ts:36` | on a page whose clock is ahead a bubble counts as newer than the history that holds its text; the queue has let go of it, so it is "sending" for ever |

Met on the way, and allowed by the models: a session may be created for a player whose `x`
came while the join was awaited (until the AFK sweep); a sheep that died in a locked round of
the circle re-enters alive by leaving or from another tab, which line 1381 of the manager
only refuses on the same socket; a retry of a text that a moderator has deleted stores it
again; a logout whose refresh has rotated deletes only the old row; a deferred read-sync closes all
notifications of the room, of messages that came after the reading too.

## 4. Plan

Written so far, in this order: `AsyncLimiter` (small, for the conventions),
`RubyLedger` over `Wallet`, `RefreshSessions`, `AuthUserCache`, `RoomAccessCache`,
`WatchHall`, `PresenceNotices`, `DailyStreak`, `PresenceRegistry`, `FlockSessions`, `RoomMessages`,
`ChatPushes` over `AsyncLimiter`, `RoomViews` over `RoomAccessCache`. The order is that of the damage an
error does: money, access, the shared show, presence, the game, the messages and their pushes.

Next:

1. `ChatPushes`: a restart, a subscription that changes its owner, pushes of calls and the hall.
2. `SnakeDuel`, `Puzzle`, `GuessCharacter`: phases, turns, locks and departures.

Not modelled, and why:

- the arena engine, boss, bots and governor: a simulation with real-valued positions; its lives and
  shields are in `FlockSessions`;
- puzzle, guess the character, snake duel, game activity: discrete and within reach,
  left for later because an error in them costs less;
- Google login and the rate limiter: counters and one upsert;
- users, admin, verses, health, media, video search, address checks: single statements, pure
  functions, or requests to third parties;
- the rest of the frontend: layout and drawing.

## 5. Running

    tlc -workers 2 -config MCRubyLedger.cfg MCRubyLedger
    tlapm RubyLedger_proofs.tla

| Run | Distinct states | Time |
|---|---|---|
| `ruby_ledger` | 279 thousand | 10 s |
| `refresh_sessions` | 4.3 million | 1 min |
| `auth_user_cache` | 8.3 million | 1.5 min |
| `watch_hall` | 2.4 million | 1 min |
| `watch_hall_fair` | 755 thousand | 1 min |
| `presence_notices` | 1.1 million | 18 s |
| `daily_streak` | 487 thousand | 2.5 min |
| `presence_registry` | 1.3 million | 45 s |
| `flock_sessions` | 147 thousand | 40 s |
| `room_messages` | 1.7 million | 1 min |
| `chat_pushes` | 412 thousand | 2 min |
| `room_views` | 4.8 million | 1 min 45 s |

Interchangeable model values
are declared symmetric in the runs that check no liveness.
