------------------------- MODULE RubyLedger_proofs --------------------------
(***************************************************************************)
(* Theorems about the ruby economy, for all constants that meet the        *)
(* assumptions: RubyLedger first, then DailyStreak.                        *)
(*                                                                         *)
(* The argument for the ledger: a request that holds the lock has read the *)
(* current balance (LockInv), so every transaction that writes moves       *)
(* balance and journal by the same amount.                                 *)
(***************************************************************************)
EXTENDS RubyLedger, DailyStreak, FiniteSetTheorems, TLAPS

\* The assumptions in the form the leaves use.
LEMMA Amounts ==
    /\ Top1Reward \in Nat /\ CircleReward \in Nat /\ DailyLimit \in Nat
    /\ DailyWinLimit \in Nat /\ BotOnlyRewardLimit \in Nat
    /\ TeamReward \in Nat /\ BossKillReward \in Nat
    /\ EntryBonus \in Nat /\ CollectionReward \in Nat
    /\ \A amount \in StreakRewards \cup {BossKillReward} : amount \in Nat
    /\ \A delta \in Adjustments : delta \in Int
    /\ LastDay \in Nat /\ LastDay >= 1
BY AmountAssumption

LEMMA ItemFacts ==
    /\ \A i \in Items : Price[i] \in Nat /\ i \in Rows
    /\ \A s \in Sellable : s \in Items
    /\ \A s \in Collection : s \in Sellable
    /\ \A a \in Artifacts : a \in Items
    /\ \A m \in Matches : m \in Rows /\ m \notin Items
    /\ "entry" \in Rows /\ "collection" \in Rows
    /\ "entry" \notin Items \cup Matches
    /\ "collection" \notin Items \cup Matches
BY ItemsAssumption DEF Items, Rows

\* TypeOK in two parts: what a request decides on, and the rest of the record.
Shape == /\ entryBonusAt \in BOOLEAN
         /\ premiumAt \in BOOLEAN
         /\ owned \subseteq Items
         /\ teamDay \in [Matches -> 0..LastDay]
         /\ arenaSince \in [1..(LastDay + 1) -> Nat]
         /\ rows \in [Rows -> Nat]

Numbers == /\ rubies \in Nat
           /\ posted \in Int
           /\ balanceAfter \in Int
           /\ requests \in Nat

Control == /\ holder \in Reqs \cup {"nobody"}
           /\ req \in [Reqs -> Request]
           /\ clock \in Days

LEMMA TypeParts == TypeOK <=> Shape /\ Numbers /\ Control
BY DEF TypeOK, Shape, Numbers, Control

\* The lock is held by the one request that has read the balance, and that
\* reading is not stale.
LockInv == \A t \in Reqs :
               Locked(t) => holder = t /\ req[t].balance = rubies

\* now is never in the future, so the stamp of a row is a day after it.
NowInv == \A t \in Reqs : req[t].now <= clock

Core == TypeOK /\ LockInv /\ NowInv /\ JournalExplainsBalance

LEMMA RequestFields ==
    ASSUME Control, NEW t \in Reqs
    PROVE  /\ req[t] \in Request
           /\ req[t].now \in Days
           /\ req[t].balance \in Int
BY DEF Control, Request

LEMMA IdleIsRequest == Idle \in Request /\ Idle.pc = "idle" /\ Idle.now = 1
BY Amounts DEF Idle, Request, Days

\* What all writing transactions have in common.
Writes(t, delta) == /\ Locked(t)
                    /\ Commit(t)
                    /\ Apply(t, delta)
                    /\ req[t].balance + delta >= 0

\* The balance a writing transaction works with.
LEMMA LockedBalance ==
    ASSUME Core, NEW t \in Reqs, Locked(t)
    PROVE  req[t].balance \in Nat /\ req[t].balance = rubies
BY TypeParts DEF Core, LockInv, Numbers

\* The part of the arena reward that is paid.
LEMMA ArenaAmount ==
    ASSUME Core, NEW t \in Reqs, NEW reward \in Nat,
           Smaller(reward, DailyLimit - arenaSince[req[t].now]) > 0
    PROVE  /\ Smaller(reward, DailyLimit - arenaSince[req[t].now]) \in Nat
           /\ Smaller(reward, DailyLimit - arenaSince[req[t].now])
                 <= DailyLimit - arenaSince[req[t].now]
<1>1. req[t].now \in 1..(LastDay + 1)
  BY RequestFields, TypeParts, Amounts DEF Core, Days
<1>2. arenaSince[req[t].now] \in Nat
  BY <1>1, TypeParts DEF Core, Shape
<1> QED BY <1>2, Amounts DEF Smaller

\* Every award is a writing transaction.  No award looks at the balance: they
\* all add.
LEMMA AwardWrites ==
    ASSUME Core, NEW t \in Reqs, Award(t)
    PROVE  \E delta \in Int : Writes(t, delta)
<1> SUFFICES ASSUME NEW delta \in Nat, Locked(t), Commit(t), Apply(t, delta)
             PROVE  req[t].balance + delta >= 0
  <2>1. ASSUME NEW reward \in Nat, AwardArena(t, reward)
        PROVE  \E delta \in Nat : Locked(t) /\ Commit(t) /\ Apply(t, delta)
    BY <2>1, ArenaAmount DEF AwardArena
  <2>2. ASSUME NEW m \in Matches, AwardTeamWin(t, m)
        PROVE  \E delta \in Nat : Locked(t) /\ Commit(t) /\ Apply(t, delta)
    BY <2>2, Amounts DEF AwardTeamWin
  <2>3. ASSUME NEW amount \in StreakRewards \cup {BossKillReward},
               AwardFixed(t, amount)
        PROVE  \E delta \in Nat : Locked(t) /\ Commit(t) /\ Apply(t, delta)
    BY <2>3, Amounts DEF AwardFixed
  <2>4. ASSUME ClaimEntryBonus(t)
        PROVE  \E delta \in Nat : Locked(t) /\ Commit(t) /\ Apply(t, delta)
    BY <2>4, Amounts DEF ClaimEntryBonus
  <2>5. ASSUME ClaimCollection(t)
        PROVE  \E delta \in Nat : Locked(t) /\ Commit(t) /\ Apply(t, delta)
    BY <2>5, Amounts DEF ClaimCollection
  <2>6. \E delta \in Nat : Locked(t) /\ Commit(t) /\ Apply(t, delta)
    BY <2>1, <2>2, <2>3, <2>4, <2>5, Amounts DEF Award
  <2> QED BY <2>6 DEF Writes
<1> QED BY LockedBalance

LEMMA TradeWrites ==
    ASSUME Core, NEW t \in Reqs, Trade(t)
    PROVE  \E delta \in Int : Writes(t, delta)
<1>1. Locked(t) => req[t].balance \in Nat
  BY LockedBalance
<1>2. ASSUME NEW s \in Sellable, BuySkin(t, s)
      PROVE  \E delta \in Int : Writes(t, delta)
  <2>1. Writes(t, -Price[s]) /\ -Price[s] \in Int
    BY <1>1, <1>2, ItemFacts DEF BuySkin, Writes
  <2> QED BY <2>1
<1>3. ASSUME NEW s \in Sellable, BuyLastSkin(t, s)
      PROVE  \E delta \in Int : Writes(t, delta)
  <2>1. Price[s] \in Nat /\ Price[s] <= req[t].balance
    BY <1>3, ItemFacts DEF BuyLastSkin
  <2>2. req[t].balance + (CollectionReward - Price[s]) >= 0
    BY <1>1, <1>3, <2>1, Amounts DEF BuyLastSkin
  <2>3. CollectionReward - Price[s] \in Int
    BY <2>1, Amounts
  <2> QED BY <1>3, <2>2, <2>3 DEF BuyLastSkin, Writes
<1>4. ASSUME NEW a \in Artifacts, BuyArtifact(t, a)
      PROVE  \E delta \in Int : Writes(t, delta)
  <2>1. Writes(t, -Price[a]) /\ -Price[a] \in Int
    BY <1>1, <1>4, ItemFacts DEF BuyArtifact, Writes
  <2> QED BY <2>1
<1>5. ASSUME NEW i \in Items, AdminGrant(t, i)
      PROVE  \E delta \in Int : Writes(t, delta)
  <2>1. Writes(t, 0)
    BY <1>1, <1>5 DEF AdminGrant, Writes
  <2> QED BY <2>1
<1>6. ASSUME NEW delta \in Adjustments, AdminAdjust(t, delta)
      PROVE  \E d \in Int : Writes(t, d)
  BY <1>6, Amounts DEF AdminAdjust, Writes
<1> QED BY <1>2, <1>3, <1>4, <1>5, <1>6 DEF Trade

-----------------------------------------------------------------------------
(* The core invariant. *)

LEMMA StampsAreDays ==
    ASSUME Core, NEW t \in Reqs PROVE Stamps(t) \subseteq Days
<1>1. req[t].now \in Days /\ clock \in Days
  BY RequestFields, TypeParts DEF Core, Control
<1> QED BY <1>1, Amounts DEF Stamps, Days

LEMMA RowShape ==
    ASSUME rows \in [Rows -> Nat], NEW r \in Rows, Row(r)
    PROVE  rows' \in [Rows -> Nat]
BY DEF Row

LEMMA AwardShape ==
    ASSUME Core, NEW t \in Reqs, Award(t) PROVE Shape'
<1>0. Shape
  BY TypeParts DEF Core
<1>1. ASSUME NEW reward \in Nat, AwardArena(t, reward) PROVE Shape'
  <2> DEFINE amount == Smaller(reward, DailyLimit - arenaSince[req[t].now])
  <2>1. amount \in Nat
    BY <1>1, ArenaAmount DEF AwardArena
  <2>2. PICK at \in Days : PostArena(at, amount)
    BY <1>1, StampsAreDays DEF AwardArena
  <2> HIDE DEF amount
  <2>3. arenaSince' \in [1..(LastDay + 1) -> Nat]
    BY <1>0, <2>1, <2>2, Amounts DEF PostArena, Days, Shape
  <2> QED BY <1>0, <1>1, <2>3 DEF AwardArena, Shape
<1>2. ASSUME NEW m \in Matches, AwardTeamWin(t, m) PROVE Shape'
  <2>1. PICK at \in Days : teamDay' = [teamDay EXCEPT ![m] = at]
    BY <1>2, StampsAreDays DEF AwardTeamWin
  <2>2. teamDay' \in [Matches -> 0..LastDay]
    BY <1>0, <2>1, Amounts DEF Shape, Days
  <2>3. rows' \in [Rows -> Nat]
    BY <1>0, <1>2, RowShape, ItemFacts DEF AwardTeamWin, Shape
  <2> QED BY <1>0, <1>2, <2>2, <2>3 DEF AwardTeamWin, Shape
<1>3. ASSUME NEW amount \in StreakRewards \cup {BossKillReward},
             AwardFixed(t, amount)
      PROVE  Shape'
  BY <1>0, <1>3 DEF AwardFixed, Shape
<1>4. CASE ClaimEntryBonus(t)
  <2>1. rows' \in [Rows -> Nat]
    BY <1>0, <1>4, RowShape, ItemFacts DEF ClaimEntryBonus, Shape
  <2> QED BY <1>0, <1>4, <2>1 DEF ClaimEntryBonus, Shape
<1>5. CASE ClaimCollection(t)
  <2>1. rows' \in [Rows -> Nat]
    BY <1>0, <1>5, RowShape, ItemFacts DEF ClaimCollection, Shape
  <2> QED BY <1>0, <1>5, <2>1 DEF ClaimCollection, Shape
<1> QED BY <1>1, <1>2, <1>3, <1>4, <1>5, Amounts DEF Award

LEMMA TradeShape ==
    ASSUME Core, NEW t \in Reqs, Trade(t) PROVE Shape'
<1>0. Shape
  BY TypeParts DEF Core
<1>1. ASSUME NEW s \in Sellable, BuySkin(t, s) PROVE Shape'
  <2>1. rows' \in [Rows -> Nat]
    BY <1>0, <1>1, RowShape, ItemFacts DEF BuySkin, Shape
  <2> QED BY <1>0, <1>1, <2>1, ItemFacts DEF BuySkin, Shape
<1>2. ASSUME NEW s \in Sellable, BuyLastSkin(t, s) PROVE Shape'
  <2>1. rows' \in [Rows -> Nat]
    BY <1>0, <1>2, ItemFacts DEF BuyLastSkin, Shape
  <2> QED BY <1>0, <1>2, <2>1, ItemFacts DEF BuyLastSkin, Shape
<1>3. ASSUME NEW a \in Artifacts, BuyArtifact(t, a) PROVE Shape'
  <2>1. rows' \in [Rows -> Nat]
    BY <1>0, <1>3, RowShape, ItemFacts DEF BuyArtifact, Shape
  <2> QED BY <1>0, <1>3, <2>1, ItemFacts DEF BuyArtifact, Shape
<1>4. ASSUME NEW i \in Items, AdminGrant(t, i) PROVE Shape'
  <2>1. rows' \in [Rows -> Nat]
    BY <1>0, <1>4, RowShape, ItemFacts DEF AdminGrant, Shape
  <2> QED BY <1>0, <1>4, <2>1 DEF AdminGrant, Shape
<1>5. ASSUME NEW delta \in Adjustments, AdminAdjust(t, delta) PROVE Shape'
  BY <1>0, <1>5 DEF AdminAdjust, Shape
<1> QED BY <1>1, <1>2, <1>3, <1>4, <1>5 DEF Trade

\* A writing transaction keeps the lock discipline: it held the only lock, so
\* no other request keeps an older reading of the balance.
LEMMA WritesCore ==
    ASSUME Core, Shape', NEW t \in Reqs, NEW delta \in Int, Writes(t, delta)
    PROVE  Core'
<1>0. Numbers /\ Control
  BY TypeParts DEF Core
<1>1. /\ req[t].balance = rubies /\ rubies = posted /\ rubies = balanceAfter
      /\ rubies \in Nat /\ rubies + delta >= 0
  BY <1>0, LockedBalance DEF Core, Writes, JournalExplainsBalance, Numbers
<1>2. Numbers' /\ JournalExplainsBalance'
  BY <1>0, <1>1 DEF Writes, Apply, Commit, Numbers, JournalExplainsBalance
<1>3. Control'
  BY <1>0, IdleIsRequest DEF Writes, Commit, Control
<1>4. \A u \in Reqs : ~Locked(u)'
  BY <1>0, IdleIsRequest DEF Core, LockInv, Locked, Control, Writes, Commit
<1>5. LockInv'
  BY <1>4 DEF LockInv
<1>6. NowInv'
  BY <1>0, IdleIsRequest, Amounts
     DEF Core, NowInv, Control, Writes, Commit, Days
<1>7. TypeOK'
  BY <1>2, <1>3 DEF TypeOK, Shape, Numbers, Control
<1> QED BY <1>2, <1>5, <1>6, <1>7 DEF Core

LEMMA CoreInit == Init => Core
<1> SUFFICES ASSUME Init PROVE Core
  OBVIOUS
<1>1. Shape
  <2>1. /\ teamDay \in [Matches -> 0..LastDay]
        /\ arenaSince \in [1..(LastDay + 1) -> Nat]
    BY Amounts DEF Init
  <2> QED BY <2>1 DEF Init, Shape
<1>2. Control
  BY Amounts, IdleIsRequest DEF Init, Control, Days
<1>3. Numbers
  BY DEF Init, Numbers
<1>4. LockInv /\ NowInv /\ JournalExplainsBalance
  BY IdleIsRequest DEF Init, LockInv, Locked, NowInv, JournalExplainsBalance
<1> QED BY <1>1, <1>2, <1>3, <1>4, TypeParts DEF Core

\* The steps around the transaction write nothing.
LEMMA QuietCore ==
    ASSUME Core, UNCHANGED <<profile, journal>>, Control', requests' \in Nat,
           LockInv', NowInv'
    PROVE  Core'
<1>1. Shape' /\ Numbers' /\ JournalExplainsBalance'
  BY TypeParts DEF Core, profile, journal, Shape, Numbers,
                   JournalExplainsBalance
<1> QED BY <1>1 DEF Core, TypeOK, Shape, Numbers, Control

LEMMA CoreNext == Core /\ [Next]_vars => Core'
<1> SUFFICES ASSUME Core, [Next]_vars PROVE Core'
  OBVIOUS
<1>0. Control /\ requests \in Nat /\ LockInv /\ NowInv
  BY TypeParts DEF Core, Numbers
<1>1. ASSUME NEW t \in Reqs, Call(t) PROVE Core'
  <2> DEFINE r == [pc |-> "called", now |-> clock, balance |-> 0]
  <2>1. r \in Request /\ r.pc = "called" /\ r.now = clock
    BY <1>0 DEF Control, Request
  <2>2. req' = [req EXCEPT ![t] = r]
    BY <1>1 DEF Call
  <2> HIDE DEF r
  <2>3. Control' /\ NowInv'
    BY <1>0, <1>1, <2>1, <2>2 DEF Call, Control, NowInv, Days
  <2>4. LockInv'
    BY <1>0, <1>1, <2>1, <2>2 DEF Call, Control, LockInv, Locked, profile
  <2> QED BY <1>0, <1>1, <2>3, <2>4, QuietCore DEF Call
<1>2. ASSUME NEW t \in Reqs, Lock(t) PROVE Core'
  <2> DEFINE r == Reading(t)
  <2>1. /\ r \in Request /\ r.pc = "locked" /\ r.now = req[t].now
        /\ r.balance = rubies
    <3>1. req[t].now \in Days /\ rubies \in Int
      BY <1>0, RequestFields, TypeParts DEF Core, Numbers
    <3> QED BY <3>1 DEF Request, Reading
  <2>2. req' = [req EXCEPT ![t] = r]
    BY <1>2 DEF Lock
  <2> HIDE DEF r
  <2>3. Control' /\ NowInv'
    BY <1>0, <1>2, <2>1, <2>2 DEF Lock, Control, NowInv
  <2>4. LockInv'
    BY <1>0, <1>2, <2>1, <2>2, NoReqAssumption
       DEF Lock, Control, LockInv, Locked, profile
  <2> QED BY <1>0, <1>2, <2>3, <2>4, QuietCore DEF Lock
<1>3. ASSUME NEW t \in Reqs, GiveUp(t) PROVE Core'
  <2>1. Control'
    BY <1>0, <1>3, IdleIsRequest DEF GiveUp, Control
  <2>2. NowInv'
    BY <1>0, <1>3, IdleIsRequest, Amounts DEF GiveUp, Control, NowInv, Days
  <2>3. LockInv'
    BY <1>0, <1>3, IdleIsRequest DEF GiveUp, Control, LockInv, Locked, profile
  <2> QED BY <1>0, <1>3, <2>1, <2>2, <2>3, QuietCore DEF GiveUp
<1>4. ASSUME NEW t \in Reqs, Award(t) PROVE Core'
  BY <1>4, AwardShape, AwardWrites, WritesCore
<1>5. ASSUME NEW t \in Reqs, Trade(t) PROVE Core'
  BY <1>5, TradeShape, TradeWrites, WritesCore
<1>6. CASE NextDay
  <2>1. Control' /\ NowInv'
    <3>1. clock' \in Days /\ clock' >= clock /\ req' = req /\ holder' = holder
      BY <1>0, <1>6, Amounts DEF NextDay, Control, Days
    <3>2. \A t \in Reqs : req[t].now \in Nat /\ clock \in Nat /\ clock' \in Nat
      BY <1>0, <3>1, RequestFields, Amounts DEF Control, Days
    <3> QED BY <1>0, <3>1, <3>2 DEF Control, NowInv
  <2>2. LockInv'
    BY <1>0, <1>6 DEF NextDay, LockInv, Locked, profile
  <2> QED BY <1>0, <1>6, <2>1, <2>2, QuietCore DEF NextDay
<1>7. CASE UNCHANGED vars
  <2>1. Control' /\ NowInv' /\ LockInv'
    BY <1>0, <1>7 DEF vars, profile, Control, NowInv, LockInv, Locked
  <2> QED BY <1>0, <1>7, <2>1, QuietCore DEF vars
<1> QED BY <1>1, <1>2, <1>3, <1>4, <1>5, <1>6, <1>7 DEF Next

LEMMA CoreAlways == Spec => []Core
BY CoreInit, CoreNext, PTL DEF Spec

\* Types, and with them that a balance is never negative.
THEOREM TypeCorrect == Spec => []TypeOK
BY CoreAlways, PTL DEF Core

\* The balance is the sum of the journal, and the last row's balance, for any
\* number of concurrent requests.
THEOREM BalanceExplained == Spec => []JournalExplainsBalance
BY CoreAlways, PTL DEF Core

-----------------------------------------------------------------------------
(* The daily limit of the arena.  The query counts from the day of the     *)
(* call; the row may be stamped later.  Counting too much is safe because  *)
(* the sum since a day never grows when the day advances.                  *)

ArenaInv == /\ \A d, e \in 1..(LastDay + 1) :
                  d <= e => arenaSince[e] <= arenaSince[d]
            /\ ArenaDailyLimit

LEMMA ArenaStep ==
    ASSUME Core, ArenaInv, NEW t \in Reqs, NEW reward \in Nat,
           AwardArena(t, reward)
    PROVE  ArenaInv'
<1> DEFINE now == req[t].now
           amount == Smaller(reward, DailyLimit - arenaSince[now])
<1>1. amount \in Nat /\ amount <= DailyLimit - arenaSince[now]
  BY ArenaAmount DEF AwardArena
<1>2. PICK at \in Stamps(t) : PostArena(at, amount)
  BY DEF AwardArena
<1>3. now \in Days /\ at \in Days /\ now <= at
  BY RequestFields, StampsAreDays, TypeParts DEF Core, Stamps, Days
<1> HIDE DEF now, amount
<1>4. arenaSince \in [1..(LastDay + 1) -> Nat] /\ DailyLimit \in Nat
  BY TypeParts, Amounts DEF Core, Shape
<1>5. \A d \in 1..(LastDay + 1) :
         arenaSince'[d] = IF d <= at THEN arenaSince[d] + amount
                                     ELSE arenaSince[d]
  BY <1>2, <1>4 DEF PostArena
<1>6. \A d, e \in 1..(LastDay + 1) : d <= e => arenaSince'[e] <= arenaSince'[d]
  BY <1>1, <1>3, <1>4, <1>5, Amounts DEF ArenaInv, Days
<1>7. ASSUME NEW d \in Days PROVE arenaSince'[d] - arenaSince'[d + 1] <= DailyLimit
  <2>1. /\ d \in 1..(LastDay + 1) /\ d + 1 \in 1..(LastDay + 1)
        /\ arenaSince[d] \in Nat /\ arenaSince[d + 1] \in Nat
        /\ arenaSince[d] - arenaSince[d + 1] <= DailyLimit
    BY <1>4, Amounts DEF ArenaInv, ArenaDailyLimit, ArenaPaid, Days
  <2>2. CASE d = at
    <3>1. arenaSince[d] <= arenaSince[now] /\ arenaSince[now] \in Nat
      BY <1>3, <1>4, <2>1, <2>2, Amounts DEF ArenaInv, Days
    <3> QED BY <1>1, <1>4, <1>5, <2>1, <2>2, <3>1 DEF Days
  <2>3. CASE d # at
    BY <1>1, <1>3, <1>5, <2>1, <2>3 DEF Days
  <2> QED BY <2>2, <2>3
<1> QED BY <1>6, <1>7 DEF ArenaInv, ArenaDailyLimit, ArenaPaid

LEMMA ArenaUntouched ==
    ASSUME Core, NEW t \in Reqs,
           Call(t) \/ Lock(t) \/ GiveUp(t) \/ Trade(t) \/ Award(t),
           \A reward \in Nat : ~AwardArena(t, reward)
    PROVE  arenaSince' = arenaSince
BY Amounts DEF Call, Lock, GiveUp, journal, Trade, BuySkin, BuyLastSkin,
   BuyArtifact, AdminGrant, AdminAdjust, Award, AwardTeamWin, AwardFixed,
   ClaimEntryBonus, ClaimCollection

\* On every day, at most DailyLimit is paid for first places and circle
\* victories, for all rewards, limits, and requests that straddle midnight.
THEOREM ArenaLimited == Spec => []ArenaDailyLimit
<1>1. Init => ArenaInv
  BY Amounts DEF Init, ArenaInv, ArenaDailyLimit, ArenaPaid, Days
<1>2. Core /\ ArenaInv /\ [Next]_vars => ArenaInv'
  <2> SUFFICES ASSUME Core, ArenaInv, [Next]_vars PROVE ArenaInv'
    OBVIOUS
  <2>1. CASE arenaSince' = arenaSince
    BY <2>1 DEF ArenaInv, ArenaDailyLimit, ArenaPaid
  <2>2. CASE arenaSince' # arenaSince
    <3>1. PICK t \in Reqs :
             Call(t) \/ Lock(t) \/ GiveUp(t) \/ Trade(t) \/ Award(t)
      BY <2>2 DEF Next, NextDay, vars, journal
    <3>2. \E reward \in Nat : AwardArena(t, reward)
      BY <2>2, <3>1, ArenaUntouched
    <3> QED BY <3>2, ArenaStep
  <2> QED BY <2>1, <2>2
<1>3. ArenaInv => ArenaDailyLimit
  BY DEF ArenaInv
<1> QED BY <1>1, <1>2, <1>3, CoreAlways, PTL DEF Spec

-----------------------------------------------------------------------------
(* The daily limits of the Castles victories, by the same argument. *)

PaidOn(d, S) == {m \in S : teamDay[m] = d}

LEMMA TeamStep ==
    ASSUME Core, NEW t \in Reqs, NEW m \in Matches, AwardTeamWin(t, m),
           NEW S \in SUBSET Matches, NEW limit \in Nat,
           m \in S => PaidSince(req[t].now, S) < limit,
           \A d \in Days : TeamPaid(d, S) <= limit,
           NEW d \in Days
    PROVE  TeamPaid(d, S)' <= limit
<1> DEFINE now == req[t].now
           since == {n \in S : teamDay[n] >= now}
<1>1. PICK at \in Stamps(t) : teamDay' = [teamDay EXCEPT ![m] = at]
  BY DEF AwardTeamWin
<1>2. now \in Days /\ at \in Days /\ now <= at
  BY RequestFields, StampsAreDays, TypeParts DEF Core, Stamps, Days
<1>3. teamDay \in [Matches -> 0..LastDay] /\ teamDay[m] = 0
  BY TypeParts DEF Core, Shape, AwardTeamWin
<1> HIDE DEF now
<1>4. IsFiniteSet(S)
  BY MatchAssumption, FS_Subset
<1>5. IsFiniteSet(PaidOn(d, S)) /\ IsFiniteSet(since)
  BY <1>4, FS_Subset DEF PaidOn
<1>6. Cardinality(PaidOn(d, S)) <= limit
  BY DEF TeamPaid, PaidOn
<1>7. CASE d = at /\ m \in S
  <2>1. PaidOn(d, S)' = PaidOn(d, S) \cup {m} /\ m \notin PaidOn(d, S)
    BY <1>1, <1>2, <1>3, <1>7 DEF PaidOn, Days
  <2>2. PaidOn(d, S) \subseteq since
    BY <1>2, <1>3, <1>7, Amounts DEF PaidOn, Days
  <2>3. Cardinality(PaidOn(d, S)) <= Cardinality(since)
    BY <1>5, <2>2, FS_Subset
  <2>4. Cardinality(since) < limit
    BY <1>7 DEF PaidSince, now
  <2>5. Cardinality(PaidOn(d, S)') = Cardinality(PaidOn(d, S)) + 1
    BY <1>5, <2>1, FS_AddElement
  <2>6. Cardinality(PaidOn(d, S)) \in Nat /\ Cardinality(since) \in Nat
    BY <1>5, FS_CardinalityType
  <2> QED BY <2>3, <2>4, <2>5, <2>6 DEF TeamPaid, PaidOn
<1>8. CASE ~(d = at /\ m \in S)
  <2>1. PaidOn(d, S)' = PaidOn(d, S)
    BY <1>1, <1>2, <1>3, <1>8, Amounts DEF PaidOn, Days
  <2> QED BY <1>6, <2>1 DEF TeamPaid, PaidOn
<1> QED BY <1>7, <1>8

\* On every day at most DailyWinLimit victories, and at most
\* BotOnlyRewardLimit of those against bots, are paid.
THEOREM TeamLimited == Spec => []TeamDailyLimits
<1>1. Init => TeamDailyLimits
  <2> SUFFICES ASSUME Init, NEW d \in Days, NEW S \in SUBSET Matches
               PROVE  TeamPaid(d, S) = 0
    BY MatchAssumption, Amounts DEF TeamDailyLimits
  <2>1. PaidOn(d, S) = {}
    BY DEF Init, PaidOn, Days
  <2> QED BY <2>1, FS_EmptySet DEF TeamPaid, PaidOn
<1>2. Core /\ TeamDailyLimits /\ [Next]_vars => TeamDailyLimits'
  <2> SUFFICES ASSUME Core, TeamDailyLimits, [Next]_vars
               PROVE  TeamDailyLimits'
    OBVIOUS
  <2>1. CASE teamDay' = teamDay
    BY <2>1 DEF TeamDailyLimits, TeamPaid
  <2>2. ASSUME NEW t \in Reqs, NEW m \in Matches, AwardTeamWin(t, m)
        PROVE  TeamDailyLimits'
    <3>1. /\ PaidSince(req[t].now, Matches) < DailyWinLimit
          /\ m \in BotMatches =>
                PaidSince(req[t].now, BotMatches) < BotOnlyRewardLimit
      BY <2>2 DEF AwardTeamWin
    <3>2. \A d \in Days : TeamPaid(d, Matches)' <= DailyWinLimit
      BY <2>2, <3>1, TeamStep, Amounts DEF TeamDailyLimits
    <3>3. \A d \in Days : TeamPaid(d, BotMatches)' <= BotOnlyRewardLimit
      BY <2>2, <3>1, TeamStep, MatchAssumption, Amounts DEF TeamDailyLimits
    <3> QED BY <3>2, <3>3 DEF TeamDailyLimits
  <2>3. teamDay' = teamDay
           \/ \E t \in Reqs : \E m \in Matches : AwardTeamWin(t, m)
    BY DEF Next, Call, Lock, GiveUp, NextDay, vars, profile, Award, AwardArena,
           AwardFixed, ClaimEntryBonus, ClaimCollection, Trade, BuySkin,
           BuyLastSkin, BuyArtifact, AdminGrant, AdminAdjust
  <2> QED BY <2>1, <2>2, <2>3
<1> QED BY <1>1, <1>2, CoreAlways, PTL DEF Spec

\* Both limits of a day hold, for all rewards and any number of requests.
THEOREM DaysLimited == Spec => []DailyLimits
<1>1. ArenaDailyLimit /\ TeamDailyLimits => DailyLimits
  BY DEF DailyLimits
<1> QED BY <1>1, ArenaLimited, TeamLimited, PTL

-----------------------------------------------------------------------------
(* What happens once has one row. *)

LEMMA RowOfOther ==
    ASSUME rows \in [Rows -> Nat], NEW r \in Rows, Row(r)
    PROVE  /\ rows'[r] = rows[r] + 1
           /\ \A other \in Rows \ {r} : rows'[other] = rows[other]
BY DEF Row

LEMMA RowsAward ==
    ASSUME Core, OneRowEach, NEW t \in Reqs, Award(t) PROVE OneRowEach'
<1>0. rows \in [Rows -> Nat] /\ teamDay \in [Matches -> 0..LastDay]
  BY TypeParts DEF Core, Shape
<1>1. ASSUME NEW reward \in Nat, AwardArena(t, reward) PROVE OneRowEach'
  BY <1>1 DEF AwardArena, OneRowEach
<1>2. ASSUME NEW m \in Matches, AwardTeamWin(t, m) PROVE OneRowEach'
  <2>1. PICK at \in Days : teamDay' = [teamDay EXCEPT ![m] = at]
    BY <1>2, StampsAreDays DEF AwardTeamWin
  <2>2. /\ teamDay[m] = 0 /\ teamDay'[m] # 0
        /\ \A n \in Matches \ {m} : teamDay'[n] = teamDay[n]
    BY <1>0, <1>2, <2>1 DEF AwardTeamWin, Days
  <2>3. /\ rows'[m] = rows[m] + 1
        /\ \A other \in Rows \ {m} : rows'[other] = rows[other]
    BY <1>0, <1>2, ItemFacts, RowOfOther DEF AwardTeamWin
  <2> QED BY <1>2, <2>2, <2>3, ItemFacts DEF AwardTeamWin, OneRowEach
<1>3. ASSUME NEW amount \in StreakRewards \cup {BossKillReward},
             AwardFixed(t, amount)
      PROVE  OneRowEach'
  BY <1>3 DEF AwardFixed, OneRowEach
<1>4. CASE ClaimEntryBonus(t)
  BY <1>0, <1>4, ItemFacts, RowOfOther DEF ClaimEntryBonus, OneRowEach
<1>5. CASE ClaimCollection(t)
  BY <1>0, <1>5, ItemFacts, RowOfOther
     DEF ClaimCollection, CollectionDue, OneRowEach
<1> QED BY <1>1, <1>2, <1>3, <1>4, <1>5, Amounts DEF Award

LEMMA RowsTrade ==
    ASSUME Core, OneRowEach, NEW t \in Reqs, Trade(t) PROVE OneRowEach'
<1>0. rows \in [Rows -> Nat] /\ owned \subseteq Items
  BY TypeParts DEF Core, Shape
\* The three ways to acquire one thing differ only in what is paid.
<1>1. ASSUME NEW i \in Items \ owned, Row(i), owned' = owned \cup {i},
             UNCHANGED <<entryBonusAt, premiumAt, teamDay>>
      PROVE  OneRowEach'
  <2>1. /\ rows'[i] = rows[i] + 1
        /\ \A other \in Rows \ {i} : rows'[other] = rows[other]
    BY <1>0, <1>1, ItemFacts, RowOfOther
  <2> QED BY <1>1, <2>1, ItemFacts DEF OneRowEach
<1>2. ASSUME NEW s \in Sellable, BuySkin(t, s) PROVE OneRowEach'
  BY <1>1, <1>2, ItemFacts DEF BuySkin
<1>3. ASSUME NEW s \in Sellable, BuyLastSkin(t, s) PROVE OneRowEach'
  <2>1. s \in Items /\ s \in Rows /\ s \notin owned /\ s # "collection"
    BY <1>3, ItemFacts DEF BuyLastSkin
  <2>2. /\ rows'[s] = rows[s] + 1
        /\ rows'["collection"] = rows["collection"] + 1
        /\ \A other \in Rows \ {s, "collection"} : rows'[other] = rows[other]
    BY <1>0, <1>3, <2>1, ItemFacts DEF BuyLastSkin
  <2>3. ASSUME NEW i \in Items PROVE rows'[i] = IF i \in owned' THEN 1 ELSE 0
    <3>1. owned' = owned \cup {s}
      BY <1>3 DEF BuyLastSkin
    <3>2. rows[i] = IF i \in owned THEN 1 ELSE 0
      BY DEF OneRowEach
    <3>3. i \in Rows /\ i # "collection"
      BY ItemFacts
    <3>4. i # s => rows'[i] = rows[i]
      BY <2>2, <3>3
    <3> QED BY <2>1, <2>2, <3>1, <3>2, <3>4
  <2>4. \A m \in Matches : m \in Rows \ {s, "collection"}
    BY <2>1, ItemFacts
  <2>5. \A m \in Matches : rows'[m] = IF teamDay'[m] # 0 THEN 1 ELSE 0
    BY <1>3, <2>2, <2>4 DEF BuyLastSkin, OneRowEach
  <2>6. rows'["entry"] = IF entryBonusAt' THEN 1 ELSE 0
    BY <1>3, <2>1, <2>2, ItemFacts DEF BuyLastSkin, OneRowEach
  <2>7. rows'["collection"] = IF premiumAt' THEN 1 ELSE 0
    BY <1>3, <2>2 DEF BuyLastSkin, CollectionDue, OneRowEach
  <2> QED BY <2>3, <2>5, <2>6, <2>7 DEF OneRowEach
<1>4. ASSUME NEW a \in Artifacts, BuyArtifact(t, a) PROVE OneRowEach'
  BY <1>1, <1>4, ItemFacts DEF BuyArtifact
<1>5. ASSUME NEW i \in Items, AdminGrant(t, i) PROVE OneRowEach'
  BY <1>1, <1>5 DEF AdminGrant
<1>6. ASSUME NEW delta \in Adjustments, AdminAdjust(t, delta) PROVE OneRowEach'
  BY <1>6 DEF AdminAdjust, OneRowEach
<1> QED BY <1>2, <1>3, <1>4, <1>5, <1>6 DEF Trade

\* Each bonus, collection reward, match and item is journalled exactly once,
\* when the profile records it, for any number of concurrent repetitions.
THEOREM PaidOnce == Spec => []OneRowEach
<1>1. Init => OneRowEach
  BY ItemFacts DEF Init, OneRowEach
<1>2. Core /\ OneRowEach /\ [Next]_vars => OneRowEach'
  <2> SUFFICES ASSUME Core, OneRowEach, [Next]_vars PROVE OneRowEach'
    OBVIOUS
  <2>1. CASE UNCHANGED <<profile, journal>>
    BY <2>1 DEF profile, journal, OneRowEach
  <2>2. CASE \E t \in Reqs : Award(t) \/ Trade(t)
    BY <2>2, RowsAward, RowsTrade
  <2> QED BY <2>1, <2>2 DEF Next, Call, Lock, GiveUp, NextDay, vars
<1> QED BY <1>1, <1>2, CoreAlways, PTL DEF Spec

-----------------------------------------------------------------------------
(* The ledger implements the wallet. *)

LEMMA OnceFacts == /\ DOMAIN OnceRewards = {"entry", "collection"}
                   /\ OnceRewards["entry"] = EntryBonus
                   /\ OnceRewards["collection"] = CollectionReward
BY DEF OnceRewards

\* A writing transaction moves the wallet's balance by delta.
LEMMA WalletBalance ==
    ASSUME Core, NEW t \in Reqs, NEW delta \in Int, Locked(t), Apply(t, delta)
    PROVE  rubies' = rubies + delta /\ rubies \in Nat /\ rubies' \in Int
BY LockedBalance DEF Apply

LEMMA WalletAdds ==
    ASSUME Core, NEW t \in Reqs, NEW delta \in Int, Locked(t), Apply(t, delta),
           rubies' \in Nat, UNCHANGED <<owned, entryBonusAt, premiumAt>>
    PROVE  [W!WalletNext]_(W!walletVars)
<1>1. rubies' = rubies + delta /\ rubies \in Nat
  BY WalletBalance
<1>2. Claimed' = Claimed
  BY DEF Claimed
<1>3. CASE delta = 0
  BY <1>1, <1>2, <1>3 DEF W!walletVars
<1>4. CASE delta > 0
  BY <1>1, <1>2, <1>4 DEF W!WalletNext, W!Earn
<1>5. CASE delta < 0
  BY <1>1, <1>2, <1>5 DEF W!WalletNext, W!Correct
<1> QED BY <1>3, <1>4, <1>5

LEMMA WalletAward ==
    ASSUME Core, NEW t \in Reqs, Award(t), Core'
    PROVE  [W!WalletNext]_(W!walletVars)
<1>0. rubies' \in Nat
  BY TypeParts DEF Core, TypeOK
<1>1. ASSUME NEW reward \in Nat, AwardArena(t, reward)
      PROVE  [W!WalletNext]_(W!walletVars)
  <2> DEFINE amount == Smaller(reward, DailyLimit - arenaSince[req[t].now])
  <2>1. amount \in Int /\ Apply(t, amount)
    BY <1>1, ArenaAmount DEF AwardArena
  <2> QED BY <1>0, <1>1, <2>1, WalletAdds DEF AwardArena
<1>2. ASSUME NEW m \in Matches, AwardTeamWin(t, m)
      PROVE  [W!WalletNext]_(W!walletVars)
  BY <1>0, <1>2, Amounts, WalletAdds DEF AwardTeamWin
<1>3. ASSUME NEW amount \in StreakRewards \cup {BossKillReward},
             AwardFixed(t, amount)
      PROVE  [W!WalletNext]_(W!walletVars)
  BY <1>0, <1>3, Amounts, WalletAdds DEF AwardFixed
<1>4. CASE ClaimEntryBonus(t)
  <2>1. rubies' = rubies + EntryBonus
    BY <1>4, Amounts, WalletBalance DEF ClaimEntryBonus
  <2>2. "entry" \notin Claimed /\ Claimed' = Claimed \cup {"entry"}
    BY <1>4 DEF ClaimEntryBonus, Claimed
  <2>3. W!Claim("entry")
    BY <1>4, <2>1, <2>2, OnceFacts DEF ClaimEntryBonus, W!Claim
  <2> QED BY <2>3, OnceFacts DEF W!WalletNext
<1>5. CASE ClaimCollection(t)
  <2>1. rubies' = rubies + CollectionReward
    BY <1>5, Amounts, WalletBalance DEF ClaimCollection
  <2>2. "collection" \notin Claimed /\ Claimed' = Claimed \cup {"collection"}
    BY <1>5 DEF ClaimCollection, CollectionDue, Claimed
  <2>3. W!Claim("collection")
    BY <1>5, <2>1, <2>2, OnceFacts DEF ClaimCollection, W!Claim
  <2> QED BY <2>3, OnceFacts DEF W!WalletNext
<1> QED BY <1>1, <1>2, <1>3, <1>4, <1>5, Amounts DEF Award

LEMMA WalletTrade ==
    ASSUME Core, NEW t \in Reqs, Trade(t), Core'
    PROVE  [W!WalletNext]_(W!walletVars)
<1>0. rubies' \in Nat
  BY TypeParts DEF Core, TypeOK
\* Buying i for its price, with nothing claimed.
<1>1. ASSUME NEW i \in Items \ owned, Locked(t), req[t].balance >= Price[i],
             Apply(t, -Price[i]), owned' = owned \cup {i},
             UNCHANGED <<entryBonusAt, premiumAt>>
      PROVE  [W!WalletNext]_(W!walletVars)
  <2>1. rubies' = rubies - Price[i] /\ Price[i] <= rubies
    BY <1>1, ItemFacts, LockedBalance DEF Apply
  <2>2. Claimed' = Claimed
    BY <1>1 DEF Claimed
  <2>3. W!Buy(i)
    BY <1>1, <2>1, <2>2 DEF W!Buy
  <2> QED BY <2>3 DEF W!WalletNext
<1>2. ASSUME NEW s \in Sellable, BuySkin(t, s)
      PROVE  [W!WalletNext]_(W!walletVars)
  BY <1>1, <1>2, ItemFacts DEF BuySkin
<1>3. ASSUME NEW s \in Sellable, BuyLastSkin(t, s)
      PROVE  [W!WalletNext]_(W!walletVars)
  <2>1. Price[s] \in Nat /\ s \in Items
    BY ItemFacts
  <2>2. rubies' = rubies - Price[s] + CollectionReward /\ Price[s] <= rubies
    BY <1>3, <2>1, Amounts, LockedBalance DEF BuyLastSkin, Apply
  <2>3. "collection" \notin Claimed /\ Claimed' = Claimed \cup {"collection"}
    BY <1>3 DEF BuyLastSkin, CollectionDue, Claimed
  <2>4. W!BuyAndClaim(s, "collection")
    BY <1>3, <2>2, <2>3, OnceFacts DEF BuyLastSkin, W!BuyAndClaim
  <2> QED BY <2>1, <2>4, OnceFacts DEF W!WalletNext
<1>4. ASSUME NEW a \in Artifacts, BuyArtifact(t, a)
      PROVE  [W!WalletNext]_(W!walletVars)
  BY <1>1, <1>4, ItemFacts DEF BuyArtifact
<1>5. ASSUME NEW i \in Items, AdminGrant(t, i)
      PROVE  [W!WalletNext]_(W!walletVars)
  <2>1. rubies' = rubies
    BY <1>5, LockedBalance DEF AdminGrant, Apply
  <2>2. Claimed' = Claimed
    BY <1>5 DEF AdminGrant, Claimed
  <2>3. W!Give(i)
    BY <1>5, <2>1, <2>2 DEF AdminGrant, W!Give
  <2> QED BY <2>3 DEF W!WalletNext
<1>6. ASSUME NEW delta \in Adjustments, AdminAdjust(t, delta)
      PROVE  [W!WalletNext]_(W!walletVars)
  BY <1>0, <1>6, Amounts, WalletAdds DEF AdminAdjust
<1> QED BY <1>2, <1>3, <1>4, <1>5, <1>6 DEF Trade

\* Transactions that lock, read and write in several steps look, from the
\* outside, like the wallet's indivisible steps.
THEOREM LedgerImplementsWallet == Spec => ImplementsWallet
<1>1. Init => W!WalletInit
  BY DEF Init, W!WalletInit, Claimed
<1>2. Core /\ Core' /\ [Next]_vars => [W!WalletNext]_(W!walletVars)
  <2> SUFFICES ASSUME Core, Core', [Next]_vars
               PROVE  [W!WalletNext]_(W!walletVars)
    OBVIOUS
  <2>1. CASE UNCHANGED profile
    BY <2>1 DEF profile, W!walletVars, Claimed
  <2>2. CASE \E t \in Reqs : Award(t) \/ Trade(t)
    BY <2>2, WalletAward, WalletTrade
  <2> QED BY <2>1, <2>2 DEF Next, Call, Lock, GiveUp, NextDay, vars
<1> QED BY <1>1, <1>2, CoreAlways, PTL DEF Spec, ImplementsWallet, W!WalletSpec

-----------------------------------------------------------------------------
(***************************************************************************)
(* The records of the day and the streaks (DailyStreak), for every number  *)
(* of players, servers, days and faults.  The days up to some c are closed *)
(* and no other; a sweep that is under way stands on one of them or on the *)
(* next (DaysInv).  A player's row holds the place of the last closed day  *)
(* in his run, and the journal holds for each day what it earned           *)
(* (RowsInv); what was noted as written has its row or its insert          *)
(* (WriteInv).                                                             *)
(***************************************************************************)

\* Remainders are unique.
LEMMA OneRemainder ==
    ASSUME NEW n \in Nat \ {0}, NEW q \in Int, NEW p \in Int,
           NEW a \in 0..(n - 1), NEW b \in 0..(n - 1), n * q + a = n * p + b
    PROVE  a = b
<1>1. ASSUME NEW x \in Int, NEW y \in Int, x < y PROVE n * x + n <= n * y
  <2>1. y - x - 1 \in Nat /\ n * (y - x - 1) >= 0
    BY <1>1
  <2>2. n * (y - x - 1) = n * y - n * x - n
    OBVIOUS
  <2>3. n * x \in Int /\ n * y \in Int
    OBVIOUS
  <2> QED BY <2>1, <2>2, <2>3
<1>2. n * q \in Int /\ n * p \in Int
  OBVIOUS
<1>3. q = p
  <2>1. CASE q < p
    BY <1>1, <1>2, <2>1
  <2>2. CASE p < q
    BY <1>1, <1>2, <2>2
  <2> QED BY <2>1, <2>2
<1> QED BY <1>2, <1>3

\* The remainder of the next number, from the remainder.
LEMMA ModNext ==
    ASSUME NEW r \in Nat, NEW n \in Nat \ {0}
    PROVE  r % n \in 0..(n - 1) /\ ((r % n) + 1) % n = (r + 1) % n
<1> DEFINE m == r % n
           q == r \div n
<1>1. m \in 0..(n - 1) /\ q \in Int /\ r = n * q + m
  OBVIOUS
<1> HIDE DEF m, q
<1> DEFINE a == (m + 1) % n
           p == (m + 1) \div n
           b == (r + 1) % n
           t == (r + 1) \div n
<1>2. a \in 0..(n - 1) /\ p \in Int /\ m + 1 = n * p + a
  BY <1>1
<1>3. b \in 0..(n - 1) /\ t \in Int /\ r + 1 = n * t + b
  OBVIOUS
<1> HIDE DEF a, p, b, t
<1>4. n * (q + p) + a = n * t + b
  <2>1. n * (q + p) = n * q + n * p
    BY <1>1, <1>2
  <2>2. n * q \in Int /\ n * p \in Int /\ n * t \in Int
    BY <1>1, <1>2, <1>3
  <2> QED BY <1>1, <1>2, <1>3, <2>1, <2>2
<1>5. a = b
  <2>1. q + p \in Int
    BY <1>1, <1>2
  <2> QED BY <1>2, <1>3, <1>4, <2>1, OneRemainder
<1> QED BY <1>1, <1>5 DEF m, a, b

\* RunAt, when the days up to d are closed and w names their winners.
Run(w, u, d) == Cardinality({k \in 1..d : \A e \in k..d : w[e] = u})

LEMMA RunClosed ==
    ASSUME NEW c \in Nat, closed = 1..c, NEW d \in 0..c, NEW u
    PROVE  RunAt(u, d) = Run(winner, u, d)
<1>1. {k \in 1..d : \A e \in k..d : e \in closed /\ winner[e] = u}
         = {k \in 1..d : \A e \in k..d : winner[e] = u}
  OBVIOUS
<1> QED BY <1>1 DEF RunAt, Run

LEMMA RunSame ==
    ASSUME NEW v, NEW w, NEW u, NEW d \in Nat, \A e \in 1..d : v[e] = w[e]
    PROVE  Run(v, u, d) = Run(w, u, d)
<1>1. \A k \in 1..d : k..d \subseteq 1..d
  OBVIOUS
<1>2. {k \in 1..d : \A e \in k..d : v[e] = u} = {k \in 1..d : \A e \in k..d : w[e] = u}
  BY <1>1
<1> QED BY <1>2 DEF Run

LEMMA RunNext ==
    ASSUME NEW w, NEW u, NEW d \in Nat
    PROVE  /\ Run(w, u, d) \in Nat /\ Run(w, u, 0) = 0
           /\ Run(w, u, d + 1) = IF w[d + 1] = u THEN Run(w, u, d) + 1 ELSE 0
<1> DEFINE S == {k \in 1..d : \A e \in k..d : w[e] = u}
           T == {k \in 1..(d + 1) : \A e \in k..(d + 1) : w[e] = u}
<1>1. S \subseteq 1..d /\ IsFiniteSet(1..d)
  BY FS_Interval
<1>2. IsFiniteSet(S) /\ Cardinality(S) \in Nat
  BY <1>1, FS_Subset, FS_CardinalityType
<1>3. Run(w, u, d) = Cardinality(S) /\ Run(w, u, d + 1) = Cardinality(T)
  BY DEF Run
<1>4. Run(w, u, 0) = 0
  <2>1. {k \in 1..0 : \A e \in k..0 : w[e] = u} = {}
    OBVIOUS
  <2> QED BY <2>1, FS_EmptySet DEF Run
<1>5. CASE w[d + 1] = u
  <2>1. \A k \in 1..d : k..(d + 1) = (k..d) \cup {d + 1}
    OBVIOUS
  <2>2. T = S \cup {d + 1} /\ d + 1 \notin S
    <3>1. ASSUME NEW k \in S PROVE k \in T
      BY <1>5, <2>1
    <3>2. d + 1 \in T
      <4>1. \A e \in (d + 1)..(d + 1) : e = d + 1
        OBVIOUS
      <4> QED BY <1>5, <4>1
    <3>3. ASSUME NEW k \in T, k # d + 1 PROVE k \in S
      BY <2>1, <3>3
    <3> QED BY <1>1, <3>1, <3>2, <3>3
  <2> HIDE DEF S, T
  <2>3. Cardinality(T) = Cardinality(S) + 1
    BY <1>2, <2>2, FS_AddElement
  <2> QED BY <1>2, <1>3, <1>4, <1>5, <2>3
<1>6. CASE w[d + 1] # u
  <2>1. T = {}
    <3> SUFFICES ASSUME NEW k \in T PROVE FALSE
      OBVIOUS
    <3>1. d + 1 \in k..(d + 1)
      OBVIOUS
    <3> QED BY <1>6, <3>1
  <2> QED BY <1>2, <1>3, <1>4, <1>6, <2>1, FS_EmptySet
<1> QED BY <1>5, <1>6

-----------------------------------------------------------------------------
(* The days. *)

Sweeps == [day : Int, until : Int, left : Int]

\* A sweep that is under way, when the days up to c are closed and
\* t is today.
Swept(w, c, t) ==
    /\ w.day \in 2..(c + 1) /\ w.left \in 0..MaxCatchUp
    /\ w.until \in 1..(t - 1) /\ w.until <= w.day + w.left + KeepDays - 1

DaysInv(c) ==
    /\ c \in AllDays /\ closed = 1..c /\ winner \in [AllDays -> Users \cup {Nobody}]
    /\ today \in AllDays /\ c < today /\ today <= c + MaxCatchUp + KeepDays + 1
    /\ sweep \in [Servers -> Sweeps]
    /\ \A s \in Servers : sweep[s] = NoSweep \/ Swept(sweep[s], c, today)

LEMMA MaxTo == ASSUME NEW c \in Nat \ {0} PROVE Max(1..c) = c
<1>1. c \in 1..c /\ \A y \in 1..c : c >= y
  OBVIOUS
<1>2. \A x \in 1..c : (\A y \in 1..c : x >= y) => x = c
  OBVIOUS
<1> QED BY <1>1, <1>2 DEF Max

LEMMA StreakConstants ==
    /\ Cycle \in Nat \ {0} /\ \A n \in 1..Cycle : Rewards[n] \in Nat \ {0}
    /\ KeepDays \in Nat \ {0} /\ MaxCatchUp \in Nat /\ EndDay \in Nat \ {0, 1}
    /\ MaxMass \in Nat /\ MinMass \in 1..MaxMass /\ Nobody \notin Users
BY StreakAssumption DEF Cycle

LEMMA TopOne == ASSUME NEW d PROVE TopOf(d) \in Users \cup {Nobody}
BY DEF TopOf, Tops

\* What closing a day does, when it is the first that is open.
Closes(d) ==
    /\ \/ TopOf(d) = Nobody /\ UNCHANGED <<won, granted>>
       \/ TopOf(d) \in Users /\ Grant(TopOf(d), d)
    /\ closed' = closed \cup {d} /\ winner' = [winner EXCEPT ![d] = TopOf(d)]
    /\ streak' = Streaks(d)
    /\ UNCHANGED <<today, rec, shown, written, pend>>

LEMMA CloseDayDays ==
    ASSUME NEW c, DaysInv(c), NEW s \in Servers, CloseDay(s)
    PROVE  \/ DaysInv(c)' /\ UNCHANGED <<results, streak>>
           \/ DaysInv(c + 1)' /\ Closes(c + 1) /\ c + 1 \in AllDays
<1> DEFINE w == sweep[s]
           d == w.day
           v == [day |-> d + 1, until |-> w.until, left |-> w.left - 1]
<1>1. /\ w \in Sweeps /\ sweep' = [sweep EXCEPT ![s] = v] /\ today' = today
      /\ w # NoSweep /\ w.left > 0 /\ d <= w.until
  BY DEF CloseDay, More, DaysInv
<1>2. Swept(w, c, today)
  BY <1>1 DEF DaysInv
<1>3. v \in Sweeps /\ v.day = d + 1 /\ v.left = w.left - 1 /\ v.until = w.until
  BY <1>1 DEF Sweeps
<1> HIDE DEF v
<1>4. \A q \in Servers : sweep'[q] = IF q = s THEN v ELSE sweep[q]
  BY <1>1 DEF DaysInv
<1>5. sweep' \in [Servers -> Sweeps]
  BY <1>1, <1>3 DEF DaysInv
<1>6. c \in Nat /\ d \in 2..(c + 1) /\ d < today /\ today \in Nat
  BY <1>1, <1>2, StreakConstants DEF Swept, DaysInv, AllDays, Sweeps
<1>7. CASE d <= c
  <2>1. d \in closed
    BY <1>6, <1>7 DEF DaysInv
  <2>2. UNCHANGED <<won, granted, streak>> /\ closed' = closed
    BY <2>1 DEF CloseDay, Pays
  <2>3. winner' = winner
    <3>1. winner' = [winner EXCEPT ![d] = winner[d]]
      BY <2>1 DEF CloseDay
    <3> QED BY <3>1 DEF DaysInv
  <2>4. Swept(v, c, today')
    BY <1>1, <1>2, <1>3, <1>6, <1>7, StreakConstants DEF Swept
  <2>5. \A q \in Servers : sweep'[q] = NoSweep \/ Swept(sweep'[q], c, today')
    BY <1>1, <1>4, <2>4 DEF DaysInv, Swept
  <2> QED BY <1>1, <1>5, <2>2, <2>3, <2>5 DEF DaysInv, results
<1>8. CASE d = c + 1
  <2>0. d \notin 1..c /\ d \in 1..EndDay /\ (1..c) \cup {d} = 1..(c + 1)
    BY <1>6, <1>8, StreakConstants DEF DaysInv, AllDays
  <2>1. d \notin closed /\ d \in AllDays /\ closed' = 1..(c + 1)
    BY <2>0 DEF DaysInv, CloseDay, AllDays
  <2>2. Closes(d)
    BY <2>1, TopOne, StreakConstants DEF CloseDay, Pays, Closes
  <2>3. winner' \in [AllDays -> Users \cup {Nobody}]
    BY <2>1, <2>2, TopOne DEF Closes, DaysInv
  <2>4. Swept(v, c + 1, today')
    BY <1>1, <1>2, <1>3, <1>6, <1>8, StreakConstants DEF Swept
  <2>5. ASSUME NEW q \in Servers, q # s, sweep[q] # NoSweep PROVE Swept(sweep'[q], c + 1, today')
    <3>1. Swept(sweep[q], c, today)
      BY <2>5 DEF DaysInv
    <3> QED BY <1>1, <1>4, <1>6, <2>5, <3>1 DEF Swept
  <2>6. \A q \in Servers : sweep'[q] = NoSweep \/ Swept(sweep'[q], c + 1, today')
    BY <1>4, <2>4, <2>5
  <2>7. today' \in AllDays /\ c + 1 < today' /\ today' <= (c + 1) + MaxCatchUp + KeepDays + 1
    BY <1>1, <1>6, <1>8, StreakConstants DEF DaysInv
  <2> QED BY <1>5, <1>8, <2>1, <2>2, <2>3, <2>6, <2>7 DEF DaysInv
<1> QED BY <1>6, <1>7, <1>8

LEMMA SweepDays ==
    ASSUME NEW c, DaysInv(c), NEW s \in Servers,
           Sweep(s) \/ SweepFails(s) \/ SweepEnd(s)
    PROVE  DaysInv(c)'
<1>1. UNCHANGED <<today, winner, closed>> /\ sweep \in [Servers -> Sweeps]
  BY DEF Sweep, SweepFails, SweepEnd, results, DaysInv
<1>2. CASE sweep' = [sweep EXCEPT ![s] = NoSweep]
  <2>1. NoSweep \in Sweeps
    BY DEF NoSweep, Sweeps
  <2> QED BY <1>1, <1>2, <2>1 DEF DaysInv, Swept
<1>3. CASE Sweep(s)
  <2> DEFINE v == [day |-> Max(closed) + 1, until |-> today - 1, left |-> MaxCatchUp]
  <2>1. Max(closed) = c /\ c \in Nat \ {0} /\ today \in Nat
    BY MaxTo, StreakConstants DEF DaysInv, AllDays
  <2>2. v \in Sweeps /\ v.day = c + 1 /\ v.until = today - 1 /\ v.left = MaxCatchUp
    BY <2>1, StreakConstants DEF Sweeps
  <2>3. sweep' = [sweep EXCEPT ![s] = v]
    BY <1>3 DEF Sweep
  <2> HIDE DEF v
  <2>4. Swept(v, c, today')
    BY <1>1, <2>1, <2>2, StreakConstants DEF Swept, DaysInv
  <2>5. sweep' \in [Servers -> Sweeps] /\ \A q \in Servers : sweep'[q] = IF q = s THEN v ELSE sweep[q]
    BY <1>1, <2>2, <2>3
  <2> QED BY <1>1, <2>4, <2>5 DEF DaysInv, Swept
<1> QED BY <1>2, <1>3 DEF SweepFails, SweepEnd

-----------------------------------------------------------------------------
(* The streaks and what is paid for them. *)

StreakRows == [days : Int, last : Int, pending : Nat, row : BOOLEAN]

\* What the day d pays its winner u, when the days up to it are closed.
Earned(w, u, d) == Rewards[((Run(w, u, d) - 1) % Cycle) + 1]

RowInv(c, u) ==
    /\ streak[u].days = Run(winner, u, c) % Cycle
    /\ streak[u].row /\ winner[c] = u => streak[u].last = c
    /\ ~streak[u].row => streak[u].days = 0
    /\ won[u] = shown[u] + streak[u].pending
    /\ \A d \in AllDays : granted[u][d] = IF d \in 1..c /\ winner[d] = u
                                          THEN Earned(winner, u, d) ELSE 0

RowsInv(c) ==
    /\ streak \in [Users -> StreakRows] /\ won \in [Users -> Nat]
    /\ shown \in [Users -> Nat] /\ granted \in [Users -> [AllDays -> Nat]]
    /\ \A u \in Users : RowInv(c, u)

\* Deleting a row that holds nothing leaves what it says.
LEMMA KeptRow ==
    ASSUME NEW r \in StreakRows
    PROVE  /\ Kept(r) \in StreakRows /\ Kept(r).days = r.days
           /\ Kept(r).pending = r.pending
           /\ Kept(r).row => (r.row /\ Kept(r).last = r.last)
           /\ ~Kept(r).row => ~r.row \/ r.days = 0
BY DEF Kept, NoRow, StreakRows

\* The run of each player after one more day.
LEMMA RunDay ==
    ASSUME NEW c, DaysInv(c), NEW t \in Users \cup {Nobody}, c + 1 \in AllDays,
           NEW w, w[c + 1] = t, \A e \in 1..c : w[e] = winner[e], NEW u
    PROVE  /\ Run(winner, u, c) \in Nat
           /\ Run(w, u, c + 1) = IF t = u THEN Run(winner, u, c) + 1 ELSE 0
           /\ winner[c] # u => Run(winner, u, c) = 0
           /\ \A d \in 1..c : Run(w, u, d) = Run(winner, u, d)
<1>1. c \in Nat \ {0} /\ AllDays \subseteq Nat
  BY StreakConstants DEF DaysInv, AllDays
<1>2. w[c + 1] = t /\ \A e \in 1..c : w[e] = winner[e]
  OBVIOUS
<1>3. \A d \in 1..c : Run(w, u, d) = Run(winner, u, d)
  <2> DEFINE v == winner
  <2>1. \A e \in 1..c : w[e] = v[e]
    BY <1>2
  <2> HIDE DEF v
  <2>2. ASSUME NEW d \in 1..c PROVE Run(w, u, d) = Run(v, u, d)
    <3>1. d \in Nat /\ \A e \in 1..d : w[e] = v[e]
      BY <1>1, <2>1
    <3> QED BY <3>1, RunSame
  <2> QED BY <2>2 DEF v
<1>4. Run(winner, u, c) \in Nat /\ Run(w, u, c) = Run(winner, u, c)
  <2>1. Run(winner, u, c) \in Nat
    BY <1>1, RunNext
  <2>2. c \in 1..c
    BY <1>1
  <2> QED BY <1>3, <2>1, <2>2
<1>5. Run(w, u, c + 1) = IF w[c + 1] = u THEN Run(w, u, c) + 1 ELSE 0
  BY <1>1, RunNext
<1>6. winner[c] # u => Run(winner, u, c) = 0
  <2> DEFINE b == c - 1
  <2>1. b \in Nat /\ c = b + 1
    BY <1>1
  <2> HIDE DEF b
  <2> QED BY <2>1, RunNext
<1> QED BY <1>2, <1>3, <1>4, <1>5, <1>6

LEMMA PlaceZero == 0 % Cycle = 0
BY StreakConstants

LEMMA DayPlace ==
    ASSUME NEW c, DaysInv(c), RowsInv(c), NEW u \in Users, c + 1 \in AllDays
    PROVE  /\ Run(winner, u, c) \in Nat
           /\ StreakDay(u, c + 1) = (Run(winner, u, c) % Cycle) + 1
           /\ StreakDay(u, c + 1) \in 1..Cycle
           /\ StreakDay(u, c + 1) % Cycle = (Run(winner, u, c) + 1) % Cycle
           /\ DayReward(u, c + 1) \in Nat \ {0}
<1> DEFINE n == Run(winner, u, c)
           m == n % Cycle
<1>1. c \in Nat \ {0} /\ Cycle \in Nat \ {0}
  BY StreakConstants DEF DaysInv, AllDays
<1>2. n \in Nat /\ (winner[c] # u => n = 0)
  <2> DEFINE b == c - 1
  <2>1. b \in Nat /\ c = b + 1
    BY <1>1
  <2> HIDE DEF b
  <2> QED BY <2>1, RunNext
<1>3. /\ streak[u].days = m /\ (streak[u].row /\ winner[c] = u => streak[u].last = c)
      /\ (~streak[u].row => streak[u].days = 0) /\ streak[u] \in StreakRows
  BY DEF RowsInv, RowInv
<1> HIDE DEF n
<1>4. m \in 0..(Cycle - 1) /\ (m + 1) % Cycle = (n + 1) % Cycle
  BY <1>1, <1>2, ModNext
<1>5. n = 0 => m = 0
  BY PlaceZero
<1> HIDE DEF m
<1> DEFINE k == IF streak[u].row /\ streak[u].last = (c + 1) - 1 THEN streak[u].days ELSE 0
<1>6. k = m
  <2>1. (c + 1) - 1 = c
    BY <1>1
  <2> QED BY <1>2, <1>3, <1>5, <2>1
<1>7. m % Cycle = m
  BY <1>1, <1>4
<1>8. StreakDay(u, c + 1) = m + 1
  BY <1>6, <1>7 DEF StreakDay
<1> QED BY <1>1, <1>2, <1>4, <1>8, StreakConstants DEF DayReward, n, m

LEMMA ClosesRows ==
    ASSUME NEW c, DaysInv(c), RowsInv(c), Closes(c + 1), c + 1 \in AllDays
    PROVE  RowsInv(c + 1)'
<1> DEFINE d == c + 1
           t == TopOf(d)
<1>0. c \in Nat \ {0} /\ d \in Nat \ {0} /\ (c + 1) - 1 = c /\ c + 1 \notin 1..c
  BY StreakConstants DEF DaysInv, AllDays
<1>1. t \in Users \cup {Nobody} /\ winner' = [winner EXCEPT ![c + 1] = t]
  BY TopOne DEF Closes
<1>2. /\ shown' = shown /\ streak' = Streaks(d)
      /\ \/ t = Nobody /\ UNCHANGED <<won, granted>>
         \/ t \in Users /\ Grant(t, d)
  BY DEF Closes
<1>3. \A u \in Users : streak[u] \in StreakRows
  BY DEF RowsInv
<1> HIDE DEF t
<1>4. ASSUME NEW u \in Users, u # t
      PROVE  /\ streak'[u] \in StreakRows /\ streak'[u].days = 0
             /\ streak'[u].pending = streak[u].pending
             /\ UNCHANGED <<won[u], granted[u]>>
  <2> DEFINE r == [streak[u] EXCEPT !.days = 0]
  <2>1. streak'[u] = Kept(r)
    BY <1>2, <1>4 DEF Streaks, t
  <2>2. r \in StreakRows /\ r.days = 0 /\ r.pending = streak[u].pending
    BY <1>3 DEF StreakRows
  <2> HIDE DEF r
  <2>3. UNCHANGED <<won[u], granted[u]>>
    BY <1>2, <1>4 DEF Grant, RowsInv
  <2> QED BY <2>1, <2>2, <2>3, KeptRow
<1>5. ASSUME t \in Users
      PROVE  /\ streak'[t] \in StreakRows /\ streak'[t].row /\ streak'[t].last = d
             /\ streak'[t].days = (Run(winner, t, c) + 1) % Cycle
             /\ streak'[t].pending = streak[t].pending + DayReward(t, d)
             /\ won'[t] = won[t] + DayReward(t, d)
             /\ granted'[t] = [granted[t] EXCEPT ![d] = @ + DayReward(t, d)]
  <2> DEFINE a == DayReward(t, d)
             r == [days |-> StreakDay(t, d) % Cycle, last |-> d, row |-> TRUE,
                   pending |-> streak[t].pending + a]
  <2>1. streak'[t] = Kept(r)
    BY <1>2, <1>5 DEF Streaks, t
  <2>2. a \in Nat \ {0} /\ StreakDay(t, d) % Cycle = (Run(winner, t, c) + 1) % Cycle
        /\ (Run(winner, t, c) + 1) % Cycle \in Int
    BY <1>5, DayPlace, StreakConstants
  <2>3. Grant(t, d)
    BY <1>2, <1>5, StreakConstants
  <2>4. won'[t] = won[t] + a /\ granted'[t] = [granted[t] EXCEPT ![d] = @ + a]
    BY <1>5, <2>3 DEF Grant, RowsInv
  <2> HIDE DEF a
  <2>5. r \in StreakRows /\ r.pending > 0
    BY <1>0, <1>3, <1>5, <2>2 DEF StreakRows
  <2>6. Kept(r) = r
    BY <2>5 DEF Kept, StreakRows
  <2> QED BY <2>1, <2>2, <2>4, <2>5, <2>6 DEF a
<1>6. /\ won' \in [Users -> Nat] /\ shown' \in [Users -> Nat]
      /\ granted' \in [Users -> [AllDays -> Nat]]
  <2>1. CASE t = Nobody
    BY <1>2, <2>1, StreakConstants DEF RowsInv
  <2>2. CASE t \in Users
    <3>1. DayReward(t, d) \in Nat
      BY <2>2, DayPlace
    <3>2. Grant(t, d)
      BY <1>2, <2>2, StreakConstants
    <3>3. granted[t] \in [AllDays -> Nat] /\ won[t] \in Nat
      BY <2>2 DEF RowsInv
    <3>4. /\ won' = [won EXCEPT ![t] = won[t] + DayReward(t, d)]
          /\ granted' = [granted EXCEPT ![t] = [granted[t] EXCEPT ![d] = granted[t][d] + DayReward(t, d)]]
      BY <3>2 DEF Grant
    <3> DEFINE x == won[t] + DayReward(t, d)
               y == [granted[t] EXCEPT ![d] = granted[t][d] + DayReward(t, d)]
    <3>5. x \in Nat /\ y \in [AllDays -> Nat]
      BY <3>1, <3>3
    <3> HIDE DEF x, y
    <3> QED BY <1>2, <3>4, <3>5 DEF RowsInv, x, y
  <2> QED BY <1>1, <2>1, <2>2
<1>7. streak' \in [Users -> StreakRows]
  <2>1. \A u \in Users : streak'[u] \in StreakRows
    BY <1>4, <1>5
  <2>2. streak' = [u \in Users |-> streak'[u]]
    BY <1>2 DEF Streaks
  <2> QED BY <2>1, <2>2
<1>8. ASSUME NEW u \in Users PROVE RowInv(c + 1, u)'
  <2> DEFINE w == winner'
  <2>0. w[c + 1] = t /\ \A e \in 1..c : w[e] = winner[e]
    <3>1. 1..c \subseteq AllDays
      BY <1>0, StreakConstants DEF DaysInv, AllDays
    <3> QED BY <1>0, <1>1, <3>1 DEF DaysInv
  <2> HIDE DEF w
  <2>1. /\ Run(winner, u, c) \in Nat
        /\ Run(w, u, d) = IF t = u THEN Run(winner, u, c) + 1 ELSE 0
        /\ \A e \in 1..c : Run(w, u, e) = Run(winner, u, e)
    BY <1>1, <2>0, RunDay
  <2>2. w[d] = t /\ \A e \in AllDays : e # d => w[e] = winner[e]
    BY <1>1 DEF DaysInv, w
  <2>3. /\ streak[u].days = Run(winner, u, c) % Cycle
        /\ won[u] = shown[u] + streak[u].pending
        /\ won[u] \in Nat /\ shown[u] \in Nat /\ streak[u].pending \in Nat
        /\ granted[u] \in [AllDays -> Nat]
        /\ \A e \in AllDays : granted[u][e] = IF e \in 1..c /\ winner[e] = u
                                              THEN Earned(winner, u, e) ELSE 0
    BY <1>3 DEF RowsInv, RowInv, StreakRows
  <2>4. \A e \in 1..c : Earned(w, u, e) = Earned(winner, u, e)
    BY <2>1 DEF Earned
  <2>5. 1..(c + 1) = (1..c) \cup {d} /\ d \notin 1..c /\ \A e \in 1..c : e # d
    BY <1>0
  <2>6. CASE u # t
    <3>1. streak'[u].days = Run(w, u, d) % Cycle /\ streak'[u].days = 0
      BY <1>4, <2>1, <2>6, PlaceZero
    <3>2. won'[u] = shown'[u] + streak'[u].pending
      BY <1>2, <1>4, <2>3, <2>6
    <3>3. ASSUME NEW e \in AllDays
          PROVE  granted'[u][e] = IF e \in 1..(c + 1) /\ w[e] = u THEN Earned(w, u, e) ELSE 0
      BY <1>4, <2>2, <2>3, <2>4, <2>5, <2>6
    <3> QED BY <2>2, <2>6, <3>1, <3>2, <3>3 DEF RowInv, w
  <2>7. CASE u = t
    <3>1. /\ streak'[u].row /\ streak'[u].last = d
          /\ streak'[u].days = Run(w, u, d) % Cycle
      BY <1>5, <2>1, <2>7
    <3>2. DayReward(u, d) \in Nat /\ won'[u] = shown'[u] + streak'[u].pending
      BY <1>2, <1>5, <2>3, <2>7, DayPlace
    <3>3. DayReward(u, d) = Earned(w, u, d)
      <4>1. StreakDay(u, d) = (Run(winner, u, c) % Cycle) + 1
        BY DayPlace
      <4>2. Run(w, u, d) - 1 = Run(winner, u, c)
        BY <2>1, <2>7
      <4> QED BY <4>1, <4>2 DEF DayReward, Earned
    <3>4. granted[u][d] = 0
      BY <2>3, <2>5
    <3>5. ASSUME NEW e \in AllDays
          PROVE  granted'[u][e] = IF e \in 1..(c + 1) /\ w[e] = u THEN Earned(w, u, e) ELSE 0
      <4>1. granted'[u][e] = IF e = d THEN granted[u][d] + DayReward(u, d) ELSE granted[u][e]
        BY <1>5, <2>3, <2>7
      <4>2. CASE e = d
        BY <2>2, <2>5, <2>7, <3>2, <3>3, <3>4, <4>1, <4>2
      <4>3. CASE e # d
        BY <2>2, <2>3, <2>4, <2>5, <4>1, <4>3
      <4> QED BY <4>2, <4>3
    <3> QED BY <3>1, <3>2, <3>5 DEF RowInv, w
  <2> QED BY <2>6, <2>7
<1> QED BY <1>6, <1>7, <1>8 DEF RowsInv

LEMMA ClaimRows ==
    ASSUME NEW c, DaysInv(c), RowsInv(c), NEW u \in Users, Claim(u) \/ ClaimClean(u)
    PROVE  RowsInv(c)'
<1>1. UNCHANGED <<winner, won, granted>> /\ streak[u] \in StreakRows
  BY DEF Claim, ClaimClean, results, RowsInv
<1>2. ASSUME NEW v \in StreakRows, NEW n \in Nat,
             streak' \in [Users -> StreakRows], shown' \in [Users -> Nat],
             streak'[u] = v, shown'[u] = n,
             \A q \in Users : q # u => streak'[q] = streak[q] /\ shown'[q] = shown[q],
             v.days = streak[u].days, v.row => streak[u].row /\ v.last = streak[u].last,
             ~v.row => v.days = 0,
             n + v.pending = shown[u] + streak[u].pending
      PROVE  RowsInv(c)'
  <2>3. ASSUME NEW q \in Users PROVE RowInv(c, q)'
    <3>1. RowInv(c, q)
      BY DEF RowsInv
    <3>2. CASE q = u
      BY <1>1, <1>2, <3>1, <3>2 DEF RowInv
    <3>3. CASE q # u
      BY <1>1, <1>2, <3>1, <3>3 DEF RowInv
    <3> QED BY <3>2, <3>3
  <2> QED BY <1>1, <1>2, <2>3 DEF RowsInv
<1>3. CASE Claim(u)
  <2> DEFINE v == [streak[u] EXCEPT !.pending = 0]
             n == shown[u] + streak[u].pending
  <2>1. /\ v \in StreakRows /\ v.days = streak[u].days /\ v.row = streak[u].row
        /\ v.last = streak[u].last /\ v.pending = 0 /\ streak[u].row
        /\ n \in Nat
    <3>1. streak[u].row /\ shown[u] \in Nat
      BY <1>3 DEF Claim, RowsInv
    <3> DEFINE a == streak[u]
    <3>2. a \in StreakRows
      BY <1>1
    <3> HIDE DEF a
    <3>3. LET b == [a EXCEPT !.pending = 0] IN
          /\ b \in StreakRows /\ b.days = a.days /\ b.row = a.row
          /\ b.last = a.last /\ b.pending = 0 /\ a.pending \in Nat
      BY <3>2 DEF StreakRows
    <3>4. n \in Nat
      BY <3>1, <3>3 DEF a
    <3> QED BY <3>1, <3>3, <3>4 DEF a
  <2>2. streak' = [streak EXCEPT ![u] = v] /\ shown' = [shown EXCEPT ![u] = n]
    BY <1>3 DEF Claim
  <2>3. n + v.pending = shown[u] + streak[u].pending
    BY <2>1
  <2> HIDE DEF v, n
  <2>4. /\ streak' \in [Users -> StreakRows] /\ shown' \in [Users -> Nat]
        /\ streak'[u] = v /\ shown'[u] = n
        /\ \A q \in Users : q # u => streak'[q] = streak[q] /\ shown'[q] = shown[q]
    BY <2>1, <2>2 DEF RowsInv
  <2>6. ~v.row => v.days = 0
    BY <2>1
  <2>7. /\ v \in StreakRows /\ n \in Nat /\ v.days = streak[u].days
        /\ v.row => streak[u].row /\ v.last = streak[u].last
    BY <2>1
  <2> QED BY <1>2, <2>3, <2>4, <2>6, <2>7
<1>4. CASE ClaimClean(u)
  <2> DEFINE v == Kept(streak[u])
             n == shown[u]
  <2>1. ~streak[u].row => streak[u].days = 0
    BY DEF RowsInv, RowInv
  <2>2. /\ v \in StreakRows /\ v.days = streak[u].days /\ v.pending = streak[u].pending
        /\ (v.row => streak[u].row /\ v.last = streak[u].last) /\ (~v.row => v.days = 0)
    BY <1>1, <2>1, KeptRow
  <2>3. streak' = [streak EXCEPT ![u] = v] /\ shown' = [shown EXCEPT ![u] = n] /\ n \in Nat
    BY <1>4 DEF ClaimClean, RowsInv
  <2>4. n + v.pending = shown[u] + streak[u].pending
    BY <2>2
  <2> HIDE DEF v, n
  <2>5. /\ streak' \in [Users -> StreakRows] /\ shown' \in [Users -> Nat]
        /\ streak'[u] = v /\ shown'[u] = n
        /\ \A q \in Users : q # u => streak'[q] = streak[q] /\ shown'[q] = shown[q]
    BY <2>2, <2>3 DEF RowsInv
  <2> QED BY <1>2, <2>2, <2>3, <2>4, <2>5
<1> QED BY <1>3, <1>4

-----------------------------------------------------------------------------
(* The records. *)

RecInv ==
    /\ rec = [d \in AllDays |-> rec[d]]
    /\ \A d \in AllDays : rec[d] = [u \in Users |-> rec[d][u]]
    /\ \A d \in AllDays, u \in Users : rec[d][u].mass \in Nat

Results == [day : AllDays, user : Users, mass : 1..MaxMass]

WriteInv ==
    /\ RecInv /\ pend \subseteq Results
    /\ written \in [Users -> [day : Int, mass : Int]]
    /\ \A u \in Users : written[u].day <= today
    /\ WrittenIsTrue

\* No row of the day d gets worse.
NoWorse(d) == \A u \in Users : rec'[d][u].mass >= rec[d][u].mass

LEMMA PutRows ==
    ASSUME NEW old, old = [u \in Users |-> old[u]], NEW r \in Results,
           \A u \in Users : old[u].mass \in Nat
    PROVE  /\ Put(old, r) = [u \in Users |-> Put(old, r)[u]]
           /\ \A u \in Users : /\ Put(old, r)[u].mass \in Nat
                               /\ Put(old, r)[u].mass >= old[u].mass
           /\ Put(old, r)[r.user].mass >= r.mass
<1> DEFINE x == [mass |-> r.mass, at |-> 1 + Max({old[u].at : u \in Users})]
           y == [old EXCEPT ![r.user] = x]
<1>1. r.user \in Users /\ r.mass \in Nat /\ x.mass = r.mass
  BY StreakConstants DEF Results
<1> HIDE DEF x
<1>2. CASE old[r.user].mass >= r.mass
  BY <1>1, <1>2 DEF Put
<1>3. CASE ~(old[r.user].mass >= r.mass)
  <2>1. Put(old, r) = y
    BY <1>3 DEF Put, x
  <2>2. y = [u \in Users |-> y[u]] /\ \A u \in Users : y[u] = IF u = r.user THEN x ELSE old[u]
    BY <1>1
  <2> HIDE DEF y
  <2> QED BY <1>1, <1>3, <2>1, <2>2
<1> QED BY <1>2, <1>3

LEMMA WrittenRec ==
    ASSUME RecInv, pend \subseteq Results, NEW r \in pend, RecordWritten(r)
    PROVE  /\ RecInv' /\ \A d \in AllDays : NoWorse(d)
           /\ rec'[r.day][r.user].mass >= r.mass
<1> DEFINE y == Put(rec[r.day], r)
<1>1. r \in Results /\ r.day \in AllDays /\ rec' = [rec EXCEPT ![r.day] = y]
  BY DEF RecordWritten, Results
<1>2. rec' = [d \in AllDays |-> rec'[d]] /\ \A d \in AllDays : rec'[d] = IF d = r.day THEN y ELSE rec[d]
  BY <1>1 DEF RecInv
<1>3. /\ y = [u \in Users |-> y[u]]
      /\ \A u \in Users : y[u].mass \in Nat /\ y[u].mass >= rec[r.day][u].mass
      /\ y[r.user].mass >= r.mass
  BY <1>1, PutRows DEF RecInv
<1> HIDE DEF y
<1>4. ASSUME NEW d \in AllDays PROVE NoWorse(d)
  <2>1. CASE d = r.day
    BY <1>2, <1>3, <2>1 DEF NoWorse
  <2>2. CASE d # r.day
    BY <1>2, <2>2 DEF NoWorse, RecInv
  <2> QED BY <2>1, <2>2
<1>5. rec'[r.day][r.user].mass >= r.mass
  BY <1>1, <1>2, <1>3
<1>6. \A d \in AllDays : rec'[d] = [u \in Users |-> rec'[d][u]] /\ \A u \in Users : rec'[d][u].mass \in Nat
  BY <1>2, <1>3 DEF RecInv
<1> QED BY <1>2, <1>4, <1>5, <1>6 DEF RecInv

LEMMA DeletedRec ==
    ASSUME NEW c, DaysInv(c), RecInv, NEW s \in Servers, SweepEnd(s)
    PROVE  /\ RecInv' /\ \A d \in AllDays \ closed : NoWorse(d)
           /\ rec'[today] = rec[today]
<1> DEFINE k == sweep[s].until + 1 - KeepDays
           none == [u \in Users |-> NoRecord]
<1>0. Swept(sweep[s], c, today) /\ sweep[s] # NoSweep /\ ~More(s)
  BY DEF SweepEnd, DaysInv
<1>1. Swept(sweep[s], c, today) /\ (sweep[s].left = 0 \/ sweep[s].day > sweep[s].until)
  BY <1>0, StreakConstants DEF Swept, More
<1>2. /\ today \in Nat /\ c \in Nat /\ today \in AllDays /\ closed = 1..c /\ AllDays \subseteq Nat \ {0}
  BY StreakConstants DEF DaysInv, AllDays
<1>3. k \in Int /\ k <= c + 1 /\ k <= today
  <2> DEFINE day == sweep[s].day
             until == sweep[s].until
             left == sweep[s].left
  <2>1. /\ day \in 2..(c + 1) /\ left \in 0..MaxCatchUp /\ until \in 1..(today - 1)
        /\ until <= day + left + KeepDays - 1 /\ (left = 0 \/ day > until)
    BY <1>1 DEF Swept
  <2> HIDE DEF day, until, left
  <2>2. until + 1 - KeepDays \in Int /\ until + 1 - KeepDays <= today
    BY <1>2, <2>1, StreakConstants
  <2>3. until + 1 - KeepDays <= c + 1
    BY <1>2, <2>1, StreakConstants
  <2> QED BY <2>2, <2>3 DEF until
<1>4. rec' = [e \in AllDays |-> IF e < k THEN none ELSE rec[e]]
  BY DEF SweepEnd, Delete
<1> HIDE DEF k, none
<1>5. \A d \in AllDays : rec'[d] = IF d < k THEN none ELSE rec[d]
  BY <1>4
<1>6. \A d \in AllDays \ closed : ~(d < k)
  BY <1>2, <1>3
<1>7. none = [u \in Users |-> none[u]] /\ \A u \in Users : none[u].mass = 0
  BY DEF none, NoRecord
<1>8. RecInv'
  BY <1>4, <1>5, <1>7 DEF RecInv
<1>9. \A d \in AllDays \ closed : NoWorse(d)
  BY <1>5, <1>6 DEF NoWorse, RecInv
<1> QED BY <1>2, <1>3, <1>5, <1>8, <1>9

\* Nothing is written, and the day is the same.
LEMMA QuietWrites ==
    ASSUME WriteInv, RecInv', UNCHANGED <<today, written>>, pend' = pend,
           rec'[today] = rec[today]
    PROVE  WriteInv'
BY DEF WriteInv, WrittenIsTrue

LEMMA RecordWrites ==
    ASSUME NEW c, DaysInv(c), WriteInv, NEW u \in Users, NEW m \in 1..MaxMass, Record(u, m)
    PROVE  WriteInv'
<1> DEFINE r == [day |-> today, user |-> u, mass |-> m]
           v == [day |-> today, mass |-> m]
<1>1. /\ written' = [written EXCEPT ![u] = v] /\ pend' = pend \cup {r}
      /\ UNCHANGED <<today, rec>> /\ today \in AllDays /\ today \in Int /\ m \in Int
  BY StreakConstants DEF Record, DaysInv, AllDays
<1>2. /\ r \in Results /\ r.day = today /\ r.user = u /\ r.mass = m
      /\ v \in [day : Int, mass : Int] /\ v.day = today /\ v.mass = m
  BY <1>1 DEF Results
<1> HIDE DEF r, v
<1>3. /\ written' \in [Users -> [day : Int, mass : Int]] /\ written'[u] = v
      /\ \A q \in Users : q # u => written'[q] = written[q]
  BY <1>1, <1>2 DEF WriteInv
<1>4. \A q \in Users : written'[q].day <= today
  BY <1>1, <1>2, <1>3 DEF WriteInv
<1>5. pend' \subseteq Results /\ RecInv'
  BY <1>1, <1>2 DEF WriteInv, RecInv
<1>6. WrittenIsTrue'
  <2> SUFFICES ASSUME NEW q \in Users, written'[q].day = today
               PROVE  \/ rec[today][q].mass >= written'[q].mass
                      \/ \E p \in pend' : /\ p.user = q /\ p.day = today
                                          /\ p.mass >= written'[q].mass
    BY <1>1 DEF WrittenIsTrue
  <2>1. CASE q = u
    BY <1>1, <1>2, <1>3, <2>1
  <2>2. CASE q # u
    BY <1>1, <1>3, <2>2 DEF WriteInv, WrittenIsTrue
  <2> QED BY <2>1, <2>2
<1> QED BY <1>1, <1>3, <1>4, <1>5, <1>6 DEF WriteInv

LEMMA WrittenWrites ==
    ASSUME NEW c, DaysInv(c), WriteInv, NEW r \in pend, RecordWritten(r)
    PROVE  WriteInv'
<1>1. /\ RecInv' /\ \A d \in AllDays : NoWorse(d)
      /\ rec'[r.day][r.user].mass >= r.mass
  BY WrittenRec DEF WriteInv
<1>2. pend' = pend \ {r} /\ UNCHANGED <<today, written>> /\ today \in AllDays
  BY DEF RecordWritten, DaysInv
<1>3. WrittenIsTrue'
  <2> SUFFICES ASSUME NEW q \in Users, written[q].day = today
               PROVE  \/ rec'[today][q].mass >= written[q].mass
                      \/ \E p \in pend' : /\ p.user = q /\ p.day = today
                                          /\ p.mass >= written[q].mass
    BY <1>2 DEF WrittenIsTrue
  <2>1. written[q].mass \in Int /\ rec[today][q].mass \in Int /\ rec'[today][q].mass \in Int
    BY <1>1, <1>2 DEF WriteInv, RecInv
  <2>2. CASE rec[today][q].mass >= written[q].mass
    BY <1>1, <1>2, <2>1, <2>2 DEF NoWorse
  <2>3. CASE r.user = q /\ r.day = today /\ r.mass >= written[q].mass
    <3>1. r.mass \in Int
      BY StreakConstants DEF WriteInv, Results
    <3> QED BY <1>1, <2>1, <2>3, <3>1
  <2>4. CASE \E p \in pend \ {r} : /\ p.user = q /\ p.day = today
                                   /\ p.mass >= written[q].mass
    BY <1>2, <2>4
  <2> QED BY <2>2, <2>3, <2>4 DEF WriteInv, WrittenIsTrue
<1> QED BY <1>1, <1>2, <1>3 DEF WriteInv

LEMMA FailsWrites ==
    ASSUME NEW c, DaysInv(c), WriteInv, NEW r \in pend, RecordFails(r)
    PROVE  WriteInv'
<1>1. /\ written' = [written EXCEPT ![r.user] = Unwritten] /\ pend' = pend \ {r}
      /\ UNCHANGED <<today, rec>> /\ today \in Nat \ {0}
  BY StreakConstants DEF RecordFails, DaysInv, AllDays
<1>2. Unwritten \in [day : Int, mass : Int] /\ Unwritten.day = 0
  BY DEF Unwritten
<1> HIDE DEF Unwritten
<1>3. /\ written' \in [Users -> [day : Int, mass : Int]]
      /\ \A q \in Users : written'[q] = IF q = r.user THEN Unwritten ELSE written[q]
  BY <1>1, <1>2 DEF WriteInv
<1>4. \A q \in Users : written'[q].day <= today
  BY <1>1, <1>2, <1>3 DEF WriteInv
<1>5. WrittenIsTrue'
  <2> SUFFICES ASSUME NEW q \in Users, written'[q].day = today
               PROVE  \/ rec[today][q].mass >= written'[q].mass
                      \/ \E p \in pend' : /\ p.user = q /\ p.day = today
                                          /\ p.mass >= written'[q].mass
    BY <1>1 DEF WrittenIsTrue
  <2>1. q # r.user /\ written'[q] = written[q]
    BY <1>1, <1>2, <1>3
  <2> QED BY <1>1, <2>1 DEF WriteInv, WrittenIsTrue
<1> QED BY <1>1, <1>3, <1>4, <1>5 DEF WriteInv, RecInv

LEMMA RestartWrites == ASSUME NEW c, DaysInv(c), WriteInv, Restart PROVE WriteInv'
<1>1. /\ written' = [u \in Users |-> Unwritten] /\ pend' = {} /\ UNCHANGED <<today, rec>>
      /\ today \in Nat \ {0}
  BY StreakConstants DEF Restart, DaysInv, AllDays
<1>2. Unwritten \in [day : Int, mass : Int] /\ Unwritten.day = 0
  BY DEF Unwritten
<1> HIDE DEF Unwritten
<1>3. written' \in [Users -> [day : Int, mass : Int]] /\ \A u \in Users : written'[u].day = 0
  BY <1>1, <1>2
<1>4. WrittenIsTrue' /\ \A u \in Users : written'[u].day <= today'
  BY <1>1, <1>3 DEF WrittenIsTrue
<1> QED BY <1>1, <1>3, <1>4 DEF WriteInv, RecInv

LEMMA TickWrites == ASSUME NEW c, DaysInv(c), WriteInv, Tick PROVE WriteInv'
<1>1. today' = today + 1 /\ today \in Nat /\ UNCHANGED <<rec, written, pend>>
  BY StreakConstants DEF Tick, DaysInv, AllDays
<1>2. \A u \in Users : written[u].day \in Int /\ written[u].day <= today
  BY DEF WriteInv
<1>3. \A u \in Users : written[u].day # today + 1 /\ written[u].day <= today + 1
  BY <1>1, <1>2
<1>4. WrittenIsTrue' /\ \A u \in Users : written'[u].day <= today'
  BY <1>1, <1>3 DEF WrittenIsTrue
<1> QED BY <1>1, <1>4 DEF WriteInv, RecInv

LEMMA TickDays == ASSUME NEW c, DaysInv(c), Tick PROVE DaysInv(c)'
<1>1. /\ today < EndDay /\ today <= Max(closed) + MaxCatchUp + KeepDays /\ today' = today + 1
      /\ UNCHANGED <<winner, closed, sweep>>
  BY DEF Tick, results
<1>2. Max(closed) = c /\ c \in Nat \ {0} /\ today \in Nat \ {0} /\ EndDay \in Nat
  BY MaxTo, StreakConstants DEF DaysInv, AllDays
<1>3. today' \in AllDays /\ c < today' /\ today' <= c + MaxCatchUp + KeepDays + 1
  BY <1>1, <1>2, StreakConstants DEF DaysInv, AllDays
<1>4. ASSUME NEW w, Swept(w, c, today) PROVE Swept(w, c, today')
  BY <1>1, <1>2, <1>4 DEF Swept
<1> QED BY <1>1, <1>3, <1>4 DEF DaysInv

StreakInv(c) == DaysInv(c) /\ RowsInv(c) /\ WriteInv

\* No record of an open day gets worse.
Waits == \A d \in AllDays \ closed : NoWorse(d)

LEMMA SameRecs == ASSUME RecInv, rec' = rec PROVE RecInv' /\ Waits
BY DEF RecInv, Waits, NoWorse

\* Steps that have nothing to do with results and streaks.
LEMMA SameDays ==
    ASSUME NEW c, StreakInv(c), UNCHANGED <<results, streak, shown>>
    PROVE  RowsInv(c)' /\ (UNCHANGED <<today, sweep>> => DaysInv(c)')
BY DEF StreakInv, results, DaysInv, RowsInv, RowInv

LEMMA StreakStep ==
    ASSUME NEW c, StreakInv(c), [StreakNext]_streakVars
    PROVE  (StreakInv(c)' \/ StreakInv(c + 1)') /\ Waits
<1>1. DaysInv(c) /\ RowsInv(c) /\ WriteInv /\ RecInv /\ pend \subseteq Results
  BY DEF StreakInv, WriteInv
<1>2. ASSUME NEW u \in Users, NEW m \in 1..MaxMass, Record(u, m)
      PROVE  StreakInv(c)' /\ Waits
  <2>1. UNCHANGED <<results, streak, shown>> /\ UNCHANGED <<today, sweep>> /\ rec' = rec
    BY <1>2 DEF Record
  <2> QED BY <1>1, <1>2, <2>1, SameDays, SameRecs, RecordWrites DEF StreakInv
<1>3. ASSUME NEW r \in pend, RecordWritten(r) PROVE StreakInv(c)' /\ Waits
  <2>1. UNCHANGED <<results, streak, shown>> /\ UNCHANGED <<today, sweep>>
    BY <1>3 DEF RecordWritten
  <2>2. Waits
    BY <1>1, <1>3, WrittenRec DEF Waits
  <2> QED BY <1>1, <1>3, <2>1, <2>2, SameDays, WrittenWrites DEF StreakInv
<1>4. ASSUME NEW r \in pend, RecordFails(r) PROVE StreakInv(c)' /\ Waits
  <2>1. UNCHANGED <<results, streak, shown>> /\ UNCHANGED <<today, sweep>> /\ rec' = rec
    BY <1>4 DEF RecordFails
  <2> QED BY <1>1, <1>4, <2>1, SameDays, SameRecs, FailsWrites DEF StreakInv
<1>5. ASSUME NEW s \in Servers, Sweep(s) \/ SweepFails(s) PROVE StreakInv(c)' /\ Waits
  <2>1. UNCHANGED <<results, streak, shown>> /\ UNCHANGED <<today, written>>
        /\ rec' = rec /\ pend' = pend
    BY <1>5 DEF Sweep, SweepFails
  <2>2. DaysInv(c)'
    BY <1>1, <1>5, SweepDays
  <2> QED BY <1>1, <2>1, <2>2, SameDays, SameRecs, QuietWrites DEF StreakInv
<1>6. ASSUME NEW s \in Servers, SweepEnd(s) PROVE StreakInv(c)' /\ Waits
  <2>1. UNCHANGED <<results, streak, shown>> /\ UNCHANGED <<today, written>> /\ pend' = pend
    BY <1>6 DEF SweepEnd
  <2>2. DaysInv(c)'
    BY <1>1, <1>6, SweepDays
  <2>3. RecInv' /\ Waits /\ rec'[today] = rec[today]
    BY <1>1, <1>6, DeletedRec DEF Waits
  <2> QED BY <1>1, <2>1, <2>2, <2>3, SameDays, QuietWrites DEF StreakInv
<1>7. ASSUME NEW s \in Servers, CloseDay(s) PROVE (StreakInv(c)' \/ StreakInv(c + 1)') /\ Waits
  <2>1. UNCHANGED shown /\ UNCHANGED <<today, written>> /\ rec' = rec /\ pend' = pend
    BY <1>7 DEF CloseDay
  <2>2. WriteInv' /\ Waits
    BY <1>1, <2>1, SameRecs, QuietWrites
  <2>3. CASE DaysInv(c)' /\ UNCHANGED <<results, streak>>
    <3>1. RowsInv(c)'
      BY <2>1, <2>3, SameDays
    <3> QED BY <2>2, <2>3, <3>1 DEF StreakInv
  <2>4. CASE DaysInv(c + 1)' /\ Closes(c + 1) /\ c + 1 \in AllDays
    <3>1. RowsInv(c + 1)'
      BY <1>1, <2>4, ClosesRows
    <3> QED BY <2>2, <2>4, <3>1 DEF StreakInv
  <2> QED BY <1>1, <1>7, <2>3, <2>4, CloseDayDays
<1>8. ASSUME NEW u \in Users, Claim(u) \/ ClaimClean(u) PROVE StreakInv(c)' /\ Waits
  <2>1. UNCHANGED results /\ UNCHANGED <<today, written>> /\ UNCHANGED <<today, sweep>>
        /\ rec' = rec /\ pend' = pend
    BY <1>8 DEF Claim, ClaimClean
  <2>2. RowsInv(c)'
    BY <1>1, <1>8, ClaimRows
  <2>3. DaysInv(c)'
    BY <1>1, <2>1 DEF DaysInv, results
  <2>4. WriteInv' /\ Waits
    BY <1>1, <2>1, SameRecs, QuietWrites
  <2> QED BY <2>2, <2>3, <2>4 DEF StreakInv
<1>9. ASSUME Tick PROVE StreakInv(c)' /\ Waits
  <2>1. UNCHANGED <<results, streak, shown>> /\ rec' = rec
    BY <1>9 DEF Tick
  <2> QED BY <1>1, <1>9, <2>1, SameDays, SameRecs, TickDays, TickWrites DEF StreakInv
<1>10. ASSUME Restart PROVE StreakInv(c)' /\ Waits
  <2>1. UNCHANGED <<results, streak, shown>> /\ rec' = rec /\ today' = today
        /\ sweep' = [s \in Servers |-> NoSweep]
    BY <1>10 DEF Restart
  <2>2. NoSweep \in Sweeps
    BY DEF NoSweep, Sweeps
  <2>3. DaysInv(c)'
    BY <1>1, <2>1, <2>2 DEF DaysInv, results
  <2> QED BY <1>1, <1>10, <2>1, <2>3, SameDays, SameRecs, RestartWrites DEF StreakInv
<1>11. ASSUME UNCHANGED streakVars PROVE StreakInv(c)' /\ Waits
  <2>1. UNCHANGED <<results, streak, shown>> /\ UNCHANGED <<today, sweep>> /\ rec' = rec
        /\ UNCHANGED <<today, written>> /\ pend' = pend
    BY <1>11 DEF streakVars
  <2> QED BY <1>1, <2>1, SameDays, SameRecs, QuietWrites DEF StreakInv
<1> QED
  BY <1>2, <1>3, <1>4, <1>5, <1>6, <1>7, <1>8, <1>9, <1>10, <1>11 DEF StreakNext

LEMMA StreakStart == StreakInit => StreakInv(1)
<1> SUFFICES ASSUME StreakInit PROVE StreakInv(1)
  OBVIOUS
<1>1. /\ 1 \in AllDays /\ 2 \in AllDays /\ AllDays \subseteq Nat
      /\ closed = 1..1 /\ 2 <= 1 + MaxCatchUp + KeepDays + 1
  BY StreakConstants DEF StreakInit, AllDays
<1>2. NoSweep \in Sweeps /\ NoRow \in StreakRows /\ Unwritten \in [day : Int, mass : Int]
  BY DEF NoSweep, Sweeps, NoRow, StreakRows, Unwritten
<1>3. DaysInv(1)
  <2>1. winner \in [AllDays -> Users \cup {Nobody}] /\ today = 2 /\ 1 < 2
    BY DEF StreakInit
  <2>2. sweep \in [Servers -> Sweeps] /\ \A s \in Servers : sweep[s] = NoSweep
    BY <1>2 DEF StreakInit
  <2> QED BY <1>1, <2>1, <2>2 DEF DaysInv
<1>4. RowsInv(1)
  <2>1. /\ streak = [u \in Users |-> NoRow] /\ won = [u \in Users |-> 0]
        /\ shown = [u \in Users |-> 0] /\ granted = [u \in Users |-> [d \in AllDays |-> 0]]
        /\ winner = [d \in AllDays |-> Nobody]
    BY DEF StreakInit
  <2>2. NoRow.days = 0 /\ NoRow.pending = 0 /\ NoRow.row = FALSE
    BY DEF NoRow
  <2> HIDE DEF NoRow
  <2>3. ASSUME NEW u \in Users PROVE RowInv(1, u)
    <3>1. Run(winner, u, 0) = 0 /\ Run(winner, u, 0 + 1) = 0
      BY <1>1, <2>1, RunNext, StreakConstants
    <3>2. Run(winner, u, 1) % Cycle = 0
      BY <3>1, PlaceZero
    <3>3. \A d \in AllDays : winner[d] # u
      BY <2>1, StreakConstants
    <3> QED BY <1>1, <2>1, <2>2, <3>2, <3>3 DEF RowInv
  <2> QED BY <1>2, <2>1, <2>3 DEF RowsInv
<1>5. WriteInv
  <2>1. /\ rec = [d \in AllDays |-> [u \in Users |-> NoRecord]] /\ pend = {} /\ today = 2
        /\ written = [u \in Users |-> Unwritten]
    BY DEF StreakInit
  <2>2. NoRecord.mass = 0 /\ Unwritten.day = 0
    BY DEF NoRecord, Unwritten
  <2> HIDE DEF NoRecord, Unwritten
  <2>3. \A d \in AllDays : rec[d] = [u \in Users |-> NoRecord]
    BY <2>1
  <2>4. \A d \in AllDays, u \in Users : rec[d][u] = NoRecord
    BY <2>3
  <2>5. RecInv
    BY <2>1, <2>2, <2>3, <2>4 DEF RecInv
  <2>6. \A u \in Users : written[u].day = 0
    BY <2>1, <2>2
  <2> QED BY <1>2, <2>1, <2>5, <2>6 DEF WriteInv, WrittenIsTrue
<1> QED BY <1>3, <1>4, <1>5 DEF StreakInv

LEMMA StreakProps ==
    ASSUME NEW c, StreakInv(c)
    PROVE  PaidIsEarned /\ StreakIsRun /\ ToldOnce /\ WrittenIsTrue
<1>1. DaysInv(c) /\ RowsInv(c) /\ WrittenIsTrue
  BY DEF StreakInv, WriteInv
<1>2. c \in Nat \ {0} /\ closed = 1..c /\ Max(closed) = c
  BY <1>1, MaxTo, StreakConstants DEF DaysInv, AllDays
<1>3. \A u \in Users, d \in 0..c : RunAt(u, d) = Run(winner, u, d)
  BY <1>2, RunClosed
<1>4. PaidIsEarned
  BY <1>1, <1>2, <1>3 DEF PaidIsEarned, RowsInv, RowInv, Earned
<1>5. StreakIsRun
  <2>1. ASSUME NEW u \in Users
        PROVE  streak[u].days = IF winner[c] = u THEN RunAt(u, c) % Cycle ELSE 0
    <3>1. RunAt(u, c) = Run(winner, u, c) /\ streak[u].days = Run(winner, u, c) % Cycle
      BY <1>1, <1>2, <1>3 DEF RowsInv, RowInv
    <3>2. winner[c] # u => Run(winner, u, c) = 0
      <4> DEFINE b == c - 1
      <4>1. b \in Nat /\ c = b + 1
        BY <1>2
      <4> HIDE DEF b
      <4> QED BY <4>1, RunNext
    <3> QED BY <3>1, <3>2, PlaceZero
  <2> QED BY <1>2, <2>1 DEF StreakIsRun
<1>6. ToldOnce
  BY <1>1 DEF ToldOnce, RowsInv, RowInv
<1> QED BY <1>1, <1>4, <1>5, <1>6

LEMMA StreaksHold ==
    StreakSpec => [](PaidIsEarned /\ StreakIsRun /\ ToldOnce /\ WrittenIsTrue)
                  /\ [][Waits]_streakVars
<1> DEFINE Inv == \E c : StreakInv(c)
<1>1. StreakInit => Inv
  BY StreakStart
<1>2. Inv /\ [StreakNext]_streakVars => Inv'
  BY StreakStep
<1>3. Inv /\ [StreakNext]_streakVars => Waits
  BY StreakStep
<1>4. Inv => PaidIsEarned /\ StreakIsRun /\ ToldOnce /\ WrittenIsTrue
  BY StreakProps
<1> HIDE DEF Inv
<1> QED BY <1>1, <1>2, <1>3, <1>4, PTL DEF StreakSpec

\* Every ruby in the journal that names a day was earned by winning that day, and
\* every won day is paid once, whoever closes it, fails and starts again (closeDay,
\* grantStreakInTx).
THEOREM DaysPaidAsEarned == StreakSpec => []PaidIsEarned
BY StreaksHold, PTL

\* The streak is the run of days that ends with the last closed one (closeDay).
THEOREM StreaksAreRuns == StreakSpec => []StreakIsRun
BY StreaksHold, PTL

\* Each ruby that was paid was shown once or waits to be shown (claimStreakAward).
THEOREM RubiesToldOnce == StreakSpec => []ToldOnce
BY StreaksHold, PTL

\* A result that is not written because it was written already is in the database
\* or on its way to it (recordMass and its map of what was written).
THEOREM WrittenResults == StreakSpec => []WrittenIsTrue
BY StreaksHold, PTL

\* The deletion of old records takes none of a day that is still open, because the
\* sweep that deletes has closed every day before (closePendingDays).
THEOREM RecordsWait == StreakSpec => RecordsWaitForClosing
<1>1. Waits <=> \A d \in AllDays \ closed, u \in Users : rec'[d][u].mass >= rec[d][u].mass
  BY DEF Waits, NoWorse
<1> QED BY <1>1, StreaksHold, PTL DEF RecordsWaitForClosing

=============================================================================
