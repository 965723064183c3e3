----------------------------- MODULE RubyLedger -----------------------------
(***************************************************************************)
(* FlockRubiesService (backend/src/flock/flock.rubies.service.ts): one     *)
(* player's rubies.  Every change runs in a database transaction: it locks *)
(* the profile row (lockProfile, SELECT ... FOR UPDATE), reads the balance *)
(* there, decides, writes the new balance with a journal row and commits.  *)
(* Reqs are the requests that are open at the same time; what a request    *)
(* asks for matters only once it holds the lock, and is chosen there.      *)
(*                                                                         *)
(* Profiles of different players share nothing, so one player is enough.   *)
(* The journal (RubyTransaction, only ever appended to) is kept as the     *)
(* numbers that are asked of it.                                           *)
(***************************************************************************)
EXTENDS Integers, FiniteSets

CONSTANTS Reqs,            \* transactions open at the same time
          Skins,           \* paid skins, those an admin can grant
          Sellable,        \* those buySkin accepts: not hidden, not legendary
          Collection,      \* premiumCollectionIds
          Artifacts,
          Price,           \* skinPriceOf, FLOCK_CONFIG.artifacts.price
          Matches,         \* "Castles" matches the player has won
          BotMatches,      \* those with botOnly
          LastDay,         \* bound: days are 1..LastDay
          MaxRequests,     \* bound on the requests of a behaviour
          Top1Reward, CircleReward, DailyLimit,
          TeamReward, DailyWinLimit, BotOnlyRewardLimit,
          BossKillReward, StreakRewards, EntryBonus, CollectionReward,
          Adjustments      \* deltas an admin may enter

Items == Skins \cup Artifacts
Days == 1..LastDay

\* Names of the journal rows that must be unique.
Rows == Items \cup Matches \cup {"entry", "collection"}

ASSUME ItemsAssumption ==
    /\ Collection \subseteq Sellable
    /\ Sellable \subseteq Skins
    /\ Skins \cap Artifacts = {}
    /\ Items \cap Matches = {}
    /\ {"entry", "collection"} \cap (Items \cup Matches) = {}
    /\ Price \in [Items -> Nat]

ASSUME MatchAssumption == IsFiniteSet(Matches) /\ BotMatches \subseteq Matches

ASSUME AmountAssumption ==
    /\ {Top1Reward, CircleReward, DailyLimit} \subseteq Nat
    /\ {DailyWinLimit, BotOnlyRewardLimit, MaxRequests} \subseteq Nat
    /\ {TeamReward, BossKillReward, EntryBonus, CollectionReward} \subseteq Nat
    /\ StreakRewards \subseteq Nat
    /\ Adjustments \subseteq Int \ {0}
    /\ LastDay \in Nat \ {0}

ASSUME NoReqAssumption == "nobody" \notin Reqs

VARIABLES rubies,          \* FlockProfile.rubies
          entryBonusAt,    \* FlockProfile.entryBonusAt is set
          premiumAt,       \* FlockProfile.premiumCollectionAt is set
          owned,           \* FlockSkinPurchase and FlockArtifactPurchase rows
          teamDay,         \* FlockTeamReward.createdAt of a match, 0: no row
          posted,          \* journal: the sum of delta
          balanceAfter,    \* journal: balanceAfter of the latest row
          arenaSince,      \* journal: sum of the ARENA_TOP1 deltas since a day
          rows,            \* journal: number of rows for each name in Rows
          holder,          \* the request that holds the profile row lock
          req,             \* open requests
          clock,           \* the day in Kyiv
          requests         \* requests made so far, bounded by MaxRequests

profile == <<rubies, entryBonusAt, premiumAt, owned, teamDay>>
journal == <<posted, balanceAfter, arenaSince, rows>>
vars == <<profile, journal, holder, req, clock, requests>>

Request == [pc : {"idle", "called", "locked"}, now : Days, balance : Int]
Idle == [pc |-> "idle", now |-> 1, balance |-> 0]

TypeOK ==
    /\ rubies \in Nat
    /\ entryBonusAt \in BOOLEAN
    /\ premiumAt \in BOOLEAN
    /\ owned \subseteq Items
    /\ teamDay \in [Matches -> 0..LastDay]
    /\ posted \in Int
    /\ balanceAfter \in Int
    /\ arenaSince \in [1..(LastDay + 1) -> Nat]
    /\ rows \in [Rows -> Nat]
    /\ holder \in Reqs \cup {"nobody"}
    /\ req \in [Reqs -> Request]
    /\ clock \in Days
    /\ requests \in Nat

Init == /\ rubies = 0
        /\ entryBonusAt = FALSE
        /\ premiumAt = FALSE
        /\ owned = {}
        /\ teamDay = [m \in Matches |-> 0]
        /\ posted = 0
        /\ balanceAfter = 0
        /\ arenaSince = [d \in 1..(LastDay + 1) |-> 0]
        /\ rows = [r \in Rows |-> 0]
        /\ holder = "nobody"
        /\ req = [t \in Reqs |-> Idle]
        /\ clock = 1
        /\ requests = 0

-----------------------------------------------------------------------------
(* The transaction around every operation. *)

\* The operation is called; its default argument now is evaluated here, before
\* the transaction starts and before it waits for the lock.
Call(t) == /\ req[t].pc = "idle"
           /\ requests < MaxRequests
           /\ requests' = requests + 1
           /\ req' = [req EXCEPT ![t] = [pc |-> "called", now |-> clock,
                                         balance |-> 0]]
           /\ UNCHANGED <<profile, journal, holder, clock>>

Reading(t) == [pc |-> "locked", now |-> req[t].now, balance |-> rubies]

\* Mutant of Lock: SELECT without FOR UPDATE.
ReadWithoutLock(t) ==
    /\ req[t].pc = "called"
    /\ holder' = t
    /\ req' = [req EXCEPT ![t] = Reading(t)]
    /\ UNCHANGED <<profile, journal, clock, requests>>

\* lockProfile: waits for the row, then reads the committed balance.
Lock(t) == /\ req[t].pc = "called"
           /\ holder = "nobody"
           /\ holder' = t
           /\ req' = [req EXCEPT ![t] = Reading(t)]
           /\ UNCHANGED <<profile, journal, clock, requests>>

Commit(t) == /\ holder' = "nobody"
             /\ req' = [req EXCEPT ![t] = Idle]
             /\ UNCHANGED <<clock, requests>>

\* apply: the balance that was read plus delta becomes the balance, and the
\* journal row says so.  Here delta and total may stand for two rows.
Apply(t, delta) == /\ rubies' = req[t].balance + delta
                   /\ posted' = posted + delta
                   /\ balanceAfter' = req[t].balance + delta

Locked(t) == req[t].pc = "locked"

Row(r) == rows' = [rows EXCEPT ![r] = @ + 1]

\* Nothing is written: an early return, a refusal (an exception rolls the
\* transaction back), no connection or lock in time, or the process stops.
GiveUp(t) == /\ req[t].pc # "idle"
             /\ req' = [req EXCEPT ![t] = Idle]
             /\ holder' = IF holder = t THEN "nobody" ELSE holder
             /\ UNCHANGED <<profile, journal, clock, requests>>

NextDay == /\ clock < LastDay
           /\ clock' = clock + 1
           /\ UNCHANGED <<profile, journal, holder, req, requests>>

-----------------------------------------------------------------------------
(* Awards. *)

Smaller(a, b) == IF a <= b THEN a ELSE b

\* A row is stamped when it is created, between the call and the commit.
Stamps(t) == req[t].now..clock

\* Journal query of awardTop1: rows created at or after the start of a day.
PostArena(at, amount) ==
    arenaSince' = [d \in DOMAIN arenaSince |->
                      IF d <= at THEN arenaSince[d] + amount ELSE arenaSince[d]]

\* Mutant of AwardArena: the reward is refused at the limit, but not clipped
\* to what is left of it.
AwardArenaUnclipped(t, reward) ==
    /\ Locked(t)
    /\ Smaller(reward, DailyLimit - arenaSince[req[t].now]) > 0
    /\ \E at \in Stamps(t) : PostArena(at, reward)
    /\ Apply(t, reward)
    /\ Commit(t)
    /\ UNCHANGED <<entryBonusAt, premiumAt, owned, teamDay, rows>>

\* awardTop1, and awardCircleWin with the other reward.
AwardArena(t, reward) ==
    LET amount == Smaller(reward, DailyLimit - arenaSince[req[t].now])
    IN  /\ Locked(t)
        /\ amount > 0
        /\ \E at \in Stamps(t) : PostArena(at, amount)
        /\ Apply(t, amount)
        /\ Commit(t)
        /\ UNCHANGED <<entryBonusAt, premiumAt, owned, teamDay, rows>>

\* FlockTeamReward rows since the start of a day (every row has amount > 0).
PaidSince(day, matches) == Cardinality({m \in matches : teamDay[m] >= day})

\* awardTeamWin for the match m.
AwardTeamWin(t, m) ==
    /\ Locked(t)
    /\ teamDay[m] = 0
    /\ PaidSince(req[t].now, Matches) < DailyWinLimit
    /\ m \in BotMatches => PaidSince(req[t].now, BotMatches) < BotOnlyRewardLimit
    /\ \E at \in Stamps(t) : teamDay' = [teamDay EXCEPT ![m] = at]
    /\ Row(m)
    /\ Apply(t, TeamReward)
    /\ Commit(t)
    /\ UNCHANGED <<entryBonusAt, premiumAt, owned, arenaSince>>

\* awardBossKill, and grantStreakInTx in the transaction that closes a day.
AwardFixed(t, amount) ==
    /\ Locked(t)
    /\ amount > 0
    /\ Apply(t, amount)
    /\ Commit(t)
    /\ UNCHANGED <<entryBonusAt, premiumAt, owned, teamDay, arenaSince, rows>>

\* Mutant of ClaimEntryBonus: entryBonusAt is not written.
ClaimEntryBonusUnmarked(t) ==
    /\ Locked(t)
    /\ EntryBonus > 0
    /\ ~entryBonusAt
    /\ Row("entry")
    /\ Apply(t, EntryBonus)
    /\ Commit(t)
    /\ UNCHANGED <<entryBonusAt, premiumAt, owned, teamDay, arenaSince>>

ClaimEntryBonus(t) ==
    /\ Locked(t)
    /\ EntryBonus > 0
    /\ ~entryBonusAt
    /\ entryBonusAt' = TRUE
    /\ Row("entry")
    /\ Apply(t, EntryBonus)
    /\ Commit(t)
    /\ UNCHANGED <<premiumAt, owned, teamDay, arenaSince>>

\* The conditions of claimPremiumCollectionInTx, for the skins in have.
CollectionDue(have) == /\ CollectionReward > 0
                       /\ ~premiumAt
                       /\ Collection # {}
                       /\ Collection \subseteq have

\* claimPremiumCollection, at the entry of a player who owns it all already.
ClaimCollection(t) ==
    /\ Locked(t)
    /\ CollectionDue(owned)
    /\ premiumAt' = TRUE
    /\ Row("collection")
    /\ Apply(t, CollectionReward)
    /\ Commit(t)
    /\ UNCHANGED <<entryBonusAt, owned, teamDay, arenaSince>>

-----------------------------------------------------------------------------
(* Purchases and the admin's operations. *)

\* buySkin, when the collection reward is not due.
BuySkin(t, s) ==
    /\ Locked(t)
    /\ s \in Sellable \ owned
    /\ req[t].balance >= Price[s]
    /\ ~(s \in Collection /\ CollectionDue(owned \cup {s}))
    /\ owned' = owned \cup {s}
    /\ Row(s)
    /\ Apply(t, -Price[s])
    /\ Commit(t)
    /\ UNCHANGED <<entryBonusAt, premiumAt, teamDay, arenaSince>>

\* Mutant of BuyLastSkin: the reward is added to the balance read at the
\* beginning of the transaction, not to the balance after the purchase.
BuyLastSkinStale(t, s) ==
    /\ Locked(t)
    /\ s \in Collection \ owned
    /\ req[t].balance >= Price[s]
    /\ CollectionDue(owned \cup {s})
    /\ owned' = owned \cup {s}
    /\ premiumAt' = TRUE
    /\ rows' = [rows EXCEPT ![s] = @ + 1, !["collection"] = @ + 1]
    /\ rubies' = req[t].balance + CollectionReward
    /\ posted' = posted - Price[s] + CollectionReward
    /\ balanceAfter' = req[t].balance + CollectionReward
    /\ Commit(t)
    /\ UNCHANGED <<entryBonusAt, teamDay, arenaSince>>

\* buySkin of the last skin of the collection: the reward is claimed in the
\* same transaction, so two rows are written.
BuyLastSkin(t, s) ==
    /\ Locked(t)
    /\ s \in Collection \ owned
    /\ req[t].balance >= Price[s]
    /\ CollectionDue(owned \cup {s})
    /\ owned' = owned \cup {s}
    /\ premiumAt' = TRUE
    /\ rows' = [rows EXCEPT ![s] = @ + 1, !["collection"] = @ + 1]
    /\ Apply(t, CollectionReward - Price[s])
    /\ Commit(t)
    /\ UNCHANGED <<entryBonusAt, teamDay, arenaSince>>

BuyArtifact(t, a) ==
    /\ Locked(t)
    /\ a \in Artifacts \ owned
    /\ req[t].balance >= Price[a]
    /\ owned' = owned \cup {a}
    /\ Row(a)
    /\ Apply(t, -Price[a])
    /\ Commit(t)
    /\ UNCHANGED <<entryBonusAt, premiumAt, teamDay, arenaSince>>

\* adminGrantSkin and adminGrantArtifact: a purchase for nothing, and a row
\* with delta 0.
AdminGrant(t, i) ==
    /\ Locked(t)
    /\ i \in Items \ owned
    /\ owned' = owned \cup {i}
    /\ Row(i)
    /\ Apply(t, 0)
    /\ Commit(t)
    /\ UNCHANGED <<entryBonusAt, premiumAt, teamDay, arenaSince>>

AdminAdjust(t, delta) ==
    /\ Locked(t)
    /\ req[t].balance + delta >= 0
    /\ Apply(t, delta)
    /\ Commit(t)
    /\ UNCHANGED <<entryBonusAt, premiumAt, owned, teamDay, arenaSince, rows>>

-----------------------------------------------------------------------------
Award(t) == \/ AwardArena(t, Top1Reward)
            \/ AwardArena(t, CircleReward)
            \/ \E m \in Matches : AwardTeamWin(t, m)
            \/ \E amount \in StreakRewards \cup {BossKillReward} :
                  AwardFixed(t, amount)
            \/ ClaimEntryBonus(t)
            \/ ClaimCollection(t)

Trade(t) == \/ \E s \in Sellable : BuySkin(t, s) \/ BuyLastSkin(t, s)
            \/ \E a \in Artifacts : BuyArtifact(t, a)
            \/ \E i \in Items : AdminGrant(t, i)
            \/ \E delta \in Adjustments : AdminAdjust(t, delta)

Next == \/ \E t \in Reqs : Call(t) \/ Lock(t) \/ GiveUp(t) \/ Award(t) \/ Trade(t)
        \/ NextDay

Spec == Init /\ [][Next]_vars

-----------------------------------------------------------------------------
(* Properties. *)

\* The balance is what the journal adds up to, and what its latest row says,
\* whatever requests ran side by side ("the balance changes only together with
\* a row of the journal", prisma/schema.prisma).
JournalExplainsBalance == rubies = posted /\ rubies = balanceAfter

\* On no day, by the stamps of the rows, does the arena pay more than the
\* daily limit, not even for a request called before midnight and written
\* after it.
ArenaPaid(d) == arenaSince[d] - arenaSince[d + 1]
ArenaDailyLimit == \A d \in Days : ArenaPaid(d) <= DailyLimit

\* Castles victories paid on one day stay within both limits.
TeamPaid(d, matches) == Cardinality({m \in matches : teamDay[m] = d})
TeamDailyLimits == \A d \in Days : /\ TeamPaid(d, Matches) <= DailyWinLimit
                                   /\ TeamPaid(d, BotMatches) <= BotOnlyRewardLimit

\* The limits of a day hold together, whatever requests straddle its end.
DailyLimits == ArenaDailyLimit /\ TeamDailyLimits

\* What can be paid, claimed or acquired once has one row in the journal, and
\* the profile knows of it; what has not happened has none.
OneRowEach == /\ \A i \in Items : rows[i] = IF i \in owned THEN 1 ELSE 0
              /\ \A m \in Matches : rows[m] = IF teamDay[m] # 0 THEN 1 ELSE 0
              /\ rows["entry"] = IF entryBonusAt THEN 1 ELSE 0
              /\ rows["collection"] = IF premiumAt THEN 1 ELSE 0

\* The transactions together behave like the wallet's indivisible steps.
Claimed == (IF entryBonusAt THEN {"entry"} ELSE {})
           \cup (IF premiumAt THEN {"collection"} ELSE {})
OnceRewards == [r \in {"entry", "collection"} |->
                   IF r = "entry" THEN EntryBonus ELSE CollectionReward]

W == INSTANCE Wallet WITH Once <- OnceRewards,
                          balance <- rubies, claimed <- Claimed
ImplementsWallet == W!WalletSpec
=============================================================================
