----------------------------- MODULE DailyStreak -----------------------------
(***************************************************************************)
(* The records of the day and the streak of days in first place            *)
(* (backend/src/flock/flock.daily.service.ts): records come from the arena *)
(* through a map of what was written already; every minute a sweep closes  *)
(* the days that are over, names their winners and pays them.  Days are    *)
(* numbered; the time within a day does not matter.                        *)
(***************************************************************************)
EXTENDS Integers, Sequences, FiniteSets, FiniteSetsExt

CONSTANTS Users,
          Servers,     \* processes that sweep: one, or two while deploying
          Rewards,     \* streakRewards
          MinMass,     \* minMass
          MaxMass,     \* bound on the masses
          KeepDays,    \* keepDays
          MaxCatchUp,  \* MAX_CATCH_UP
          EndDay,      \* bound on the days
          Nobody,      \* the winner of a day without one; an open day
          MaxRecords,  \* bound on the calls of recordMass
          MaxFaults    \* bound on the failures of the database, and restarts

ASSUME StreakAssumption ==
    /\ Rewards \in Seq(Nat \ {0}) /\ Rewards # <<>>
    /\ MaxMass \in Nat /\ MinMass \in 1..MaxMass
    /\ KeepDays \in Nat \ {0} /\ MaxCatchUp \in Nat /\ MaxCatchUp >= KeepDays
    /\ EndDay \in Nat \ {0, 1}
    /\ MaxRecords \in Nat /\ MaxFaults \in Nat
    /\ Nobody \notin Users

VARIABLES today,
          rec,      \* FlockDailyRecord: maxMass (0: no row) and updatedAt
          winner,   \* FlockDayWinner: the winner of each closed day
          closed,   \* the days that have such a row
          streak,   \* FlockStreak
          won,      \* the rubies each player was paid for streaks
          granted,  \* the same in the journal, whose note names the day
          shown,    \* those the player has been told of
          cleaning, \* claimStreakAward between its two statements
          written,  \* this.written
          pend,     \* the inserts of recordMass in flight
          sweep,    \* closePendingDays of each server
          calls, faults

results == <<winner, closed, won, granted>>
streakVars == <<today, rec, results, streak, shown, cleaning, written, pend, sweep,
                calls, faults>>

AllDays == 1..EndDay
Cycle == Len(Rewards)
NoRecord == [mass |-> 0, at |-> 0]
NoRow == [days |-> 0, last |-> 0, pending |-> 0, row |-> FALSE]
NoSweep == [day |-> 0, until |-> 0, left |-> 0]
Unwritten == [day |-> 0, mass |-> 0]

StreakTypes ==
    /\ today \in AllDays
    /\ rec \in [AllDays -> [Users -> [mass : 0..MaxMass, at : Nat]]]
    /\ winner \in [AllDays -> Users \cup {Nobody}]
    /\ closed \subseteq AllDays
    /\ streak \in [Users -> [days : 0..(Cycle - 1), last : 0..EndDay,
                             pending : Nat, row : BOOLEAN]]
    /\ won \in [Users -> Nat] /\ shown \in [Users -> Nat]
    /\ granted \in [Users -> [AllDays -> Nat]]
    /\ cleaning \subseteq Users
    /\ written \in [Users -> [day : 0..EndDay, mass : 0..MaxMass]]
    /\ pend \subseteq [day : AllDays, user : Users, mass : 1..MaxMass]
    /\ sweep \in [Servers -> [day : 0..(EndDay + 1), until : 0..EndDay,
                              left : 0..MaxCatchUp]]
    /\ calls \in 0..MaxRecords /\ faults \in 0..MaxFaults

\* The first day was closed, without a winner, before the behaviour starts.
StreakInit ==
    /\ today = 2
    /\ rec = [d \in AllDays |-> [u \in Users |-> NoRecord]]
    /\ winner = [d \in AllDays |-> Nobody] /\ closed = {1}
    /\ streak = [u \in Users |-> NoRow]
    /\ won = [u \in Users |-> 0] /\ shown = [u \in Users |-> 0]
    /\ granted = [u \in Users |-> [d \in AllDays |-> 0]]
    /\ cleaning = {}
    /\ written = [u \in Users |-> Unwritten]
    /\ pend = {}
    /\ sweep = [s \in Servers |-> NoSweep]
    /\ calls = 0 /\ faults = 0

-----------------------------------------------------------------------------
(* recordMass                                                              *)

\* A result of the arena.  One that is no better than what was written, or is
\* being written, goes no further.
Record(u, m) ==
    /\ calls < MaxRecords
    /\ calls' = calls + 1
    /\ ~(written[u].day = today /\ written[u].mass >= m)
    /\ written' = [written EXCEPT ![u] = [day |-> today, mass |-> m]]
    /\ pend' = pend \cup {[day |-> today, user |-> u, mass |-> m]}
    /\ UNCHANGED <<today, rec, results, streak, shown, cleaning, sweep, faults>>

\* The row is inserted, or replaced by the better result, which makes it the
\* latest of the day; a row that is better already stays.
Put(rows, r) ==
    IF rows[r.user].mass >= r.mass THEN rows
    ELSE [rows EXCEPT ![r.user] =
             [mass |-> r.mass, at |-> 1 + Max({rows[u].at : u \in Users})]]

RecordWritten(r) ==
    /\ rec' = [rec EXCEPT ![r.day] = Put(@, r)]
    /\ pend' = pend \ {r}
    /\ UNCHANGED <<today, results, streak, shown, cleaning, written, sweep, calls,
                   faults>>

\* Mutant of RecordFails: the result counts as written all the same.
RecordLost(r) ==
    /\ faults < MaxFaults
    /\ faults' = faults + 1
    /\ pend' = pend \ {r}
    /\ UNCHANGED <<today, rec, results, streak, shown, cleaning, written, sweep,
                   calls>>

\* The insert fails: what was noted about the user is forgotten.
RecordFails(r) ==
    /\ faults < MaxFaults
    /\ faults' = faults + 1
    /\ pend' = pend \ {r}
    /\ written' = [written EXCEPT ![r.user] = Unwritten]
    /\ UNCHANGED <<today, rec, results, streak, shown, cleaning, sweep, calls>>

-----------------------------------------------------------------------------
(* closePendingDays and closeDay                                           *)

\* Mutant of Sweep: only yesterday is looked at.
SweepYesterday(s) ==
    /\ sweep[s] = NoSweep
    /\ sweep' = [sweep EXCEPT ![s] = [day |-> today - 1,
                                      until |-> today - 1, left |-> MaxCatchUp]]
    /\ UNCHANGED <<today, rec, results, streak, shown, cleaning, written, pend,
                   calls, faults>>

\* The days to close: from the one after the last closed to yesterday.
Sweep(s) ==
    /\ sweep[s] = NoSweep
    /\ sweep' = [sweep EXCEPT ![s] = [day |-> Max(closed) + 1,
                                      until |-> today - 1, left |-> MaxCatchUp]]
    /\ UNCHANGED <<today, rec, results, streak, shown, cleaning, written, pend,
                   calls, faults>>

\* The best of the day, the earlier one among equals; none below MinMass.
Tops(d) == {u \in Users :
              /\ rec[d][u].mass >= MinMass
              /\ \A v \in Users :
                    \/ rec[d][v].mass < rec[d][u].mass
                    \/ rec[d][v].mass = rec[d][u].mass /\ rec[d][v].at >= rec[d][u].at}
TopOf(d) == IF Tops(d) = {} THEN Nobody ELSE CHOOSE u \in Tops(d) : TRUE

\* Rows with nothing left in them are deleted.
Kept(row) == IF row.days = 0 /\ row.pending = 0 THEN NoRow ELSE row

\* The day of the streak that d is for its winner u, and what it pays.
StreakDay(u, d) ==
    ((IF streak[u].row /\ streak[u].last = d - 1 THEN streak[u].days ELSE 0) % Cycle)
    + 1
DayReward(u, d) == Rewards[StreakDay(u, d)]

\* Mutant of Streaks: the streaks of the others are not broken.
StreaksUnbroken(d) ==
    [u \in Users |->
        IF u = TopOf(d)
        THEN Kept([days |-> StreakDay(u, d) % Cycle, last |-> d, row |-> TRUE,
                   pending |-> streak[u].pending + DayReward(u, d)])
        ELSE Kept(streak[u])]

\* Mutant of Streaks: the reward takes the place of one not shown yet.
StreaksOverwritten(d) ==
    [u \in Users |->
        IF u = TopOf(d)
        THEN Kept([days |-> StreakDay(u, d) % Cycle, last |-> d, row |-> TRUE,
                   pending |-> DayReward(u, d)])
        ELSE Kept([streak[u] EXCEPT !.days = 0])]

\* The streaks after the day d: that of its winner goes on, or starts again
\* after the last reward, and those of the others end.
Streaks(d) ==
    [u \in Users |->
        IF u = TopOf(d)
        THEN Kept([days |-> StreakDay(u, d) % Cycle, last |-> d, row |-> TRUE,
                   pending |-> streak[u].pending + DayReward(u, d)])
        ELSE Kept([streak[u] EXCEPT !.days = 0])]

\* The winner u of the day is paid: the profile and the journal in one.
Grant(u, d) ==
    /\ won' = [won EXCEPT ![u] = @ + DayReward(u, d)]
    /\ granted' = [granted EXCEPT ![u][d] = @ + DayReward(u, d)]

\* Mutant of Pays: whoever closes the day, the winner is paid.
PaysAgain(d) ==
    IF TopOf(d) = Nobody THEN UNCHANGED <<won, granted>> ELSE Grant(TopOf(d), d)

\* The winner of the day is paid once, by the first to close the day.
Pays(d) ==
    IF TopOf(d) = Nobody \/ d \in closed THEN UNCHANGED <<won, granted>>
    ELSE Grant(TopOf(d), d)

\* Days are left to close.
More(s) == /\ sweep[s] # NoSweep /\ sweep[s].left > 0
           /\ sweep[s].day <= sweep[s].until

\* The next day, in one transaction under a lock; if it is closed already,
\* nothing happens to it.
CloseDay(s) ==
    LET d == sweep[s].day IN
    /\ More(s)
    /\ Pays(d)
    /\ closed' = closed \cup {d}
    /\ winner' = [winner EXCEPT ![d] = IF d \in closed THEN @ ELSE TopOf(d)]
    /\ streak' = IF d \in closed THEN streak ELSE Streaks(d)
    /\ sweep' = [sweep EXCEPT ![s] = [day |-> d + 1, until |-> @.until,
                                      left |-> @.left - 1]]
    /\ UNCHANGED <<today, rec, shown, cleaning, written, pend, calls, faults>>

\* The database fails, whatever the sweep was to do next: it is over.
SweepFails(s) ==
    /\ sweep[s] # NoSweep /\ faults < MaxFaults
    /\ faults' = faults + 1
    /\ sweep' = [sweep EXCEPT ![s] = NoSweep]
    /\ UNCHANGED <<today, rec, results, streak, shown, cleaning, written, pend, calls>>

\* The records of before the day d are deleted.
Delete(d) ==
    rec' = [e \in AllDays |-> IF e < d THEN [u \in Users |-> NoRecord] ELSE rec[e]]

\* Mutant of SweepEnd: the records of the day before go too.
SweepEndAll(s) ==
    /\ sweep[s] # NoSweep /\ ~More(s)
    /\ Delete(sweep[s].until + 1)
    /\ sweep' = [sweep EXCEPT ![s] = NoSweep]
    /\ UNCHANGED <<today, results, streak, shown, cleaning, written, pend, calls,
                   faults>>

\* The sweep ends with the deletion of the old records.
SweepEnd(s) ==
    /\ sweep[s] # NoSweep /\ ~More(s)
    /\ Delete(sweep[s].until + 1 - KeepDays)
    /\ sweep' = [sweep EXCEPT ![s] = NoSweep]
    /\ UNCHANGED <<today, results, streak, shown, cleaning, written, pend, calls,
                   faults>>

-----------------------------------------------------------------------------
(* claimStreakAward                                                        *)

\* What the player was not told of yet is returned, and set to zero.
Claim(u) ==
    /\ streak[u].row /\ streak[u].pending > 0
    /\ shown' = [shown EXCEPT ![u] = @ + streak[u].pending]
    /\ streak' = [streak EXCEPT ![u].pending = 0]
    /\ cleaning' = cleaning \cup {u}
    /\ UNCHANGED <<today, rec, results, written, pend, sweep, calls, faults>>

\* A row with nothing left in it is deleted, by a statement of its own.
ClaimClean(u) ==
    /\ u \in cleaning
    /\ cleaning' = cleaning \ {u}
    /\ streak' = [streak EXCEPT ![u] = Kept(@)]
    /\ UNCHANGED <<today, rec, results, shown, written, pend, sweep, calls, faults>>

-----------------------------------------------------------------------------
\* Bound: the sweep is never so many days behind that it deletes what it has not
\* closed; it would have to fail for 70 days on end.
Tick == /\ today < EndDay
        /\ today <= Max(closed) + MaxCatchUp + KeepDays
        /\ today' = today + 1
        /\ UNCHANGED <<rec, results, streak, shown, cleaning, written, pend, sweep,
                       calls, faults>>

\* The server of the arena starts again; an insert that was in flight is lost.
Restart == /\ faults < MaxFaults
           /\ faults' = faults + 1
           /\ written' = [u \in Users |-> Unwritten]
           /\ pend' = {} /\ cleaning' = {}
           /\ sweep' = [s \in Servers |-> NoSweep]
           /\ UNCHANGED <<today, rec, results, streak, shown, calls>>

StreakNext ==
    \/ \E u \in Users, m \in 1..MaxMass : Record(u, m)
    \/ \E r \in pend : RecordWritten(r) \/ RecordFails(r)
    \/ \E s \in Servers : Sweep(s) \/ CloseDay(s) \/ SweepFails(s) \/ SweepEnd(s)
    \/ \E u \in Users : Claim(u) \/ ClaimClean(u)
    \/ Tick \/ Restart

StreakSpec == StreakInit /\ [][StreakNext]_streakVars

\* The timer of the sweep fires every minute, and the database answers.
FairStreaks ==
    /\ StreakSpec
    /\ \A s \in Servers : /\ WF_streakVars(Sweep(s)) /\ WF_streakVars(CloseDay(s))
                          /\ WF_streakVars(SweepEnd(s))

-----------------------------------------------------------------------------
(* Properties                                                              *)

\* The length of the run of days in first place that ends for u on day d.
RunAt(u, d) ==
    Cardinality({k \in 1..d : \A e \in k..d : e \in closed /\ winner[e] = u})

\* Rubies are paid for the days in first place and for nothing else, once for
\* each and by the place of the day in its run, however many servers close days,
\* fail and start again (closeDay is called again for a day that is closed).
PaidIsEarned ==
    \A u \in Users, d \in AllDays :
        granted[u][d] = IF d \in closed /\ winner[d] = u
                        THEN Rewards[((RunAt(u, d) - 1) % Cycle) + 1] ELSE 0

\* No day is skipped, and a player has a streak only by having won the last day
\* that is closed; the streak is the place of that day in the cycle.
StreakIsRun ==
    /\ closed = 1..Max(closed)
    /\ \A u \in Users :
          streak[u].days = IF winner[Max(closed)] = u
                           THEN RunAt(u, Max(closed)) % Cycle ELSE 0

\* The player is told of each ruby of the streak exactly once: what was paid is
\* what was shown or waits to be shown (pendingAward and the deletion of rows).
ToldOnce == \A u \in Users : won[u] = shown[u] + streak[u].pending

\* A result that recordMass refuses to write, for having written it, is in the
\* database or on its way to it, whatever failed before.
WrittenIsTrue ==
    \A u \in Users : written[u].day = today =>
        \/ rec[today][u].mass >= written[u].mass
        \/ \E r \in pend : /\ r.user = u /\ r.day = today
                           /\ r.mass >= written[u].mass

\* The records of a day are there until the day is closed: while a record of an
\* open day was written, the day does not end without a winner.
RecordsWaitForClosing ==
    [][\A d \in AllDays \ closed, u \in Users :
          rec'[d][u].mass >= rec[d][u].mass]_streakVars

\* Every day that is over is closed in the end.
DaysGetClosed == \A d \in AllDays : d < today ~> d \in closed

=============================================================================
