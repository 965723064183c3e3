SPECIFICATION FairStreaks
CONSTANTS
    Users = {u1, u2}
    Servers = {s1, s2}
    Rewards <- MCRewards
    MinMass = 1
    MaxMass = 1
    KeepDays = 1
    MaxCatchUp = 1
    EndDay = 4
    Nobody = Nobody
    MaxRecords = 3
    MaxFaults = 1
CHECK_DEADLOCK FALSE
INVARIANTS PaidIsEarned StreakIsRun ToldOnce WrittenIsTrue
PROPERTIES RecordsWaitForClosing DaysGetClosed
