SPECIFICATION Spec
CONSTANTS
  Reqs = {t1, t2}
  Skins = {s1, s2, s3}
  Sellable = {s1, s2}
  Collection = {s1, s2}
  Artifacts = {a1}
  Price <- MCPrice
  Matches = {m1, m2, m3}
  BotMatches = {m1, m2}
  LastDay = 2
  MaxRequests = 6
  Top1Reward = 3
  CircleReward = 2
  DailyLimit = 4
  TeamReward = 2
  DailyWinLimit = 2
  BotOnlyRewardLimit = 1
  BossKillReward = 1
  StreakRewards = {3}
  EntryBonus = 2
  CollectionReward = 5
  Adjustments <- MCAdjustments
SYMMETRY Symmetry
INVARIANTS
  JournalExplainsBalance
  DailyLimits
  OneRowEach
PROPERTIES
  ImplementsWallet
CHECK_DEADLOCK FALSE
