\* What the release notes say of grenades in the price overview.
INIT StatsInit
NEXT StatsNext
CONSTANTS
  Calibers = {"g40"}
  NoGrenade = "none"
  EmptyField = EmptyField
  StatLevels = {0, 1}
  MaxRefreshes = 1
  MaxWired = 1
  MaxStatActs = 6
\* The page waits for the user and the server.
CHECK_DEADLOCK FALSE
INVARIANT
  GrenadeIsPriced
