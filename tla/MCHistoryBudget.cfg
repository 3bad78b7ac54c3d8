SPECIFICATION Spec
CONSTANTS
  Refreshers = {r1}
  RefreshGroup <- SameGroup
  Interval = 2
  Window = 4
  Limit = 2
  Retention = 4
  Cooldown = 2
  Timeout = 1
  LockWait = 2
  LegacyTimes <- MCLegacy
  ClockSteps = TRUE
  Horizon = 5
INVARIANTS
  TypeOK
  Spacing
  WindowLimit
  PromiseKept
  SentIsPaid
PROPERTY BudgetIsRollingWindow
