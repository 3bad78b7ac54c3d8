SPECIFICATION FairSpec

CONSTANTS
  Admins <- NoAdmin
  Quiet = 2
  MaxRestarts = 1

INVARIANT OfflineIsPausedAndCovered
INVARIANT ConfigurationPauseIsCovered
PROPERTY PauseEndsWhenOnline
PROPERTY GapsCloseWhenOnline
