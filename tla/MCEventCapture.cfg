SPECIFICATION Spec

CONSTANTS
  Messages = 2
  PageSize = 1
  Connections = 2
  Heartbeats = 1
  Crashes = 1
  Outages = 1

CHECK_DEADLOCK FALSE
INVARIANT TypeOK
INVARIANT MissedIsCovered
INVARIANT OneLiveSession
INVARIANT LastConnectionHasSession
