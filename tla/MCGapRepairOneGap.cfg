SPECIFICATION Spec

CONSTANTS
  Messages = 4
  Gaps = 1
  PageSize = 2
  Whitelisted = TRUE
  MaxLogins = 2
  Restarts = TRUE
  Administrators = {"report", "repair"}
  MaxArchivals = 0

INVARIANT TypeOK
INVARIANT RepairedIsComplete
INVARIANT OnlyCancelledIsLeft
PROPERTY AcceptanceHolds
PROPERTY CancelledStays
