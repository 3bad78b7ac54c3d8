SPECIFICATION Spec

CONSTANTS
  Messages = 5
  Gaps = 2
  PageSize = 2
  Whitelisted = TRUE
  MaxLogins = 1
  Restarts = FALSE
  Administrators = {}
  MaxArchivals = 0

INVARIANT RepairedIsComplete
