SPECIFICATION Spec

CONSTANTS
  Messages = 3
  Gaps = 2
  PageSize = 2
  Whitelisted = FALSE
  MaxLogins = 1
  Restarts = FALSE
  Administrators = {"repair"}
  MaxArchivals = 0

INVARIANT RepairedIsComplete
INVARIANT OneOpenGap
