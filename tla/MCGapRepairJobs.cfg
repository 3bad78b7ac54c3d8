SPECIFICATION FairSpec

CONSTANTS
  Messages = 3
  Gaps = 2
  PageSize = 2
  Whitelisted = TRUE
  MaxLogins = 2
  Restarts = FALSE
  Administrators = {}
  MaxArchivals = 2

PROPERTY JobEnds
