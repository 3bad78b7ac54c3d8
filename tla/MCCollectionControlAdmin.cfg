SPECIFICATION Spec

CONSTANTS
  Admins <- OneAdmin
  Quiet = 2
  MaxRestarts = 0

INVARIANT TypeOK
PROPERTY StableRecovery
