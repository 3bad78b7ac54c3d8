SPECIFICATION Spec

CONSTANTS
  Accounts = {a, b}
  First = a
  Switches = {s1, s2}
  Calls = {c1, c2}
  None = none
  Stale = 0
  Cooldown = 0
  Day = 2
  Failures = 1
  MaxTime = 3

SYMMETRY Symmetry
INVARIANT TypeOK
INVARIANT OneOpenSwitch
INVARIANT OneActiveAccount
INVARIANT FailuresLimited
PROPERTY ActivatedIsConfigured
PROPERTY HostMovesOnlyOpen
