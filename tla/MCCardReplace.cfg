SPECIFICATION Spec

CONSTANTS
  Links = {l1, l2}
  Requests = {r1, r2}
  Sheets = {good, unfit}
  Unfit = {unfit}
  Broken = broken

SYMMETRY Symmetry
INVARIANT TypeOK
INVARIANT FileMatchesRow
PROPERTY UploadInstallsOnce
