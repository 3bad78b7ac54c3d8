SPECIFICATION Spec

CONSTANTS
  Links = {l1, l2, l3}
  Pages = {p1}
  Departures = {"kick_me"}
  MaxWire = 1

SYMMETRY Symmetry
INVARIANT TypeOK
INVARIANT ArchivedIsQuiet
INVARIANT ManualArchiveStands
INVARIANT ReturnEndsArchive
