SPECIFICATION Spec

CONSTANTS
  MaxAttribute = 2
  Items <- MCItems
  Absent = absent
  Notes = {"n1", "n2"}
  Turns <- MCTurns
  Sheets <- MCSheets
  MaxVersion = 6

INVARIANT TypeOK
PROPERTY VersionNamesOneContent
PROPERTY UndoRestores
CHECK_DEADLOCK FALSE
