SPECIFICATION Spec
CONSTANTS
  Numbers = {1, 2}
  None = None
  Blank = Blank
  Foreign <- OtherFiles
  MaxId = 2
  MaxAsked = 1
  MaxFiles = 1
INVARIANT
  RowsAreTheirs
