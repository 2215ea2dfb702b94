SPECIFICATION Spec
CONSTANTS
  Numbers = {0, 1}
  None = None
  Blank = Blank
  Foreign <- NoFiles
  MaxId = 3
  MaxAsked = 2
  MaxFiles = 1
INVARIANT
  RowsAreTheirs
  RequestsAreTheirs
