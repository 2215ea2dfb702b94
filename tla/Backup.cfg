SPECIFICATION BackupSpec
CONSTANTS
  Text <- MCText
  Blank = ""
  Dates = {"2026-01-01"}
  Sources = {"tmdb", "x"}
  Tmdb = "tmdb"
  Numerals = {"7", "8"}
  Stamps = {0, 1}
  Format = "bingee"
  App = "8"
  Now = 1
  MaxSize = 17
  None = None
  Libraries <- MCLibraries
  Values <- MCValues
  MaxAltered = 2
INVARIANT BackupsRestore
INVARIANT CheckedIsTaken
