SPECIFICATION Spec
CONSTANTS
  a = a
  b = b
  serial = serial
  Titles = {show, serial}
  Seasons = {0, 1, 2}
  Numbers = {1, 2}
  Ids = {a, b}
  NoId = NoId
  Unknown = Unknown
  HomeLimit = 1
  Summaries <- MCSummaries
  Answers <- MCAnswers
CONSTRAINT Neighbour
INVARIANT TablesAreSound
INVARIANT ScreensAgree
PROPERTY AnnouncedIsNew
PROPERTY PersonalOutlives
