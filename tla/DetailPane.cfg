SPECIFICATION Spec
CONSTANTS
  Series = {show}
  Movies = {film}
  Numbers = {0, 1}
  None = None
  MaxWeek = 1
  Failing = {"title"}
  MaxGeneration = 3
  MaxOpen = 2
INVARIANT RefreshingIsTrue
INVARIANT PaneIsSound
PROPERTY CoverageStays
