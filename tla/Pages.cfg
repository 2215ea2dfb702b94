SPECIFICATION Spec
CONSTANTS
  movie = movie
  show = show
  Movies = {movie}
  Series = {show}
  Episodes <- MCEpisodes
  draft = draft
  final = final
  Given <- MCGiven
  Texts = {draft, final}
  Genres <- MCGenres
  None = None
  Gone = Gone
  Ranges <- MCRanges
  MaxBars = 100
  MaxTime = 1
  MaxEvents = 2
  Order <- MCOrder
  Searches <- MCSearches
  HistoryLimit = 2
  HomeLimit = 1
  Aired <- MCAired
  MonthDays = 1
  SoonDays = 1
  Months = {0, 1}
  Days = {0, 1}
  QuietEvents = 1
INVARIANT PagesAreCurrent
INVARIANT PaneIsChosen
INVARIANT StatisticsAgree
PROPERTY HistoryStays
