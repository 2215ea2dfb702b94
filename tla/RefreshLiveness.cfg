SPECIFICATION FairSpec
CONSTANTS
  series = series
  movie = movie
  NoToken = NoToken
  Titles = {series, movie}
  Tokens = {t1}
  SeasonsOf <- OneSeason
  Gone <- MovieGone
  Faults = {"offline", "limited"}
  Environment = {"switch", "token", "revoke", "manual"}
  Limit = 1
  Pause = 1
  RatePause = 2
  Cycle = 2
  FreshFor = 2
  MaxTimers = 2
INVARIANT ChecksGoOn
PROPERTY CycleEnds
PROPERTY StaleIsRefreshed
