SPECIFICATION Spec
CONSTANTS
  series = series
  movie = movie
  NoToken = NoToken
  Titles = {series, movie}
  Tokens = {t1, t2}
  SeasonsOf <- OneSeason
  Gone <- NothingGone
  Faults = {"offline", "limited", "database"}
  Environment = {"switch", "token", "revoke", "library", "manual"}
  Limit = 1
  Pause = 1
  RatePause = 2
  Cycle = 2
  FreshFor = 1
  MaxTimers = 2
INVARIANT OneAutomaticRequest
INVARIANT AskedOncePerCycle
INVARIANT QuietWhilePaused
