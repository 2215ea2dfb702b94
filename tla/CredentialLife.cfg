SPECIFICATION FairSpec
CONSTANTS
  Tokens = {t1, t2}
  NoToken = NoToken
  Slots = {1, 2}
  MaxSessions = 2
INVARIANT BusyHasReason
INVARIANT StatusAgrees
INVARIANT KeptWasAccepted
PROPERTY BusyEnds
