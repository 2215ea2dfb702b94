SPECIFICATION FairSpec
CONSTANTS
  dune = dune
  solaris = solaris
  Ids = {dune, solaris}
  Queries = {q1, q2}
  Blank = Blank
  Tokens = {t1, t2}
  NoToken = NoToken
  None = None
  Answers <- MCAnswers
  MaxPage = 2
  MaxGeneration = 3
INVARIANT CurrentSearchOnly
INVARIANT ListedOnce
INVARIANT WaitsForSomething
INVARIANT NoResultsIsTrue
INVARIANT BadgesAreTrue
PROPERTY ChoiceStays
PROPERTY SearchEnds
CHECK_DEADLOCK FALSE
