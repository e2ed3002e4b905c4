SPECIFICATION FairSpec
CONSTANTS
  a1 = a1
  a2 = a2
  login = login
  Article = {a1, a2}
  Setting <- TwoServers
  MaxFaults = 1
  MaxRestarts = 1
INVARIANTS OneReader RightArticle MissingIsMissing
PROPERTIES ServiceSpec CommandsEnd
CHECK_DEADLOCK FALSE
