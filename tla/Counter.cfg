SPECIFICATION FairSpec
CONSTANTS
  p1 = p1  p2 = p2
  MaxTask = 2
  Inputs <- SomeInputs
  Malformed = Malformed
  Pods = {p1, p2}
  NoPod = NoPod
  MaxReruns = 2
  MaxFaults = 1
INVARIANT TypeOK
INVARIANT ChainIsSimple
PROPERTY CountsUp
PROPERTY LostStaysLost
PROPERTY ChainReachesLimit
CHECK_DEADLOCK FALSE
