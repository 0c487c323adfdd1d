SPECIFICATION FairSpec
CONSTANTS
  c1 = c1
  c2 = c2
  c3 = c3
  NoClient = NoClient
  Forever = Forever
  Client <- Calls
  Patience <- Patiences
  CanCrash <- Crashing
INVARIANTS TypeOK MutexUnlessElapsed
PROPERTIES EventuallyAnswered ImplementsLease
CHECK_DEADLOCK FALSE
