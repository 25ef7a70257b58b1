CONSTANTS
  t1 = t1
  t2 = t2
  r1 = r1
  r2 = r2
  r3 = r3
  Threads <- MCThreads
  Requests <- MCRequests
SPECIFICATION FairSpec
INVARIANTS TokensMatch OnePlace WakesEveryone
PROPERTIES StopJoins PushedIsRun
