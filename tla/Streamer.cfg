CONSTANTS
  p1 = p1
  p2 = p2
  w1 = w1
  w2 = w2
  Submitters <- MCSubmitters
  Workers <- MCWorkers
  Plans <- MCPlans
  MaxRanges = 2
  MaxSubmissions = 2
  MaxThrows = 1
  MaxLost = 1
  BlockBytes = 2
SPECIFICATION FairSpec
INVARIANTS RunningIsOwed AssertsHold AnswersHonest
PROPERTIES KeepsContract Completes TeardownEnds
