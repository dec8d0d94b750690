SPECIFICATION Spec
CONSTANTS
  p1 = p1
  p2 = p2
  w1 = w1
  w2 = w2
  Posts <- TwoPosts
  Workers <- TwoWorkers
  Limit = 1
  TTL = 1
  MaxAttempts = 2
  Dates = {2, 3}
  MaxEdits = 1
  MaxTime = 2
  MaxFaults = 1
SYMMETRY Symmetry
INVARIANT TypeOK
INVARIANT NothingSkipped
INVARIANT RepeatsExplained
PROPERTY KeepsPromise
