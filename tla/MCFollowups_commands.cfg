CONSTANTS
  i1 = i1  w1 = w1  w2 = w2  v1 = v1  v2 = v2
  None = None  Gone = Gone  Failed = Failed  Hint = Hint  Unreachable = Unreachable
  Interactions = {i1}
  Clients <- TwoWorkers
  Versions <- TwoVersions
  MaxRetries = 1
  MaxChanges = 1
  MaxAttempts = 4
  MaxFaults = 2
SPECIFICATION FairSpec
CHECK_DEADLOCK FALSE
INVARIANT TypeOK
INVARIANT FetchCurrent
INVARIANT TaskBehindDeferral
INVARIANT AnswersTrue
PROPERTY EventuallyAnswered
