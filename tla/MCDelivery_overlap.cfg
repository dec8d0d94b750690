\* The user task and the repository task of one commit at the same time.
CONSTANTS
  u1 = u1  r1 = r1  r2 = r2  i1 = i1  c1 = c1  c2 = c2  c3 = c3  None = None
  Users <- OneUser
  Repos <- OneRepo
  Insts = {}
  Commits <- TwoCommits
  Workers = {w1, w2}
  RepoOf <- BothInR1
  PushedBy <- PushedByU1
  LinkOf <- Direct
  Signal <- TwoCommits
  TTL = 3
  PageCap = 2
  MaxAttempts = 2
  MaxSkew = 0
  MaxTime = 2
  MaxFaults = 0
SPECIFICATION Spec
INVARIANT ReportedOnce
