\* Liveness, with one worker, one fault and a commit that is noise.
CONSTANTS
  u1 = u1  r1 = r1  r2 = r2  i1 = i1  c1 = c1  c2 = c2  c3 = c3  None = None
  Users <- OneUser
  Repos <- OneRepo
  Insts = {}
  Commits <- ThreeCommits
  Workers = {w1}
  RepoOf <- AllInR1
  PushedBy <- AllByU1
  LinkOf <- Direct
  Signal <- AllButC3
  TTL = 2
  PageCap = 1
  MaxAttempts = 2
  MaxSkew = 0
  MaxTime = 2
  MaxFaults = 1
SPECIFICATION FairSpec
PROPERTY EventuallyReported
