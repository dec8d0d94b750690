\* A user and an installation that share a commit in each of two repositories, one
\* worker, two faults: crashes, lost answers, unresolved pushes, late committer dates.
CONSTANTS
  u1 = u1  r1 = r1  r2 = r2  i1 = i1  c1 = c1  c2 = c2  c3 = c3  None = None
  Users <- OneUser
  Repos <- TwoRepos
  Insts <- OneInst
  Commits <- TwoCommits
  Workers = {w1}
  RepoOf <- OneInEach
  PushedBy <- PushedByU1
  LinkOf <- Linked
  Signal <- TwoCommits
  TTL = 2
  PageCap = 2
  MaxAttempts = 2
  MaxSkew = 1
  MaxTime = 2
  MaxFaults = 2
SPECIFICATION Spec
INVARIANTS TypeOK LedgerOnlyReported BoundedRepeats
PROPERTY KeepsPromise
