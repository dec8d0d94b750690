SPECIFICATION MemberSpec
CONSTANTS
  i1 = i1  i2 = i2  alice = alice  r1 = r1  r2 = r2  h1 = h1  h2 = h2  w1 = w1
  None = None
  Insts <- TwoInsts
  Accounts <- OneAccount
  Repos <- TwoRepos
  Hooks <- OneHook
  AccountOf <- Owners
  Workers <- OneWorker
  Public <- R2
  InOrder = TRUE
  MaxEvents = 4
  MaxEdits = 0
  MaxFaults = 1
CHECK_DEADLOCK FALSE
INVARIANT TypeOK
INVARIANT JobTypeOK
INVARIANT Synced
INVARIANT SectionsConsented
