SPECIFICATION MemberSpec
CONSTANTS
  i1 = i1  i2 = i2  alice = alice  r1 = r1  r2 = r2  h1 = h1  h2 = h2  w1 = w1
  None = None
  Insts <- TwoInsts
  Accounts <- OneAccount
  Repos <- OneRepo
  Hooks <- TwoHooks
  AccountOf <- Owners
  Workers <- OneWorker
  Public <- Nothing
  InOrder = FALSE
  MaxEvents = 3
  MaxEdits = 1
  MaxFaults = 1
CHECK_DEADLOCK FALSE
SYMMETRY Symmetry
INVARIANT SectionsConsented
INVARIANT LinkNeedsConsent
INVARIANT InstallationsUsable
