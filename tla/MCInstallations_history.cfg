SPECIFICATION Spec
CONSTANTS
  i1 = i1
  alice = alice
  r1 = r1
  h1 = h1
  None = None
  Insts <- OneInst
  Accounts <- OneAccount
  Repos <- OneRepo
  Hooks <- OneHook
  AccountOf <- Owners
  InOrder = TRUE
  MaxEvents = 4
  MaxEdits = 1
  MaxFaults = 0
CHECK_DEADLOCK FALSE
INVARIANT EnabledHasCursor
