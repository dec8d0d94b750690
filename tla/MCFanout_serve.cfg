SPECIFICATION Spec
CONSTANTS
  u1 = u1
  u2 = u2
  p1 = p1
  r1 = r1
  i1 = i1
  d1 = d1
  d2 = d2
  w1 = w1
  w2 = w2
  Digest = Digest
  None = None
  Users <- OneUser
  Publications <- Nothing
  Repos <- OneRepo
  Installations <- Nothing
  Runners <- OneRunner
  Workers <- OneWorker
  Removable <- EveryDocument
  MaxAttempts = 2
  MaxTriggers = 1
  MaxEdits = 3
  MaxFaults = 1
CHECK_DEADLOCK FALSE
INVARIANT HeadersBounded
INVARIANT OwnChannel
INVARIANT NoBackCatalog
PROPERTY OnlyAdminsEnable
