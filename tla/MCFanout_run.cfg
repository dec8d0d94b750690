SPECIFICATION Spec
CONSTANTS
  u1 = u1
  u2 = u2
  p1 = p1
  r1 = r1
  i1 = i1
  d1 = d1
  d2 = d2
  w1 = w1
  w2 = w2
  Digest = Digest
  None = None
  Users <- TwoUsers
  Publications <- Nothing
  Repos <- Nothing
  Installations <- OneInstallation
  Runners <- TwoRunners
  Workers <- Nothing
  Removable <- EveryDocument
  MaxAttempts = 2
  MaxTriggers = 2
  MaxEdits = 1
  MaxFaults = 1
CHECK_DEADLOCK FALSE
SYMMETRY Symmetry
INVARIANT TypeOK
INVARIANT HeadersBounded
INVARIANT HeartbeatMeansHeader
INVARIANT NobodyForgotten
