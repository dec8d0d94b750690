CONSTANTS
  u1 = u1  u2 = u2  u3 = u3  p1 = p1  p2 = p2  a = a  b = b  c = c  d = d  e = e  x = x  y = y  z = z  r1 = r1  r2 = r2
  None = None
  Users <- ThreeUsers
  Publications <- TwoPublications
  Listing <- ByName
  Events <- AllEvents
  SourceOf <- Origin
  History <- Earlier
  RepoOf <- Target
  Signal <- Interesting
  PageSize = 1
  MaxPages = 2
  Limit = 1
  MaxRepos = 2
  MaxFields = 2
  MaxSize = 6
  Verbose <- Talkative
  MaxEmbeds = 1
  DayLength = 1
  Windows = {1, 2}
  MaxTime = 1
  MaxEdits = 1
SPECIFICATION Spec
INVARIANT TypeOK
INVARIANT DigestComplete
INVARIANT DigestSound
INVARIANT PagesFaithful
