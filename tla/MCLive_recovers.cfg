CONSTANTS
  u1 = u1
  p1 = p1
  Users = {u1}
  Pages = {p1}
  Owner <- OneOwner
  Requests = {r1}
  Streams = {s1}
  None = None
  MaxChanges = 1
  MaxUpsets = 2
  MaxOut = 1
SPECIFICATION FairSpec
PROPERTIES
  CatchesUp
  ShutdownEnds
