CONSTANTS
  u1 = u1
  p1 = p1
  Users = {u1}
  Pages = {p1}
  Owner <- OneOwner
  Requests = {r1, r2}
  Streams = {s1}
  None = None
  MaxChanges = 2
  MaxUpsets = 0
  MaxOut = 2
SPECIFICATION Spec
INVARIANTS
  QuietPageIsCurrent
