CONSTANTS
  u1 = u1
  p1 = p1
  Users = {u1}
  Pages = {p1}
  Owner <- OneOwner
  Requests = {r1}
  Streams = {s1, s2}
  None = None
  MaxChanges = 2
  MaxUpsets = 1
  MaxOut = 2
SPECIFICATION Spec
SYMMETRY Symmetry
INVARIANTS
  ListenersAreStreams
  QuietStreamIsCurrent
PROPERTIES
  StreamedNeverGoesBack
