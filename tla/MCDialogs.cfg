CONSTANTS
  Users = {u}
  Callers = {r1, r2, other}
  Requests = {r1, r2}
  User = u
  Shared = {1}
  Names = {"Acme", ""}
  Tasks <- MCTexts
  First = "call"
  Second = ""
  Collapse <- AsTyped
  Fold <- AsTyped
  Blank = ""
  TooLong = {"long"}
  Times = {0}
  Durations = {1}
  MaxLogged = 1
  Grace = 0
  MaxCompanies = 1
  MaxEntries = 2
  None = None
SYMMETRY Symmetry
SPECIFICATION DialogSpec
INVARIANTS
  DialogTypeOK
  DialogIsItsOwn
  UndoIsOffered
  UndoIsDue
