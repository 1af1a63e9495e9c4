CONSTANTS
  Users = {u1, u2}
  Callers = {c1, c2}
  Names <- MCNames
  Tasks <- MCTasks
  Collapse <- MCCollapse
  Fold <- MCFold
  Blank = ""
  TooLong = {"long"}
  Times <- MCTimes
  Durations <- MCDurations
  MaxLogged = 1
  Grace = 0
  MaxCompanies = 2
  MaxEntries = 1
  None = None
SPECIFICATION Spec
SYMMETRY Symmetry
INVARIANTS
  TypeOK
  SchemaHolds
  NamesAreUnique
  CountsMatchTimers
PROPERTIES
  StopIsFinal
  OwnerOnly
  ImplementsTimesheet
