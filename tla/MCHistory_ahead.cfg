CONSTANTS
  Users = {u1}
  Callers = {c1}
  Names <- OneName
  Tasks <- OneTask
  Collapse <- AsTyped
  Fold <- AsTyped
  Blank = ""
  TooLong = {}
  Times <- MCTimes
  Durations <- MCDurations
  MaxLogged = 3
  Grace = 1
  MaxCompanies = 1
  MaxEntries = 2
  None = None
  Midnights <- MCMidnights
  Second = 2
  HalfMinute = 1
  Limit = 1
SPECIFICATION HistorySpec
INVARIANTS
  TotalsMatchRows
