CONSTANTS
  First <- MCFirst
  MonthsInYear = 2
  Days <- MCDays
  Picks <- MCPicks
  Zones <- MCZones
  Clock <- MCClock
  None = None
  HourLen = 4
  MaxInt = 500
  Width = 256
  Lengths <- MCLengths
  Starts <- MCStarts
  Bad = Bad
SPECIFICATION LogSpec
INVARIANTS
  PeriodsTile
  LogTypeOK
  AddressNamesPeriod
  ShiftsMeet
  PresetsHoldNow
  ReadsAsMeant
  LoggedWhereTyped
  LinkShowsEntry
CONSTRAINT FewTouched
