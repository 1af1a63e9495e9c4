CONSTANTS
  First <- MCFirst
  MonthsInYear = 2
  Days <- MCDays
  Picks <- MCPicks
  Zones <- MidnightZones
  Clock <- MCClock
  None = None
SPECIFICATION Spec
INVARIANTS
  PeriodsTile
