SPECIFICATION Spec
CONSTANTS
  noon = noon
  evening = evening
  Entries <- MCEntries
  Time <- MCTime
  Days <- MCDays
  Zone <- MCZone
  Zones <- MCZones
  Day = 3
  Grace = 2
  Horizon = 5
  LastDate = 2
  MaxBoots = 2
  MaxRaises = 1
INVARIANTS
  NoStartupGap
CHECK_DEADLOCK FALSE
