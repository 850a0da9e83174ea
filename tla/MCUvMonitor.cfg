SPECIFICATION Spec
CONSTANTS
  l1 = l1
  l2 = l2
  None = None
  Locations <- MCLocations
  Configs <- MCConfigs
  Hours <- MCHours
  Indices = {0, 1, 2}
  Sunrise = 1
  Sunset = 5
  LastTime = 6
  MaxRaises = 1
INVARIANTS
  TypeOK
  InOrder
  NoAlertVanishes
  AllclearExplained
  WindowWhole
