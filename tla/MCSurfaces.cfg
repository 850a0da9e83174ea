SPECIFICATION Spec
CONSTANTS
  x1 = x1
  x2 = x2
  s1 = s1
  Configs <- MCConfigs
  Calls = {x1, x2}
  Listed <- MCListed
  First <- MCFirst
  None = None
  Slots = {s1}
  Wants <- MCWants
  DeadAfter = 2
  MaxStreak = 3
  MaxBusy = 2
SYMMETRY CallSymmetry
INVARIANTS
  TypeOK
  LabelTrue
  SelectionStands
  PanelUsable
  StreakHonest
