SPECIFICATION FairSpec
CONSTANTS
  Lookups = {l1, l2}
  Plain = {p1}
  Suffixed = {x1, x2}
  MaxSize = 2
  MaxReloads = 2
  None = None
INVARIANTS
  TypeOK
  NoResurrection
  FreshEntry
  SizeCapped
PROPERTIES
  PlainPinned
  StaleEnds
