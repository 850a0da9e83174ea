SPECIFICATION FairSpec
CONSTANTS
  Workers = {w1, w2}
  Slots = {s1}
  MaxAttempts = 2
  MaxFires = 3
  MaxRaises = 2
INVARIANTS
  TypeOK
  SingleFlight
  AckedAtMostOnce
  DeliveredKeepsClaim
  NoSilentMiss
  NoClaimLeak
  SuccessIsReal
PROPERTIES
  NeverReleasedUnder
  ImplementsLease
  FiresEnd
