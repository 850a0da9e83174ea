SPECIFICATION Spec
CONSTANTS
  Workers = {w1, w2}
  Slots = {s1}
  MaxAttempts = 2
  MaxFires = 3
  MaxRaises = 2
INVARIANTS
  DeliveredClaimInviolable
