----------------------------- MODULE MCUvMonitor -----------------------------
(* Instances of UvMonitor for TLC: a day of four hourly points, in half     *)
(* hours, the first before sunrise; then it is evening.                      *)
EXTENDS UvMonitor

CONSTANTS l1, l2

MCLocations == {l1, l2}
MCHours == {0, 2, 4, 6}

\* Enabled for both; a lower threshold for one; disabled.
MCConfigs == {
  [enabled |-> TRUE, threshold |-> 2, lead |-> 1, margin |-> 1, active |-> {l1, l2}],
  [enabled |-> TRUE, threshold |-> 1, lead |-> 0, margin |-> 0, active |-> {l1}],
  [enabled |-> FALSE, threshold |-> 2, lead |-> 1, margin |-> 1, active |-> {l1, l2}]}
=============================================================================
