------------------------------ MODULE MCStartup ------------------------------
(* Instance of Startup for TLC: two days and a half of three instants, an  *)
(* entry at noon and one in the evening, and a clock that is set forward   *)
(* over the noon of the second day.                                        *)
EXTENDS Startup

CONSTANTS noon, evening

MCEntries == {noon, evening}
MCTime == [e \in MCEntries |-> IF e = noon THEN 1 ELSE 2]
MCDays == [e \in MCEntries |-> IF e = noon THEN {1} ELSE {0, 1}]

Spring == [at |-> 4, before |-> 0, after |-> 1]
MCZone == [e \in MCEntries |-> Spring]

\* Every zone whose clock moves by at most one instant, forward or back.
MCZones ==
  {z \in [at : 0..9, before : {-1, 0, 1}, after : {-1, 0, 1}] :
     /\ z.after - z.before \in {-1, 0, 1}
     /\ z.after < z.before => (z.at + z.before - 1) \div Day = (z.at + z.after) \div Day}
=============================================================================
