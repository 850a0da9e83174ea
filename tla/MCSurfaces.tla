----------------------------- MODULE MCSurfaces -----------------------------
(* Instance of Surfaces for TLC.  From the first configuration to the       *)
(* second the location "a" is renamed to "c" and keeps its id, which is its *)
(* old name, and another location takes that name; the third has no location*)
(* at all.  Only the first schedules a forecast.                            *)
EXTENDS Surfaces, TLC

CONSTANTS x1, x2, s1

Location(name, id) == [name |-> name, id |-> id]
MCConfigs == {"before", "after", "empty"}
MCListed == [c \in MCConfigs |->
  CASE c = "before" -> {Location("a", "a")}
    [] c = "after" -> {Location("c", "a"), Location("a", "d")}
    [] OTHER -> {}]
MCFirst == [c \in MCConfigs |-> "a"]
MCWants == [c \in MCConfigs |-> IF c = "before" THEN {s1} ELSE {}]

\* Calls are alike.
CallSymmetry == Permutations({x1, x2})
=============================================================================
