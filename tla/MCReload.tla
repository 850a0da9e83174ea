------------------------------ MODULE MCReload ------------------------------
(* Instances of Reload for TLC.  From configuration "a" to "b" the first    *)
(* slot is dropped with its location, the second is kept, and the third,    *)
(* which "a" lists disabled, is enabled.                                    *)
EXTENDS Reload

CONSTANTS s1, s2, s3, t1, t2

MCConfigs == {"a", "b"}
MCSlots == {s1, s2, s3}
MCWants == [c \in MCConfigs |-> IF c = "a" THEN {s1, s2} ELSE {s2, s3}]
MCLists == [c \in MCConfigs |-> IF c = "a" THEN {s1, s2, s3} ELSE {s2, s3}]

\* Both configurations use one template, or each its own.
OneTemplate == [c \in MCConfigs |-> [s \in MCSlots |-> t1]]
TwoTemplates == [c \in MCConfigs |-> [s \in MCSlots |-> IF c = "a" THEN t1 ELSE t2]]
=============================================================================
