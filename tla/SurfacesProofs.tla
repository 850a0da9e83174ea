---------------------------- MODULE SurfacesProofs ----------------------------
(* Proofs that a reload among the bot's calls and the pool's fires is, for   *)
(* each of them, the reload of its own module; and with it what they show.   *)
EXTENDS Surfaces, PanelProofs, ForecastStreakProofs

(* Side by side the surfaces do nothing that Panel and ForecastStreak, each  *)
(* by itself, do not describe: neither needs to know of the other.           *)
THEOREM Separable == Spec => PanelSpec /\ StreakSpec
<1> USE DEF vars, allPanelVars, allStreakVars
<1>1. Init => PanelInit /\ StreakInit
  BY DEF Init
<1>2. [Next]_vars => [PanelNext]_allPanelVars
  <2>1. ASSUME OnGateway PROVE PanelNext
    BY <2>1 DEF OnGateway, PanelNext
  <2>2. ASSUME OnPool PROVE UNCHANGED allPanelVars
    BY <2>2 DEF OnPool, Pool, Start, Deliver, Refused, Fail, Note
  <2>3. ASSUME OnMain \/ \E c \in Configs : Restart(c) PROVE PanelNext
    BY <2>3 DEF OnMain, Swap, Abort, Commit, Prune, Check, Reset, Restart, PanelNext
  <2> QED BY <2>1, <2>2, <2>3 DEF Next
<1>3. [Next]_vars => [StreakNext]_allStreakVars
  <2>1. ASSUME OnPool PROVE StreakNext
    BY <2>1 DEF OnPool, StreakNext
  <2>2. ASSUME OnGateway PROVE UNCHANGED allStreakVars
    BY <2>2 DEF OnGateway, Gateway, Pick, Ask, Tap, PickLands, PickFails, PickRaises,
                Answer, AnswerPlainly, Reply, EditLands, EditFails, Summon
  <2>3. ASSUME OnMain \/ \E c \in Configs : Restart(c) PROVE StreakNext
    BY <2>3 DEF OnMain, Swap, Abort, Commit, Prune, Check, Reset, Restart, StreakNext
  <2> QED BY <2>1, <2>2, <2>3 DEF Next
<1> QED BY <1>1, <1>2, <1>3, PTL DEF Spec, PanelSpec, StreakSpec

(* What the run of Surfaces checks on an instance holds for all of them.     *)
THEOREM SurfacesSound ==
  Spec => [](TypeOK /\ LabelTrue /\ SelectionStands /\ PanelUsable /\ StreakHonest)
BY Separable, PanelTypes, StreakTypes, LabelTrueHolds, SelectionStandsHolds,
   PanelUsableHolds, StreakHonestHolds, PTL DEF TypeOK

(* Nothing that the bot, the pool and the main thread do together changes    *)
(* the live configuration but a reload, and the way back of one that failed. *)
THEOREM HolderKept == Spec => ImplementsHolder
BY Separable, PanelHolderKept, PTL
=============================================================================
