------------------------------ MODULE Surfaces ------------------------------
(***************************************************************************)
(* The three threads that meet in a reload: the bot's gateway loop (module *)
(* Panel), the pool's scheduled forecasts (module ForecastStreak) and the  *)
(* main thread, whose side effects work for both, in one order.            *)
(***************************************************************************)
EXTENDS Panel, ForecastStreak, FiniteSets

CONSTANTS MaxBusy   \* bound: calls in progress and slots that fire or fail at a time

ASSUME BusyAssumption == MaxBusy \in Nat

vars == <<swapVars, panelVars, streakVars>>

Init == PanelInit /\ StreakInit

Working == Cardinality({x \in Calls : calls[x] # Free})
           + Cardinality({s \in Slots : Busy(s) \/ streaks[s] # 0})
Bounded == Working <= MaxBusy

OnGateway == Gateway /\ UNCHANGED streakVars /\ Bounded'
OnPool == Pool /\ UNCHANGED panelVars /\ Bounded'

\* run_daemon's poll loop: a reload with its side effects.
Swap(c) == PanelSwap(c) /\ StreakSwap(c)
Abort == PanelAbort /\ StreakAbort
Commit == PanelCommit /\ StreakCommit
Prune == PanelPrune /\ StreakPrune
Check == PanelCheck /\ StreakCheck
Reset == PanelReset /\ StreakReset
OnMain == (\E c \in Configs : Swap(c)) \/ Abort \/ Commit \/ Prune \/ Check \/ Reset

\* The process ends and another one starts.
Restart(c) == PanelRestart(c) /\ StreakRestart(c)

Next == OnGateway \/ OnPool \/ OnMain \/ \E c \in Configs : Restart(c)

Spec == Init /\ [][Next]_vars

-----------------------------------------------------------------------------
TypeOK == PanelTypeOK /\ StreakTypeOK
=============================================================================
