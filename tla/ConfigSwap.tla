----------------------------- MODULE ConfigSwap -----------------------------
(***************************************************************************)
(* A reload as the other threads see it: the configuration is swapped,     *)
(* then swapped back (a raise of the job reconcile) or committed, and a    *)
(* committed one runs its side effects in order, the last two of which     *)
(* work on what other threads write: the failure streaks and the panel's   *)
(* selection.  What happens to the job table is in module Reload, what     *)
(* happens to the forecast cache in module ForecastCache.                  *)
(***************************************************************************)
CONSTANTS Configs   \* the configurations the file may hold

VARIABLES config,   \* ConfigHolder.current()
          reload    \* the reload in progress: its step, the configuration it may go back to

swapVars == <<config, reload>>

ReloadSteps == {"idle", "swapped", "prune", "check", "reset"}
Settled == reload.step = "idle"
NoReload(c) == [step |-> "idle", old |-> c]

SwapInit == config \in Configs /\ reload = NoReload(config)

\* The file passed validation: the holder is replaced, the jobs are next.
SwapIn(c) ==
  /\ Settled
  /\ config' = c
  /\ reload' = [step |-> "swapped", old |-> config]

\* The reconcile raised: the holder goes back and no side effect runs.
GoBack ==
  /\ reload.step = "swapped"
  /\ config' = reload.old
  /\ reload' = NoReload(reload.old)

\* The side effect of step from is done, the one of step to is next.  None of
\* them stops the next one: each swallows what it raises.
SideEffect(from, to) ==
  /\ reload.step = from
  /\ reload' = [step |-> to, old |-> config]
  /\ UNCHANGED config

\* Another process, which has read the file as it is by then.
StartOver(c) == config' = c /\ reload' = NoReload(c)
-----------------------------------------------------------------------------
\* The swap, its way back and its side effects keep the holder's promise, over
\* restarts: no side effect changes the configuration or makes a reload go back.
Holder == INSTANCE LiveConfig WITH
            live <- config,
            fallback <- IF reload.step = "swapped" THEN {reload.old} ELSE {}

ImplementsHolder == Holder!LastingSpec
=============================================================================
