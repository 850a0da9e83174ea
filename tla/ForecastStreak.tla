--------------------------- MODULE ForecastStreak ---------------------------
(***************************************************************************)
(* The failure streaks of the scheduled forecasts (scheduler/daemon.py):   *)
(* each slot's fires on the pool, and the prune a committed reload makes   *)
(* on the main thread.  The streaks are a plain dictionary without a lock. *)
(*                                                                         *)
(* A slot is a _forecast_job_id: editing a slot makes another one.  The    *)
(* scheduler runs one fire of a slot at a time (max_instances=1).          *)
(***************************************************************************)
EXTENDS ConfigSwap, Naturals

CONSTANTS Slots,      \* forecast job ids
          Wants,      \* Wants[c]: the enabled slots of c, _desired_job_ids
          DeadAfter,  \* _FORECAST_DEAD_AFTER
          MaxStreak   \* bound: failures counted in a row

ASSUME WantsAssumption == Wants \in [Configs -> SUBSET Slots]
ASSUME DeadAfterAssumption == DeadAfter \in Nat \ {0} /\ MaxStreak \in Nat

VARIABLES
  streaks,  \* _forecast_failure_streaks, 0 for a slot without an entry
  fires,    \* fires[s]: the fire of s: none, sending, or noting a failure
  run,      \* history: failures of s since it last delivered or was added
  told,     \* history: alerts in that run
  phantom   \* history: slots whose entry a fire made after the slot was gone

streakMarks == <<run, told, phantom>>
streakVars == <<streaks, fires, streakMarks>>
allStreakVars == <<swapVars, streakVars>>

NoFire == [at |-> "none"]
Sending == [at |-> "sending"]
Noting(n) == [at |-> "noting", streak |-> n]
Busy(s) == fires[s] # NoFire

StreakInit ==
  /\ SwapInit
  /\ streaks = [s \in Slots |-> 0]
  /\ fires = [s \in Slots |-> NoFire]
  /\ run = [s \in Slots |-> 0]
  /\ told = [s \in Slots |-> 0]
  /\ phantom = {}

-----------------------------------------------------------------------------
(* The pool. *)

\* The job is in the table: the configuration's, or still the replaced one's.
Scheduled(s) ==
  \/ s \in Wants[config]
  \/ reload.step = "swapped" /\ s \in Wants[reload.old]

Start(s) ==
  /\ ~Busy(s)
  /\ Scheduled(s)
  /\ fires' = [fires EXCEPT ![s] = Sending]
  /\ UNCHANGED <<swapVars, streaks, streakMarks>>

EndFire(s) == fires' = [fires EXCEPT ![s] = NoFire]

\* Mutant of Forget: a delivery makes up for one failure.
ForgetOne(s) == streaks' = [streaks EXCEPT ![s] = @ - 1]

\* _note_forecast_success
Forget(s) == streaks' = [streaks EXCEPT ![s] = 0]

\* The channel accepts the forecast, or there is no channel.
Deliver(s) ==
  /\ fires[s] = Sending
  /\ Forget(s)
  /\ EndFire(s)
  /\ run' = [run EXCEPT ![s] = 0]
  /\ told' = [told EXCEPT ![s] = 0]
  /\ phantom' = phantom \ {s}
  /\ UNCHANGED swapVars

\* A 401 or 403 of the webhook is reported at once and counts for nothing.
Refused(s) ==
  /\ fires[s] = Sending
  /\ EndFire(s)
  /\ UNCHANGED <<swapVars, streaks, streakMarks>>

\* Anything else fails: an unknown location, a fetch, a render, a post.
\* _note_forecast_failure reads the streak ...
Fail(s) ==
  /\ fires[s] = Sending
  /\ streaks[s] < MaxStreak
  /\ fires' = [fires EXCEPT ![s] = Noting(streaks[s] + 1)]
  /\ UNCHANGED <<swapVars, streaks, streakMarks>>

\* Exactly the crossing fire alerts.
Escalates(n) == n = DeadAfter

\* ... and writes it back, one higher; the post of the alert cannot raise.
Note(s) ==
  /\ fires[s].at = "noting"
  /\ streaks' = [streaks EXCEPT ![s] = fires[s].streak]
  /\ EndFire(s)
  /\ run' = [run EXCEPT ![s] = IF s \in phantom THEN @ ELSE @ + 1]
  /\ told' = [told EXCEPT ![s] =
                IF Escalates(fires[s].streak) /\ s \notin phantom THEN @ + 1 ELSE @]
  /\ UNCHANGED <<swapVars, phantom>>

Pool ==
  \E s \in Slots : Start(s) \/ Deliver(s) \/ Refused(s) \/ Fail(s) \/ Note(s)

-----------------------------------------------------------------------------
(* The main thread. *)

StreakSwap(c) == SwapIn(c) /\ UNCHANGED streakVars

\* The slots c does not want are gone, and their runs with them.
Over(c) ==
  /\ run' = [s \in Slots |-> IF s \in Wants[c] THEN run[s] ELSE 0]
  /\ told' = [s \in Slots |-> IF s \in Wants[c] THEN told[s] ELSE 0]

\* A job of the rejected configuration may have fired meanwhile: no prune follows.
StreakAbort ==
  /\ GoBack
  /\ Over(reload.old)
  /\ phantom' = phantom \cup
       {s \in Slots \ Wants[reload.old] : Busy(s) \/ streaks[s] # 0}
  /\ UNCHANGED <<streaks, fires>>

StreakCommit == SideEffect("swapped", "prune") /\ UNCHANGED streakVars

\* Mutant of Kept: what is pruned is the live slots' streaks.
KeptDead == Slots \ Wants[config]

\* _desired_job_ids of the holder's configuration
Kept == Wants[config]

\* _prune_forecast_streaks.  A fire of a pruned slot still runs on.
StreakPrune ==
  /\ SideEffect("prune", "check")
  /\ streaks' = [s \in Slots |-> IF s \in Kept THEN streaks[s] ELSE 0]
  /\ Over(config)
  /\ phantom' = (phantom \cap Wants[config])
                \cup {s \in Slots \ Wants[config] : Busy(s)}
  /\ UNCHANGED fires

\* The selection's reconcile, in module Panel.
StreakCheck ==
  /\ SideEffect("check", "idle") \/ SideEffect("check", "reset")
  /\ UNCHANGED streakVars
StreakReset == SideEffect("reset", "idle") /\ UNCHANGED streakVars

StreakRestart(c) ==
  /\ StartOver(c)
  /\ streaks' = [s \in Slots |-> 0]
  /\ fires' = [s \in Slots |-> NoFire]
  /\ run' = [s \in Slots |-> 0]
  /\ told' = [s \in Slots |-> 0]
  /\ phantom' = {}

StreakNext ==
  \/ Pool
  \/ \E c \in Configs : StreakSwap(c) \/ StreakRestart(c)
  \/ StreakAbort \/ StreakCommit \/ StreakPrune \/ StreakCheck \/ StreakReset

StreakSpec == StreakInit /\ [][StreakNext]_allStreakVars

-----------------------------------------------------------------------------
StreakTypeOK ==
  /\ config \in Configs
  /\ reload \in [step : ReloadSteps, old : Configs]
  /\ streaks \in [Slots -> Nat]
  /\ fires \in [Slots -> {NoFire, Sending} \cup [at : {"noting"}, streak : Nat]]
  /\ run \in [Slots -> Nat]
  /\ told \in [Slots -> Nat]
  /\ phantom \subseteq Slots

(* A slot's streak is exactly its failures since it delivered or was added,  *)
(* it has alerted once if they reached the threshold and not at all before,  *)
(* and once a reload is through a slot that is gone has no entry; except for *)
(* the entry made by a fire that was still running when its slot was pruned, *)
(* or that ran for a reload that was rolled back.                            *)
StreakHonest ==
  \A s \in Slots \ phantom :
    /\ streaks[s] = run[s]
    /\ told[s] = IF run[s] >= DeadAfter THEN 1 ELSE 0
    /\ Settled /\ s \notin Wants[config] => streaks[s] = 0
=============================================================================
