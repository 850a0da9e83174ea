------------------------- MODULE ForecastStreakProofs -------------------------
(* Proofs that the failure streaks keep their types and are honest.         *)
EXTENDS ForecastStreak, TLAPS

\* Every step keeps the types.
LEMMA StreakTypeStep == StreakTypeOK /\ [StreakNext]_allStreakVars => StreakTypeOK'
<1> SUFFICES ASSUME StreakTypeOK, [StreakNext]_allStreakVars PROVE StreakTypeOK'
  OBVIOUS
<1> USE DEF StreakTypeOK, ReloadSteps, swapVars, streakVars, streakMarks, NoFire, Sending, Noting
<1>1. ASSUME NEW s \in Slots, Start(s) \/ Deliver(s) \/ Refused(s) PROVE StreakTypeOK'
  BY <1>1 DEF Start, Deliver, Refused, Forget, EndFire
<1>2. ASSUME NEW s \in Slots, Fail(s) PROVE StreakTypeOK'
  BY <1>2 DEF Fail
<1>3. ASSUME NEW s \in Slots, Note(s) PROVE StreakTypeOK'
  <2>1. fires[s].streak \in Nat
    BY <1>3 DEF Note
  <2> QED BY <1>3, <2>1 DEF Note, EndFire
<1>4. ASSUME NEW c \in Configs, StreakSwap(c) PROVE StreakTypeOK'
  BY <1>4 DEF StreakSwap, SwapIn
<1>5. ASSUME NEW c \in Configs, StreakRestart(c) PROVE StreakTypeOK'
  BY <1>5 DEF StreakRestart, StartOver, NoReload
<1>6. CASE StreakAbort
  BY <1>6 DEF StreakAbort, GoBack, NoReload, Over
<1>7. CASE StreakPrune
  BY <1>7 DEF StreakPrune, SideEffect, Over
<1>8. CASE StreakCommit \/ StreakCheck \/ StreakReset
  BY <1>8 DEF StreakCommit, StreakCheck, StreakReset, SideEffect
<1>9. CASE UNCHANGED allStreakVars
  BY <1>9 DEF allStreakVars
<1> QED BY <1>1, <1>2, <1>3, <1>4, <1>5, <1>6, <1>7, <1>8, <1>9 DEF StreakNext, Pool

(* The streaks' variables keep their types, whatever fires and reloads do.   *)
THEOREM StreakTypes == StreakSpec => []StreakTypeOK
<1>1. StreakInit => StreakTypeOK
  BY DEF StreakInit, SwapInit, StreakTypeOK, NoReload, ReloadSteps, NoFire
<1> QED BY <1>1, StreakTypeStep, PTL DEF StreakSpec

-----------------------------------------------------------------------------
\* The last side effects and what follows them find the dead slots pruned.
Pruned == reload.step \in {"idle", "check", "reset"}

\* A failure about to be noted was counted from the streak as it still is,
\* and a slot that is gone neither has an entry nor makes one.
StreakInv ==
  \A s \in Slots \ phantom :
    /\ streaks[s] = run[s]
    /\ told[s] = IF run[s] >= DeadAfter THEN 1 ELSE 0
    /\ fires[s].at = "noting" => fires[s].streak = streaks[s] + 1
    /\ Pruned /\ s \notin Wants[config] => streaks[s] = 0 /\ ~Busy(s)

LEMMA StreakStep ==
  StreakTypeOK /\ StreakInv /\ [StreakNext]_allStreakVars => StreakInv'
<1> SUFFICES ASSUME StreakTypeOK, StreakInv, [StreakNext]_allStreakVars PROVE StreakInv'
  OBVIOUS
<1> USE DEF StreakInv, streakVars, streakMarks, Busy, NoFire, Sending, Noting
<1>0. /\ streaks \in [Slots -> Nat] /\ run \in [Slots -> Nat] /\ told \in [Slots -> Nat]
      /\ fires \in [Slots -> {NoFire, Sending} \cup [at : {"noting"}, streak : Nat]]
      /\ config \in Configs /\ reload.old \in Configs
  BY DEF StreakTypeOK
<1>00. DeadAfter \in Nat \ {0}
  BY DeadAfterAssumption
<1>1. ASSUME NEW s \in Slots, Start(s) PROVE StreakInv'
  <2>1. Pruned => s \in Wants[config]
    BY <1>1 DEF Start, Scheduled, Pruned
  <2>2. fires' = [fires EXCEPT ![s] = Sending] /\ UNCHANGED <<swapVars, streaks, streakMarks>>
    BY <1>1 DEF Start
  <2> QED BY <1>0, <2>1, <2>2 DEF swapVars, Pruned
<1>2. ASSUME NEW s \in Slots, Deliver(s) PROVE StreakInv'
  BY <1>0, <1>00, <1>2 DEF Deliver, Forget, EndFire, swapVars, Pruned
<1>3. ASSUME NEW s \in Slots, Refused(s) PROVE StreakInv'
  BY <1>0, <1>3 DEF Refused, EndFire, swapVars, Pruned
<1>4. ASSUME NEW s \in Slots, Fail(s) PROVE StreakInv'
  BY <1>0, <1>4 DEF Fail, swapVars, Pruned
<1>5. ASSUME NEW s \in Slots, Note(s) PROVE StreakInv'
  <2>1. fires[s].streak \in Nat /\ fires' = [fires EXCEPT ![s] = NoFire]
    BY <1>0, <1>5 DEF Note, EndFire
  <2>2. ASSUME s \notin phantom
        PROVE  /\ fires[s].streak = run[s] + 1
               /\ Pruned => s \in Wants[config]
    BY <1>5, <2>2 DEF Note
  <2>3. ASSUME s \notin phantom
        PROVE  /\ streaks'[s] = run[s] + 1 /\ run'[s] = run[s] + 1
               /\ told'[s] = IF run'[s] >= DeadAfter THEN 1 ELSE 0
    BY <1>0, <1>00, <1>5, <2>2, <2>3 DEF Note, Escalates
  <2>4. ASSUME NEW t \in Slots \ phantom, t # s
        PROVE  /\ streaks'[t] = streaks[t] /\ run'[t] = run[t] /\ told'[t] = told[t]
               /\ fires'[t] = fires[t]
    BY <1>0, <1>5, <2>1, <2>4 DEF Note
  <2>5. UNCHANGED <<config, reload, phantom>> /\ fires'[s] = NoFire
    BY <1>0, <1>5, <2>1 DEF Note, swapVars
  <2> QED BY <2>2, <2>3, <2>4, <2>5 DEF Pruned
<1>6. ASSUME NEW c \in Configs, StreakSwap(c) PROVE StreakInv'
  BY <1>0, <1>6 DEF StreakSwap, SwapIn, Pruned
<1>7. ASSUME NEW c \in Configs, StreakRestart(c) PROVE StreakInv'
  BY <1>0, <1>00, <1>7 DEF StreakRestart
<1>8. CASE StreakAbort
  <2>1. config' = reload.old /\ UNCHANGED <<streaks, fires>> /\ Over(reload.old)
    BY <1>8 DEF StreakAbort, GoBack
  <2>2. ASSUME NEW s \in Slots \ phantom'
        PROVE  /\ s \notin phantom
               /\ s \notin Wants[config'] => streaks[s] = 0 /\ ~Busy(s)
    BY <1>8, <2>1, <2>2 DEF StreakAbort
  <2> QED BY <1>0, <1>00, <2>1, <2>2 DEF Over
<1>9. CASE StreakPrune
  <2>1. UNCHANGED <<config, fires>> /\ Over(config)
    BY <1>9 DEF StreakPrune, SideEffect
  <2>2. ASSUME NEW s \in Slots \ phantom', s \in Wants[config]
        PROVE  s \notin phantom /\ streaks'[s] = streaks[s]
    BY <1>0, <1>9, <2>2 DEF StreakPrune, Kept
  <2>3. ASSUME NEW s \in Slots \ phantom', s \notin Wants[config]
        PROVE  ~Busy(s) /\ streaks'[s] = 0
    BY <1>0, <1>9, <2>3 DEF StreakPrune, Kept
  <2> QED BY <1>0, <1>00, <2>1, <2>2, <2>3 DEF Over
<1>10. CASE StreakCommit \/ StreakCheck \/ StreakReset
  <2>1. UNCHANGED <<config, streaks, fires, run, told, phantom>> /\ (Pruned' => Pruned)
    BY <1>10 DEF StreakCommit, StreakCheck, StreakReset, SideEffect, Pruned
  <2> QED BY <2>1
<1>11. CASE UNCHANGED allStreakVars
  BY <1>11 DEF allStreakVars, swapVars, Pruned
<1> QED BY <1>1, <1>2, <1>3, <1>4, <1>5, <1>6, <1>7, <1>8, <1>9, <1>10, <1>11
        DEF StreakNext, Pool

(* A slot's streak counts its failures since it delivered or was added, one  *)
(* alert goes with a run that reaches the threshold, and no slot that is     *)
(* gone keeps an entry, but for the known fires.                             *)
THEOREM StreakHonestHolds == StreakSpec => []StreakHonest
<1>1. StreakInit => StreakInv
  BY DeadAfterAssumption DEF StreakInit, StreakInv, NoFire, Busy
<1>2. StreakInv => StreakHonest
  BY DEF StreakInv, StreakHonest, Settled, Pruned
<1> QED BY <1>1, <1>2, StreakStep, StreakTypes, PTL DEF StreakSpec

-----------------------------------------------------------------------------
(* The configuration the forecasts read moves as the holder promises.        *)
THEOREM StreakHolderKept == StreakSpec => ImplementsHolder
<1>1. StreakInit => Holder!Init
  BY DEF StreakInit, SwapInit, NoReload, Holder!Init
<1>2. StreakTypeOK /\ [StreakNext]_allStreakVars => [Holder!Next \/ \E c \in Configs : Holder!StartOver(c)]_(Holder!configVars)
  <2> SUFFICES ASSUME StreakTypeOK, [StreakNext]_allStreakVars
               PROVE  [Holder!Next \/ \E c \in Configs : Holder!StartOver(c)]_(Holder!configVars)
    OBVIOUS
  <2> USE DEF Holder!configVars, StreakTypeOK
  <2>1. CASE UNCHANGED swapVars
    BY <2>1 DEF swapVars
  <2>2. ASSUME NEW c \in Configs, SwapIn(c) PROVE Holder!Replace(c)
    BY <2>2 DEF SwapIn, Settled, Holder!Replace
  <2>3. ASSUME GoBack PROVE Holder!PutBack
    BY <2>3 DEF GoBack, NoReload, Holder!PutBack
  <2>4. ASSUME SideEffect("swapped", "prune") PROVE Holder!Keep
    BY <2>4 DEF SideEffect, Holder!Keep
  <2>5. ASSUME NEW from \in {"prune", "check", "reset"}, NEW to \in {"check", "reset", "idle"},
               SideEffect(from, to)
        PROVE  UNCHANGED Holder!configVars
    BY <2>5 DEF SideEffect
  <2>6. ASSUME NEW c \in Configs, StartOver(c) PROVE Holder!StartOver(c)
    BY <2>6 DEF StartOver, NoReload, Holder!StartOver
  <2>7. QED
    <3>1. CASE Pool
      BY <2>1, <3>1 DEF Pool, Start, Deliver, Refused, Fail, Note, swapVars
    <3>2. CASE \E c \in Configs : StreakSwap(c) \/ StreakRestart(c)
      BY <2>2, <2>6, <3>2 DEF StreakSwap, StreakRestart, Holder!Next
    <3>3. CASE StreakAbort \/ StreakCommit
      BY <2>3, <2>4, <3>3 DEF StreakAbort, StreakCommit, Holder!Next
    <3>4. CASE StreakPrune \/ StreakCheck \/ StreakReset
      BY <2>5, <3>4 DEF StreakPrune, StreakCheck, StreakReset
    <3>5. QED
      BY <2>1, <3>1, <3>2, <3>3, <3>4 DEF StreakNext, allStreakVars, swapVars
<1>3. QED
  BY <1>1, <1>2, StreakTypes, PTL DEF StreakSpec, Holder!LastingSpec, ImplementsHolder
=============================================================================
