---------------------------- MODULE ReloadProofs ----------------------------
(***************************************************************************)
(* Proofs about Reload: the job table follows the configuration, no kept   *)
(* job is ever absent, no edit is lost, and a fire is of its time.         *)
(***************************************************************************)
EXTENDS Reload, FiniteSetTheorems, TLAPS

Quiet == reload.step \in {"idle", "validate"}

(* Between reloads nothing is left to do, and the table is the live          *)
(* configuration's.                                                          *)
QuietInv ==
  Quiet =>
    /\ reload.add = {} /\ reload.drop = {}
    /\ reload.old = holder /\ reload.new = holder
    /\ intact =>
         /\ Live = Wants[holder]
         /\ \A s \in Live : jobs[s].built = holder /\ jobs[s].rides \in {LiveHolder, holder}

(* A reconcile in progress has registered what it is no longer to add, and   *)
(* what it is not to drop is wanted; nothing but the two configurations of   *)
(* the reload is in the table.                                               *)
BusyInv ==
  ~Quiet =>
    /\ holder = reload.new
    /\ reload.add \subseteq Wants[reload.new]
    /\ reload.drop \cap Wants[reload.new] = {}
    /\ Live \subseteq Wants[reload.new] \cup reload.drop
    /\ \A s \in Wants[reload.new] \ reload.add : jobs[s] = BuiltFrom(reload.new, reload.new)
    /\ intact =>
         /\ Wants[reload.old] \cap Wants[reload.new] \subseteq Live
         /\ \A s \in Live : /\ jobs[s].built \in {reload.old, reload.new}
                            /\ jobs[s].rides \in {LiveHolder, reload.old, reload.new}

(* A job was wanted by the configuration it was built from.                  *)
BuiltInv ==
  \A s \in Live : s \in Wants[jobs[s].built] /\ jobs[s].rides \in {LiveHolder, jobs[s].built}

TableInv == QuietInv /\ BusyInv /\ BuiltInv

-----------------------------------------------------------------------------
\* Every step keeps the types.
LEMMA TypeStep == TypeOK /\ [Next]_vars => TypeOK'
<1> SUFFICES ASSUME TypeOK, [Next]_vars PROVE TypeOK'
  OBVIOUS
<1> USE DEF files, trigger, table, history
<1>1. ASSUME NEW c \in Configs \cup {Unparsable}, EditConfig(c) PROVE TypeOK'
  BY <1>1 DEF EditConfig, TypeOK
<1>2. ASSUME NEW t \in Templates, EditTemplate(t) PROVE TypeOK'
  BY <1>2 DEF EditTemplate, TypeOK
<1>3. CASE Report \/ Sighup
  BY <1>3 DEF Report, Sighup, TypeOK
<1>4. CASE Service
  BY <1>4 DEF Service, TypeOK, Steps
<1>5. CASE Reject
  BY <1>5 DEF Reject, Finish, NoReload, TypeOK, Steps
<1>6. CASE Swap
  <2>1. disk \in Configs /\ Wants[disk] \in SUBSET Slots
    BY <1>6, WantsAssumption DEF Swap, Valid
  <2>2. reload' \in [step : Steps, old : Configs, new : Configs,
                     add : SUBSET Slots, drop : SUBSET Slots]
    BY <1>6, <2>1 DEF Swap, Reconcile, TypeOK, Steps, Live
  <2>3. fire' = fire \/ (fire.at = "dispatched" /\ fire' = [fire EXCEPT !.since = @ \cup {disk}])
    BY <1>6 DEF Swap, FireWitnesses
  <2>4. CASE fire' = fire
    BY <1>6, <2>1, <2>2, <2>4 DEF Swap, TypeOK
  <2>5. CASE fire.at = "dispatched" /\ fire' = [fire EXCEPT !.since = @ \cup {disk}]
    <3>1. fire \in [at : {"dispatched"}, slot : Slots, rides : Configs \cup {LiveHolder},
                    since : SUBSET Configs, sound : BOOLEAN]
      BY <2>5 DEF TypeOK, NoFire
    <3>2. fire' \in [at : {"dispatched"}, slot : Slots, rides : Configs \cup {LiveHolder},
                     since : SUBSET Configs, sound : BOOLEAN]
      BY <2>1, <2>5, <3>1
    <3>3. QED
      BY <1>6, <2>1, <2>2, <3>2 DEF Swap, TypeOK
  <2>6. QED
    BY <2>3, <2>4, <2>5
<1>7. ASSUME NEW s \in Slots, Register(s) PROVE TypeOK'
  <2>1. BuiltFrom(reload.new, reload.new) \in Jobs
    BY DEF BuiltFrom, Jobs, TypeOK
  <2>2. QED
    BY <1>7, <2>1 DEF Register, AddJob, TypeOK
<1>8. ASSUME NEW s \in Slots, Remove(s) PROVE TypeOK'
  BY <1>8 DEF Remove, TypeOK
<1>9. CASE Commit
  BY <1>9 DEF Commit, Finish, NoReload, TypeOK, Steps
<1>10. CASE RollBack
  <2>1. reload.old \in Configs /\ Wants[reload.old] \in SUBSET Slots
    BY WantsAssumption DEF TypeOK
  <2>2. raised' \in 0..MaxRaises
    BY <1>10, RaisesAssumption DEF RollBack, TypeOK
  <2>3. QED
    BY <1>10, <2>1, <2>2 DEF RollBack, Reconcile, TypeOK, Steps, Live
<1>11. CASE RestoreRaises
  <2>1. raised' \in 0..MaxRaises
    BY <1>11, RaisesAssumption DEF RestoreRaises, TypeOK
  <2>2. QED
    BY <1>11, <2>1 DEF RestoreRaises, Finish, NoReload, TypeOK, Steps
<1>12. ASSUME NEW s \in Slots, Dispatch(s) PROVE TypeOK'
  <2>1. jobs[s].rides \in Configs \cup {LiveHolder} /\ LiveNow \subseteq Configs
    BY <1>12 DEF Dispatch, Live, Jobs, LiveNow, TypeOK
  <2>2. QED
    BY <1>12, <2>1 DEF Dispatch, TypeOK
<1>13. CASE TakeSnapshot
  <2>1. fire \in [at : {"dispatched"}, slot : Slots, rides : Configs \cup {LiveHolder},
                  since : SUBSET Configs, sound : BOOLEAN]
    BY <1>13 DEF TakeSnapshot, TypeOK, NoFire
  <2>2. Current(fire.rides) \in Configs
    BY <2>1 DEF Current, TypeOK
  <2>3. QED
    BY <1>13, <2>1, <2>2 DEF TakeSnapshot, TypeOK
<1>14. CASE EndFire
  BY <1>14 DEF EndFire, TypeOK
<1>15. CASE UNCHANGED vars
  BY <1>15 DEF vars, TypeOK
<1>16. QED
  BY <1>1, <1>2, <1>3, <1>4, <1>5, <1>6, <1>7, <1>8, <1>9, <1>10, <1>11, <1>12, <1>13,
     <1>14, <1>15 DEF Next, MainThread

\* Init satisfies the types.
LEMMA TypeInit == Init => TypeOK
<1> SUFFICES ASSUME Init PROVE TypeOK
  OBVIOUS
<1>1. disk \in Configs /\ holder = disk /\ seen = disk
  BY DEF Init
<1>2. Lists[disk] \subseteq Slots /\ Wants[disk] \subseteq Slots
  BY <1>1, ListsAssumption, WantsAssumption
<1>3. watched \subseteq Templates
  BY <1>1, <1>2, TemplateAssumption DEF Init, Referenced
<1>4. BuiltFrom(disk, LiveHolder) \in Jobs
  BY <1>1 DEF BuiltFrom, Jobs
<1>5. jobs \in [Slots -> Jobs \cup {None}]
  BY <1>4 DEF Init
<1>6. reload \in [step : Steps, old : Configs, new : Configs,
                  add : SUBSET Slots, drop : SUBSET Slots]
  BY <1>1 DEF Init, NoReload, Steps
<1>7. raised \in 0..MaxRaises
  BY RaisesAssumption DEF Init
<1>8. fire = NoFire /\ broken = {} /\ notice \in BOOLEAN /\ requested \in BOOLEAN /\ intact \in BOOLEAN
  BY DEF Init
<1>9. QED
  BY <1>1, <1>3, <1>5, <1>6, <1>7, <1>8, Zenon DEF TypeOK

(* Every variable keeps its type, whatever is edited, reloaded and fired.    *)
THEOREM TypeCorrect == Spec => []TypeOK
<1>1. QED
  BY TypeInit, TypeStep, PTL DEF Spec

-----------------------------------------------------------------------------
\* A job that was added carries the configuration it was added from.
LEMMA Added ==
  ASSUME TypeOK, NEW s \in Slots, NEW c \in Configs, AddJob(s, c)
  PROVE  /\ jobs' = [jobs EXCEPT ![s] = BuiltFrom(c, c)]
         /\ BuiltFrom(c, c) # None
         /\ BuiltFrom(c, c).built = c /\ BuiltFrom(c, c).rides = c
         /\ Live' = Live \cup {s}
<1>1. BuiltFrom(c, c) # None
  BY NoneAssumption DEF BuiltFrom, Jobs
<1>2. QED
  BY <1>1 DEF AddJob, BuiltFrom, Live, TypeOK

LEMMA Removed ==
  ASSUME TypeOK, NEW s \in Slots, jobs' = [jobs EXCEPT ![s] = None]
  PROVE  Live' = Live \ {s}
BY DEF Live, TypeOK

\* The table is right at the start.
LEMMA TableInit == Init => TableInv
<1> SUFFICES ASSUME Init PROVE TableInv
  OBVIOUS
<1>1. disk \in Configs /\ holder = disk /\ reload = NoReload(disk)
  BY DEF Init
<1>2. BuiltFrom(disk, LiveHolder) # None
  BY <1>1, NoneAssumption DEF BuiltFrom, Jobs
<1>3. Live = Wants[disk]
  BY <1>1, <1>2, WantsAssumption DEF Init, Live
<1>4. \A s \in Live : jobs[s] = BuiltFrom(disk, LiveHolder)
  BY <1>3 DEF Init, Live
<1>5. QED
  BY <1>1, <1>3, <1>4 DEF TableInv, QuietInv, BusyInv, BuiltInv, Quiet, NoReload, BuiltFrom

\* Every step keeps the table what the reload's progress says.
LEMMA TableStep == TypeOK /\ TableInv /\ [Next]_vars => TableInv'
<1> SUFFICES ASSUME TypeOK, TableInv, [Next]_vars PROVE TableInv'
  OBVIOUS
<1> USE DEF files, trigger, table, history, TableInv
<1>1. CASE UNCHANGED <<holder, reload, jobs, intact>>
  BY <1>1 DEF QuietInv, BusyInv, BuiltInv, Quiet, Live
<1>2. CASE Service
  <2>1. reload.step = "idle" /\ reload' = [reload EXCEPT !.step = "validate"]
    BY <1>2 DEF Service, Idle
  <2>2. Quiet /\ Quiet' /\ reload'.add = reload.add /\ reload'.drop = reload.drop
        /\ reload'.old = reload.old /\ reload'.new = reload.new
    BY <2>1 DEF Quiet, TypeOK
  <2>3. QED
    BY <1>2, <2>2 DEF Service, QuietInv, BusyInv, BuiltInv, Live
<1>3. CASE Reject
  BY <1>3 DEF Reject, Finish, NoReload, QuietInv, BusyInv, BuiltInv, Quiet, Live
<1>4. CASE Swap
  <2>1. /\ Quiet /\ holder' = disk /\ jobs' = jobs /\ intact' = intact /\ Live' = Live
        /\ reload' = [step |-> "reconcile", old |-> holder, new |-> disk,
                      add |-> Wants[disk], drop |-> Live \ Wants[disk]]
    BY <1>4 DEF Swap, Reconcile, Quiet, Live
  <2>2. ~Quiet' /\ reload'.old = holder /\ reload'.new = disk /\ reload'.add = Wants[disk]
        /\ reload'.drop = Live \ Wants[disk]
    BY <2>1 DEF Quiet
  <2>3. QED
    BY <2>1, <2>2 DEF QuietInv, BusyInv, BuiltInv
<1>5. ASSUME NEW s \in Slots, Register(s) PROVE TableInv'
  <2>1. s \in reload.add /\ ~Quiet /\ reload.new \in Configs
    BY <1>5 DEF Register, QuietInv, TypeOK
  <2>2. /\ reload' = [reload EXCEPT !.add = @ \ {s}] /\ holder' = holder /\ intact' = intact
        /\ jobs' = [jobs EXCEPT ![s] = BuiltFrom(reload.new, reload.new)]
        /\ BuiltFrom(reload.new, reload.new).built = reload.new
        /\ BuiltFrom(reload.new, reload.new).rides = reload.new
        /\ Live' = Live \cup {s}
    BY <1>5, <2>1, Added DEF Register
  <2>3. ~Quiet' /\ reload'.old = reload.old /\ reload'.new = reload.new
        /\ reload'.add = reload.add \ {s} /\ reload'.drop = reload.drop
    BY <2>1, <2>2 DEF Quiet, TypeOK
  <2>4. s \in Wants[reload.new]
    BY <2>1 DEF BusyInv
  <2>5. \A x \in Slots : jobs'[x] = IF x = s THEN BuiltFrom(reload.new, reload.new) ELSE jobs[x]
    BY <2>2 DEF TypeOK
  <2>6. BusyInv'
    <3>1. \A x \in Wants[reload.new] \ (reload.add \ {s}) :
             jobs'[x] = BuiltFrom(reload.new, reload.new)
      BY <2>1, <2>5, WantsAssumption DEF BusyInv
    <3>2. intact => \A x \in Live' : /\ jobs'[x].built \in {reload.old, reload.new}
                                     /\ jobs'[x].rides \in {LiveHolder, reload.old, reload.new}
      BY <2>1, <2>2, <2>5 DEF BusyInv, Live
    <3>3. QED
      BY <2>1, <2>2, <2>3, <2>4, <3>1, <3>2 DEF BusyInv, BuiltFrom
  <2>7. BuiltInv'
    BY <2>2, <2>4, <2>5 DEF BuiltInv, Live
  <2>8. QED
    BY <2>3, <2>6, <2>7 DEF QuietInv
<1>6. ASSUME NEW s \in Slots, Remove(s) PROVE TableInv'
  <2>1. s \in reload.drop /\ reload.add = {} /\ ~Quiet
    BY <1>6 DEF Remove, QuietInv
  <2>2. /\ reload' = [reload EXCEPT !.drop = @ \ {s}] /\ holder' = holder /\ intact' = intact
        /\ jobs' = [jobs EXCEPT ![s] = None] /\ Live' = Live \ {s}
    BY <1>6, Removed DEF Remove
  <2>3. ~Quiet' /\ reload'.old = reload.old /\ reload'.new = reload.new
        /\ reload'.add = reload.add /\ reload'.drop = reload.drop \ {s}
    BY <2>1, <2>2 DEF Quiet, TypeOK
  <2>4. \A x \in Slots \ {s} : jobs'[x] = jobs[x]
    BY <2>2 DEF TypeOK
  <2>5. s \notin Wants[reload.new] /\ Wants[reload.new] \subseteq Slots
    BY <2>1, WantsAssumption DEF BusyInv, TypeOK
  <2>6. BusyInv'
    BY <2>1, <2>2, <2>3, <2>4, <2>5 DEF BusyInv, Live, BuiltFrom
  <2>7. BuiltInv'
    BY <2>2, <2>4 DEF BuiltInv, Live
  <2>8. QED
    BY <2>3, <2>6, <2>7 DEF QuietInv
<1>7. CASE Commit
  <2>1. ~Quiet /\ reload.add = {} /\ reload.drop = {}
    BY <1>7 DEF Commit, Reconciled, Quiet
  <2>2. reload' = NoReload(holder) /\ holder' = holder /\ jobs' = jobs /\ Live' = Live
    BY <1>7 DEF Commit, Finish, Live
  <2>3. reload.new = holder /\ Live \subseteq Wants[holder]
        /\ \A s \in Wants[holder] : jobs[s] = BuiltFrom(holder, holder)
    BY <2>1 DEF BusyInv
  <2>4. BuiltFrom(holder, holder) # None /\ Wants[holder] \subseteq Slots
    BY NoneAssumption, WantsAssumption DEF BuiltFrom, Jobs, TypeOK
  <2>5. Live = Wants[holder]
    BY <2>3, <2>4 DEF Live
  <2>6. QED
    BY <2>2, <2>3, <2>5 DEF QuietInv, BusyInv, BuiltInv, Quiet, NoReload, BuiltFrom
<1>8. CASE RollBack
  <2>1. /\ ~Quiet /\ holder' = reload.old /\ jobs' = jobs /\ intact' = intact /\ Live' = Live
        /\ reload' = [step |-> "restore", old |-> reload.new, new |-> reload.old,
                      add |-> Wants[reload.old], drop |-> Live \ Wants[reload.old]]
    BY <1>8 DEF RollBack, Reconcile, Quiet, Live
  <2>2. ~Quiet' /\ reload'.old = reload.new /\ reload'.new = reload.old
        /\ reload'.add = Wants[reload.old] /\ reload'.drop = Live \ Wants[reload.old]
    BY <2>1 DEF Quiet
  <2>3. QED
    BY <2>1, <2>2 DEF QuietInv, BusyInv, BuiltInv
<1>9. CASE RestoreRaises
  BY <1>9 DEF RestoreRaises, Finish, NoReload, QuietInv, BusyInv, BuiltInv, Quiet, Live
<1>10. QED
  BY <1>1, <1>2, <1>3, <1>4, <1>5, <1>6, <1>7, <1>8, <1>9 DEF Next, MainThread, vars,
     EditConfig, EditTemplate, Report, Sighup, Dispatch, TakeSnapshot, EndFire

LEMMA TableAlways == Spec => [](TypeOK /\ TableInv)
<1>1. Init => TypeOK /\ TableInv
  BY TypeInit, TableInit
<1>2. TypeOK /\ TableInv /\ [Next]_vars => (TypeOK /\ TableInv)'
  BY TypeStep, TableStep
<1>3. QED
  BY <1>1, <1>2, PTL DEF Spec

(* Between reloads the table is the live configuration's, job by job.        *)
THEOREM TableMatchesHolds == Spec => []TableMatches
<1>1. TypeOK /\ TableInv => TableMatches
  <2> SUFFICES ASSUME TypeOK, TableInv, Idle, intact PROVE
        Live = Wants[holder] /\ \A s \in Live : jobs[s].built = holder /\ Current(jobs[s].rides) = holder
    BY DEF TableMatches
  <2>1. QED
    BY DEF TableInv, QuietInv, Quiet, Idle, Current
<1>2. QED
  BY <1>1, TableAlways, PTL

(* No job that both configurations of a reload want is ever absent.          *)
THEOREM KeptNeverAbsentHolds == Spec => []KeptNeverAbsent
<1>1. TypeOK /\ TableInv => KeptNeverAbsent
  BY DEF TableInv, BusyInv, Quiet, Idle, KeptNeverAbsent
<1>2. QED
  BY <1>1, TableAlways, PTL

(* No edit of the configuration file is lost on its way to a reload.         *)
THEOREM NoLostEditHolds == Spec => []NoLostEdit
<1>1. Init => NoLostEdit
  BY DEF Init, NoLostEdit
<1>2. TypeOK /\ TableInv /\ NoLostEdit /\ [Next]_vars => NoLostEdit'
  <2> SUFFICES ASSUME TypeOK, TableInv, NoLostEdit, [Next]_vars PROVE NoLostEdit'
    OBVIOUS
  <2> USE DEF NoLostEdit, files, trigger, table, history
  <2>1. CASE Reject \/ Swap
    BY <2>1 DEF Reject, Swap
  <2>2. CASE Service
    BY <2>2 DEF Service, TypeOK
  <2>3. ASSUME NEW s \in Slots, Register(s) \/ Remove(s) PROVE NoLostEdit'
    <3>1. reload'.step = reload.step
      BY <2>3 DEF Register, Remove, TypeOK
    <3>2. QED
      BY <2>3, <3>1 DEF Register, Remove
  <2>4. CASE Commit \/ RollBack \/ RestoreRaises
    BY <2>4 DEF Commit, Reconciled, RollBack, RestoreRaises
  <2>5. QED
    BY <2>1, <2>2, <2>3, <2>4 DEF Next, MainThread, vars,
       EditConfig, EditTemplate, Report, Sighup, Dispatch, TakeSnapshot, EndFire
<1>3. QED
  BY <1>1, <1>2, TableAlways, PTL DEF Spec
-----------------------------------------------------------------------------
(* A fire that waits to take its snapshot has seen the live configuration    *)
(* and what a rollback would return to; it carries the live holder or a      *)
(* configuration it has seen; and that configuration names its location,     *)
(* unless the holder moved while the fire waited.                            *)
Waiting == fire.at = "dispatched"
FireInv ==
  /\ Waiting =>
       /\ holder \in fire.since
       /\ reload.step = "reconcile" => reload.old \in fire.since
       /\ fire.sound =>
            /\ fire.rides \in {LiveHolder} \cup fire.since
            /\ fire.rides # LiveHolder => fire.slot \in Lists[fire.rides]
            /\ fire.rides = LiveHolder /\ fire.since = {holder} => fire.slot \in Lists[holder]
  /\ FireOfItsTime

\* What is in a sound table is named by the configuration it would render.
LEMMA SoundJob ==
  ASSUME TypeOK, TableInv, intact, NEW s \in Live
  PROVE  /\ jobs[s].rides \in {LiveHolder} \cup LiveNow
         /\ jobs[s].rides # LiveHolder => s \in Lists[jobs[s].rides]
         /\ jobs[s].rides = LiveHolder /\ LiveNow = {holder} => s \in Lists[holder]
<1>1. jobs[s] \in Jobs
  BY DEF Live, TypeOK
<1>2. s \in Lists[jobs[s].built] /\ jobs[s].rides \in {LiveHolder, jobs[s].built}
  BY <1>1, ListsAssumption DEF TableInv, BuiltInv, Jobs
<1>3. CASE Quiet
  BY <1>2, <1>3 DEF TableInv, QuietInv, LiveNow, Idle, Quiet
<1>4. CASE ~Quiet
  <2>1. LiveNow = {holder, reload.old, reload.new}
    BY <1>4 DEF LiveNow, Idle, Quiet
  <2>2. jobs[s].built \in {reload.old, reload.new} /\ holder = reload.new
    BY <1>4 DEF TableInv, BusyInv
  <2>3. QED
    BY <1>2, <2>1, <2>2
<1>5. QED
  BY <1>3, <1>4

LEMMA FireStep == TypeOK /\ TableInv /\ FireInv /\ [Next]_vars => FireInv'
<1> SUFFICES ASSUME TypeOK, TableInv, FireInv, [Next]_vars PROVE FireInv'
  OBVIOUS
<1> USE DEF files, trigger, table, history
<1>1. CASE UNCHANGED <<holder, fire>> /\ (reload'.step = "reconcile" => reload' = reload)
  BY <1>1 DEF FireInv, Waiting, FireOfItsTime
<1>2. CASE Service \/ Reject \/ Commit \/ RestoreRaises
  BY <1>1, <1>2 DEF Service, Reject, Commit, RestoreRaises, Finish, NoReload, TypeOK
<1>3. ASSUME NEW s \in Slots, Register(s) \/ Remove(s) PROVE FireInv'
  <2>1. reload'.step = reload.step /\ reload'.old = reload.old /\ UNCHANGED <<holder, fire>>
    BY <1>3 DEF Register, Remove, TypeOK
  <2>2. QED
    BY <2>1 DEF FireInv, Waiting, FireOfItsTime
<1>4. CASE Swap
  <2>1. holder' = disk /\ reload'.old = holder
    BY <1>4 DEF Swap, Reconcile
  <2>2. CASE Waiting
    <3>1. fire \in [at : {"dispatched"}, slot : Slots, rides : Configs \cup {LiveHolder},
                    since : SUBSET Configs, sound : BOOLEAN]
      BY <2>2 DEF Waiting, TypeOK, NoFire
    <3>2. /\ fire'.at = "dispatched" /\ fire'.since = fire.since \cup {disk}
          /\ fire'.rides = fire.rides /\ fire'.slot = fire.slot /\ fire'.sound = fire.sound
      BY <1>4, <2>2, <3>1 DEF Swap, FireWitnesses, Waiting
    <3>3. fire'.since = {disk} => fire.since = {holder} /\ holder = disk
      BY <2>2, <3>2 DEF FireInv
    <3>4. QED
      BY <2>1, <2>2, <3>2, <3>3 DEF FireInv, Waiting, FireOfItsTime
  <2>3. CASE ~Waiting
    BY <1>4, <2>3 DEF Swap, FireWitnesses, FireInv, Waiting, FireOfItsTime
  <2>4. QED
    BY <2>2, <2>3
<1>5. CASE RollBack
  <2>1. holder' = reload.old /\ fire' = fire /\ reload.step = "reconcile" /\ reload'.step = "restore"
    BY <1>5 DEF RollBack, Reconcile
  <2>2. Waiting /\ fire.since = {reload.old} => holder = reload.old
    BY <2>1 DEF FireInv
  <2>3. QED
    BY <2>1, <2>2 DEF FireInv, Waiting, FireOfItsTime
<1>6. ASSUME NEW s \in Slots, Dispatch(s) PROVE FireInv'
  <2>1. /\ s \in Live /\ UNCHANGED <<holder, reload>>
        /\ fire' = [at |-> "dispatched", slot |-> s, rides |-> jobs[s].rides,
                    since |-> LiveNow, sound |-> intact]
    BY <1>6 DEF Dispatch
  <2>2. holder \in LiveNow /\ (reload.step = "reconcile" => reload.old \in LiveNow)
    BY DEF LiveNow, Idle
  <2>3. QED
    BY <2>1, <2>2, SoundJob DEF FireInv, Waiting, FireOfItsTime
<1>7. CASE TakeSnapshot
  <2>1. Waiting /\ fire' = [at |-> "rendering", slot |-> fire.slot, config |-> Current(fire.rides),
                            since |-> fire.since, sound |-> fire.sound]
    BY <1>7 DEF TakeSnapshot, Waiting
  <2>2. fire.sound => /\ Current(fire.rides) \in fire.since
                      /\ \/ fire.slot \in Lists[Current(fire.rides)]
                         \/ fire.since # {Current(fire.rides)}
    BY <2>1 DEF FireInv, Current
  <2>3. QED
    BY <2>1, <2>2 DEF FireInv, Waiting, FireOfItsTime
<1>8. CASE EndFire
  BY <1>8 DEF EndFire, NoFire, FireInv, Waiting, FireOfItsTime
<1>9. QED
  BY <1>1, <1>2, <1>3, <1>4, <1>5, <1>6, <1>7, <1>8 DEF Next, MainThread, vars,
     EditConfig, EditTemplate, Report, Sighup

(* A fire renders a configuration that was live while it ran, and misses its *)
(* location only if it met a change of configuration.                        *)
THEOREM FireOfItsTimeHolds == Spec => []FireOfItsTime
<1>1. Init => FireInv
  BY DEF Init, NoFire, FireInv, Waiting, FireOfItsTime
<1>2. TypeOK /\ TableInv /\ FireInv /\ [Next]_vars => FireInv'
  BY FireStep
<1>3. FireInv => FireOfItsTime
  BY DEF FireInv
<1>4. QED
  BY <1>1, <1>2, <1>3, TableAlways, PTL DEF Spec
-----------------------------------------------------------------------------
\* The jobs of a diff are among the slots, and no job is to be added and dropped.
LEMMA DiffFinite ==
  ASSUME NEW A \in SUBSET Slots
  PROVE  IsFiniteSet(A) /\ Cardinality(A) \in Nat /\ Cardinality(A) <= Cardinality(Slots)
         /\ Cardinality(Slots) \in Nat
BY SlotsAssumption, FS_Subset, FS_CardinalityType

\* What a reload has left to do is a number, at most that of its validation.
LEMMA LeftBounded == TypeOK => ReloadBounded
<1> SUFFICES ASSUME TypeOK PROVE ReloadBounded
  OBVIOUS
<1> DEFINE pending == Cardinality(reload.add \cup reload.drop)
<1>1. pending \in Nat /\ Cardinality(Slots) \in Nat /\ pending <= Cardinality(Slots)
  <2>1. reload.add \cup reload.drop \in SUBSET Slots
    BY DEF TypeOK
  <2>2. QED
    BY <2>1, DiffFinite
<1>2. reload.step \in Steps
  BY DEF TypeOK
<1> HIDE DEF pending
<1>3. CallsLeft = CASE reload.step = "idle"      -> 0
                    [] reload.step = "restore"   -> 1 + pending
                    [] reload.step = "reconcile" -> 2 + Cardinality(Slots) + pending
                    [] reload.step = "validate"  -> 3 + 2 * Cardinality(Slots)
  BY DEF CallsLeft, pending
<1>4. QED
  BY <1>1, <1>2, <1>3 DEF ReloadBounded, Steps, Idle

\* A call of the main thread does a part of what is left.
LEMMA MainThreadShortens ==
  ASSUME TypeOK, TypeOK', TableInv, ~Idle, MainThread
  PROVE  CallsLeft' < CallsLeft
<1> DEFINE N == Cardinality(Slots)
           left == Cardinality(reload.add \cup reload.drop)
<1>0. left \in Nat /\ left' \in Nat /\ N \in Nat /\ left <= N /\ left' <= N
  <2>1. reload.add \cup reload.drop \in SUBSET Slots /\ (reload.add \cup reload.drop)' \in SUBSET Slots
    BY DEF TypeOK
  <2>2. QED
    BY <2>1, DiffFinite
<1>1. CallsLeft = CASE reload.step = "idle"      -> 0
                    [] reload.step = "restore"   -> 1 + left
                    [] reload.step = "reconcile" -> 2 + N + left
                    [] reload.step = "validate"  -> 3 + 2 * N
  BY DEF CallsLeft
<1>2. CallsLeft' = CASE reload'.step = "idle"      -> 0
                     [] reload'.step = "restore"   -> 1 + left'
                     [] reload'.step = "reconcile" -> 2 + N + left'
                     [] reload'.step = "validate"  -> 3 + 2 * N
  BY DEF CallsLeft
<1>3. ~Service
  BY DEF Service
<1>4. CASE Reject
  <2>1. reload.step = "validate" /\ reload'.step = "idle"
    BY <1>4 DEF Reject, Finish, NoReload
  <2>2. QED
    BY <1>0, <1>1, <1>2, <2>1
<1>5. CASE Swap
  <2>1. reload.step = "validate" /\ reload'.step = "reconcile"
    BY <1>5 DEF Swap, Reconcile
  <2>2. QED
    BY <1>0, <1>1, <1>2, <2>1
<1>6. ASSUME NEW s \in Slots, Register(s) \/ Remove(s) PROVE CallsLeft' < CallsLeft
  <2>1. ~Quiet
    BY <1>6 DEF Register, Remove, TableInv, QuietInv
  <2>2. s \in reload.add \cup reload.drop /\ reload'.step = reload.step
        /\ (reload.add \cup reload.drop)' = (reload.add \cup reload.drop) \ {s}
    <3>1. reload.add \cap reload.drop = {}
      BY <2>1 DEF TableInv, BusyInv
    <3>2. CASE Register(s)
      BY <3>1, <3>2 DEF Register, TypeOK
    <3>3. CASE Remove(s)
      BY <3>1, <3>3 DEF Remove, TypeOK
    <3>4. QED
      BY <1>6, <3>2, <3>3
  <2>3. IsFiniteSet(reload.add \cup reload.drop)
    BY DiffFinite DEF TypeOK
  <2>4. left' = left - 1
    BY <2>2, <2>3, FS_RemoveElement
  <2>5. reload.step \in {"reconcile", "restore"}
    BY <2>1 DEF Quiet, TypeOK, Steps
  <2> HIDE DEF N, left
  <2>6. QED
    BY <1>0, <1>1, <1>2, <2>2, <2>4, <2>5
<1>7. CASE Commit \/ RestoreRaises
  <2>1. reload.step \in {"reconcile", "restore"} /\ reload'.step = "idle"
    BY <1>7 DEF Commit, RestoreRaises, Reconciled, Finish, NoReload
  <2> HIDE DEF N, left
  <2>2. QED
    BY <1>0, <1>1, <1>2, <2>1
<1>8. CASE RollBack
  <2>1. reload.step = "reconcile" /\ reload'.step = "restore"
    BY <1>8 DEF RollBack, Reconcile
  <2> HIDE DEF N, left
  <2>2. QED
    BY <1>0, <1>1, <1>2, <2>1
<1>9. QED
  BY <1>3, <1>4, <1>5, <1>6, <1>7, <1>8 DEF MainThread

(* Every call of the main thread brings a reload nearer its end, whatever    *)
(* raises, and nothing else moves it: the poll loop comes back to its flag.  *)
THEOREM ReloadShortensHolds == Spec => ReloadShortens
<1> DEFINE Shorter == ~Idle => /\ CallsLeft' <= CallsLeft
                               /\ MainThread => CallsLeft' < CallsLeft
<1>1. TypeOK /\ TypeOK' /\ TableInv /\ [Next]_vars => [Shorter]_vars
  <2> SUFFICES ASSUME TypeOK, TypeOK', TableInv, Next, ~Idle
               PROVE  CallsLeft' <= CallsLeft /\ (MainThread => CallsLeft' < CallsLeft)
    OBVIOUS
  <2>1. CallsLeft \in Nat /\ CallsLeft' \in Nat
    <3>1. ReloadBounded /\ ReloadBounded'
      BY LeftBounded, PTL
    <3>2. QED
      BY <3>1 DEF ReloadBounded
  <2>2. CASE MainThread
    BY <2>1, <2>2, MainThreadShortens
  <2>3. CASE ~MainThread
    <3>1. UNCHANGED reload
      BY <2>3 DEF Next, EditConfig, EditTemplate, Report, Sighup, Dispatch, TakeSnapshot, EndFire, table
    <3>2. CallsLeft' = CallsLeft
      BY <3>1 DEF CallsLeft
    <3>3. QED
      BY <2>1, <2>3, <3>2
  <2>4. QED
    BY <2>2, <2>3
<1>2. QED
  BY <1>1, TableAlways, PTL DEF Spec, ReloadShortens

(* So a reload is over within two calls per slot and three more.             *)
THEOREM ReloadBoundedHolds == Spec => []ReloadBounded
BY TypeCorrect, LeftBounded, PTL
-----------------------------------------------------------------------------
(* The reload engine keeps the promise of the holder: what is live changes   *)
(* by a swap, and until the reconcile is through by the rollback to what the *)
(* swap replaced, and by nothing else.                                       *)
THEOREM HolderKept == Spec => ImplementsHolder
<1>1. Init => Holder!Init
  BY DEF Init, NoReload, Holder!Init, Fallback
<1>2. TypeOK /\ [Next]_vars => [Holder!Next]_(Holder!configVars)
  <2> SUFFICES ASSUME TypeOK, [Next]_vars PROVE [Holder!Next]_(Holder!configVars)
    OBVIOUS
  <2> USE DEF files, trigger, table, history, Holder!configVars, Fallback
  <2>1. CASE UNCHANGED <<holder, reload>>
    BY <2>1
  <2>2. CASE Service \/ Reject
    BY <2>2 DEF Service, Reject, Finish, NoReload, TypeOK, Idle
  <2>3. CASE Swap
    <3>1. /\ reload.step = "validate" /\ reload'.step = "reconcile"
          /\ reload'.old = holder /\ holder' = disk /\ disk \in Configs
      BY <2>3 DEF Swap, Valid, Reconcile
    <3>2. Holder!Replace(disk)
      BY <3>1 DEF Holder!Replace
    <3>3. QED
      BY <3>1, <3>2 DEF Holder!Next
  <2>4. ASSUME NEW s \in Slots, Register(s) \/ Remove(s) PROVE UNCHANGED Holder!configVars
    BY <2>4 DEF Register, Remove, TypeOK
  <2>5. CASE Commit \/ RestoreRaises
    <3>1. /\ reload.step \in {"reconcile", "restore"}
          /\ holder' = holder /\ reload'.step = "idle"
      BY <2>5 DEF Commit, RestoreRaises, Reconciled, Finish, NoReload
    <3>2. CASE reload.step = "reconcile"
      BY <3>1, <3>2 DEF Holder!Next, Holder!Keep
    <3>3. CASE reload.step = "restore"
      BY <3>1, <3>3
    <3>4. QED
      BY <3>1, <3>2, <3>3
  <2>6. CASE RollBack
    BY <2>6 DEF RollBack, Reconcile, Holder!Next, Holder!PutBack
  <2>7. QED
    BY <2>1, <2>2, <2>3, <2>4, <2>5, <2>6 DEF Next, MainThread, vars,
       EditConfig, EditTemplate, Report, Sighup, Dispatch, TakeSnapshot, EndFire
<1>3. QED
  BY <1>1, <1>2, TypeCorrect, PTL DEF Spec, Holder!Spec, ImplementsHolder
=============================================================================
