------------------------------- MODULE Reload -------------------------------
(***************************************************************************)
(* Hot reload of the configuration: the hub's ReloadEngine as build_runtime*)
(* wires it (scheduler/wiring.py), the job table it reconciles             *)
(* (_register_jobs, _reconcile_jobs and _restore_jobs in daemon.py), the   *)
(* file-watch observer and SIGHUP that request it, and a fire of the pool  *)
(* that runs while it works.                                               *)
(*                                                                         *)
(* The main thread reloads: validate, replace the holder, register every   *)
(* wanted job, remove the others; on a raise, replace the holder back and  *)
(* reconcile the jobs to the old configuration as well as it can.  Other   *)
(* threads see the holder and the job table between any two of its calls.  *)
(***************************************************************************)
EXTENDS Naturals, FiniteSets

CONSTANTS Configs,     \* configurations that parse
          Unparsable,  \* what a file that does not parse contains
          Slots,       \* job ids: a location's name, time and days
          Templates,   \* template files
          Wants,       \* Wants[c]: the enabled slots of c, _desired_job_ids
          Lists,       \* Lists[c]: the slots c lists, enabled or not
          TemplateOf,  \* TemplateOf[c][s]: the file a fire of s under c renders
          LiveHolder,  \* the daemon's ConfigHolder, as a job's kwarg
          MaxRaises,   \* bound: raises of a registration or a removal
          None

ASSUME ConfigsAssumption == Unparsable \notin Configs /\ LiveHolder \notin Configs
ASSUME WantsAssumption == Wants \in [Configs -> SUBSET Slots]
ASSUME ListsAssumption ==
  /\ Lists \in [Configs -> SUBSET Slots]
  /\ \A c \in Configs : Wants[c] \subseteq Lists[c]
ASSUME TemplateAssumption == TemplateOf \in [Configs -> [Slots -> Templates]]
ASSUME RaisesAssumption == MaxRaises \in Nat
ASSUME SlotsAssumption == IsFiniteSet(Slots)

VARIABLES
  disk,       \* what config.toml holds
  broken,     \* template files with an unknown token, or missing
  watched,    \* template files the observer's filter lets through
  notice,     \* the file system has a change the observer has not reported
  requested,  \* ReloadEngine._reload_requested
  holder,     \* ConfigHolder.current()
  reload,     \* the reload in progress: its step, its configurations, the jobs to add and drop
  jobs,       \* the scheduler's table: what each registered job carries
  fire,       \* a run of some job on the pool
  raised,     \* bound: raises so far
  seen,       \* history: what the last validation read
  intact      \* history: no restore has failed since the last reconcile

files == <<disk, broken, watched>>
trigger == <<notice, requested>>
table == <<holder, reload, jobs>>
history == <<raised, seen, intact>>
vars == <<files, trigger, table, fire, history>>

\* The templates a reload of c validates and the watch filter is built from.
Referenced(c) == {TemplateOf[c][s] : s \in Lists[c]}

\* Mutant of BuiltFrom: the location and slot are taken from the holder given.
BuiltFromHolder(c, holderGiven) == [built |-> holderGiven, rides |-> holderGiven]

\* _register_jobs bakes the location and the slot of the configuration it is
\* given, and hands over the holder it is given.
Jobs == [built : Configs, rides : Configs \cup {LiveHolder}]
BuiltFrom(c, holderGiven) == [built |-> c, rides |-> holderGiven]
ASSUME NoneAssumption == None \notin Jobs

\* What a holder answers to current(): a transient ConfigHolder(c) is never replaced.
Current(rides) == IF rides = LiveHolder THEN holder ELSE rides

Live == {s \in Slots : jobs[s] # None}
Idle == reload.step = "idle"

Steps == {"idle", "validate", "reconcile", "restore"}
NoReload(c) == [step |-> "idle", old |-> c, new |-> c, add |-> {}, drop |-> {}]
NoFire == [at |-> "none"]

\* The configurations a fire that starts now may find live: the present one
\* and, during a reload, the one it replaces or returns to.
LiveNow == {holder} \cup (IF Idle THEN {} ELSE {reload.old, reload.new})

Init ==
  /\ disk \in Configs
  /\ broken = {}
  /\ watched = Referenced(disk)
  /\ notice = FALSE
  /\ requested = FALSE
  /\ holder = disk
  /\ reload = NoReload(disk)
  /\ jobs = [s \in Slots |-> IF s \in Wants[disk] THEN BuiltFrom(disk, LiveHolder) ELSE None]
  /\ fire = NoFire
  /\ raised = 0
  /\ seen = disk
  /\ intact = TRUE

-----------------------------------------------------------------------------
(* The operator edits files; the observer and SIGHUP request a reload. *)

EditConfig(content) ==
  /\ content # disk
  /\ disk' = content
  /\ notice' = TRUE
  /\ UNCHANGED <<broken, watched, requested, table, fire, history>>

\* The watch filter was built once, from the configuration of the start.
EditTemplate(t) ==
  /\ broken' = IF t \in broken THEN broken \ {t} ELSE broken \cup {t}
  /\ notice' = (notice \/ t \in watched)
  /\ UNCHANGED <<disk, watched, requested, table, fire, history>>

\* The observer's settled change-set calls request_reload, which sets the flag.
Report ==
  /\ notice
  /\ notice' = FALSE
  /\ requested' = TRUE
  /\ UNCHANGED <<files, table, fire, history>>

Sighup ==
  /\ requested' = TRUE
  /\ UNCHANGED <<files, notice, table, fire, history>>

-----------------------------------------------------------------------------
(* The main thread: service_pending and reload. *)

Finish == reload' = NoReload(holder)

\* Mutant of Service: a raise of reload ends the poll loop.
ServiceUntilRaise ==
  /\ requested
  /\ Idle
  /\ raised = 0
  /\ requested' = FALSE
  /\ reload' = [reload EXCEPT !.step = "validate"]
  /\ UNCHANGED <<files, notice, holder, jobs, fire, history>>

\* The poll loop: service_pending clears the flag, then calls reload.
Service ==
  /\ requested
  /\ Idle
  /\ requested' = FALSE
  /\ reload' = [reload EXCEPT !.step = "validate"]
  /\ UNCHANGED <<files, notice, holder, jobs, fire, history>>

\* validate_config_and_templates: the file parses and its templates are sound.
Valid(content) == content \in Configs /\ Referenced(content) \cap broken = {}

\* Validation raises: on_rejected posts, the poll loop swallows, nothing changes.
Reject ==
  /\ reload.step = "validate"
  /\ ~Valid(disk)
  /\ seen' = disk
  /\ Finish
  /\ UNCHANGED <<files, trigger, holder, jobs, fire, raised, intact>>

\* The configurations that were live while the fire waits to take its snapshot.
FireWitnesses(c) ==
  fire' = IF fire.at = "dispatched" THEN [fire EXCEPT !.since = @ \cup {c}] ELSE fire

\* Mutant of Reconcile: the diff only adds.
ReconcileAddsOnly(step, old, new) ==
  reload' = [step |-> step, old |-> old, new |-> new, add |-> Wants[new], drop |-> {}]

\* A reconcile of the job table to what new wants: its diff is taken first.
Reconcile(step, old, new) ==
  reload' = [step |-> step, old |-> old, new |-> new,
             add |-> Wants[new], drop |-> Live \ Wants[new]]

\* Mutant of Swap: the table is cleared before it is built again.
SwapAndClear ==
  /\ reload.step = "validate"
  /\ Valid(disk)
  /\ seen' = disk
  /\ holder' = disk
  /\ FireWitnesses(disk)
  /\ Reconcile("reconcile", holder, disk)
  /\ jobs' = [s \in Slots |-> None]
  /\ UNCHANGED <<files, trigger, raised, intact>>

\* Validation passes and the holder is replaced; the reconcile begins.
Swap ==
  /\ reload.step = "validate"
  /\ Valid(disk)
  /\ seen' = disk
  /\ holder' = disk
  /\ FireWitnesses(disk)
  /\ Reconcile("reconcile", holder, disk)
  /\ UNCHANGED <<files, trigger, jobs, raised, intact>>

\* Mutant of AddJob: a job that is already there is left as it is.
AddMissingJob(s, c) ==
  jobs' = IF s \in Live THEN jobs ELSE [jobs EXCEPT ![s] = BuiltFrom(c, c)]

\* add_job(replace_existing=True): the closures hand over a transient holder of c.
AddJob(s, c) == jobs' = [jobs EXCEPT ![s] = BuiltFrom(c, c)]

\* _register_jobs: one add_job for each job the configuration wants.
Register(s) ==
  /\ s \in reload.add
  /\ AddJob(s, reload.new)
  /\ reload' = [reload EXCEPT !.add = @ \ {s}]
  /\ UNCHANGED <<files, trigger, holder, fire, history>>

\* Once all are registered, what was live and is not wanted is removed.
Remove(s) ==
  /\ reload.add = {}
  /\ s \in reload.drop
  /\ jobs' = [jobs EXCEPT ![s] = None]
  /\ reload' = [reload EXCEPT !.drop = @ \ {s}]
  /\ UNCHANGED <<files, trigger, holder, fire, history>>

\* The reconcile, of the reload or of its restore, is through.
Reconciled ==
  /\ reload.step \in {"reconcile", "restore"}
  /\ reload.add = {}
  /\ reload.drop = {}

\* Mutant of Commit: the request flag is cleared when the reload is done.
CommitAndClear ==
  /\ Reconciled
  /\ intact' = TRUE
  /\ requested' = FALSE
  /\ Finish
  /\ UNCHANGED <<files, notice, holder, jobs, fire, raised, seen>>

\* reload returns, or raises after a restore: either way the poll loop goes on.
Commit ==
  /\ Reconciled
  /\ intact' = TRUE
  /\ Finish
  /\ UNCHANGED <<files, trigger, holder, jobs, fire, raised, seen>>

\* The reconcile raises: the holder goes back, and _restore_jobs reconciles to it.
RollBack ==
  /\ reload.step = "reconcile"
  /\ raised < MaxRaises
  /\ raised' = raised + 1
  /\ holder' = reload.old
  /\ Reconcile("restore", reload.new, reload.old)
  /\ UNCHANGED <<files, trigger, jobs, fire, seen, intact>>

\* A raise of the restore is swallowed: the table is left as it is.
RestoreRaises ==
  /\ reload.step = "restore"
  /\ raised < MaxRaises
  /\ raised' = raised + 1
  /\ intact' = FALSE
  /\ Finish
  /\ UNCHANGED <<files, trigger, holder, jobs, fire, seen>>

MainThread ==
  \/ Service \/ Reject \/ Swap
  \/ \E s \in Slots : Register(s) \/ Remove(s)
  \/ Commit \/ RollBack \/ RestoreRaises

-----------------------------------------------------------------------------
(* A fire: the pool runs a job with the kwargs it had when it was dispatched. *)

Dispatch(s) ==
  /\ fire = NoFire
  /\ s \in Live
  /\ fire' = [at |-> "dispatched", slot |-> s, rides |-> jobs[s].rides,
              since |-> LiveNow, sound |-> intact]
  /\ UNCHANGED <<files, trigger, table, history>>

\* fire_slot and fire_forecast_slot call holder.current() once, then render.
TakeSnapshot ==
  /\ fire.at = "dispatched"
  /\ fire' = [at |-> "rendering", slot |-> fire.slot, config |-> Current(fire.rides),
              since |-> fire.since, sound |-> fire.sound]
  /\ UNCHANGED <<files, trigger, table, history>>

\* lookup_weather reads the template from disk; the fire ends, one way or another.
EndFire ==
  /\ fire.at = "rendering"
  /\ fire' = NoFire
  /\ UNCHANGED <<files, trigger, table, history>>

-----------------------------------------------------------------------------
Next ==
  \/ \E content \in Configs \cup {Unparsable} : EditConfig(content)
  \/ \E t \in Templates : EditTemplate(t)
  \/ Report \/ Sighup
  \/ MainThread
  \/ \E s \in Slots : Dispatch(s)
  \/ TakeSnapshot \/ EndFire

Spec == Init /\ [][Next]_vars

\* The observer reports a change it was given; the main thread polls and
\* carries a reload through.  Nobody has to edit, signal or fire.
FairSpec == Spec /\ WF_vars(Report) /\ WF_vars(MainThread)

-----------------------------------------------------------------------------
TypeOK ==
  /\ disk \in Configs \cup {Unparsable}
  /\ broken \subseteq Templates
  /\ watched \subseteq Templates
  /\ notice \in BOOLEAN
  /\ requested \in BOOLEAN
  /\ holder \in Configs
  /\ reload \in [step : Steps, old : Configs, new : Configs,
                add : SUBSET Slots, drop : SUBSET Slots]
  /\ jobs \in [Slots -> Jobs \cup {None}]
  /\ fire \in {NoFire}
       \cup [at : {"dispatched"}, slot : Slots, rides : Configs \cup {LiveHolder},
             since : SUBSET Configs, sound : BOOLEAN]
       \cup [at : {"rendering"}, slot : Slots, config : Configs,
             since : SUBSET Configs, sound : BOOLEAN]
  /\ raised \in 0..MaxRaises
  /\ seen \in Configs \cup {Unparsable}
  /\ intact \in BOOLEAN

(* Between reloads the table holds exactly the jobs the live configuration  *)
(* wants, each with the location, time zone and slot of that configuration  *)
(* and rendering that configuration: after a commit the new one, after a    *)
(* rejection or a rollback the old one, whatever raised on the way, unless  *)
(* the restore itself raised.                                               *)
TableMatches ==
  Idle /\ intact =>
    /\ Live = Wants[holder]
    /\ \A s \in Live : jobs[s].built = holder /\ Current(jobs[s].rides) = holder

(* A job that both configurations want is in the table at every moment of a *)
(* reload between them, so no run of it falls into a gap.                   *)
KeptNeverAbsent ==
  ~Idle /\ reload.step # "validate" /\ intact =>
    Wants[reload.old] \cap Wants[reload.new] \subseteq Live

(* A fire renders a configuration that was live while it ran, or that the   *)
(* reload it met replaced; and it finds its slot unlisted (its location may *)
(* be gone, which fails the fire) only if it met a change of configuration. *)
FireOfItsTime ==
  fire.at = "rendering" /\ fire.sound =>
    /\ fire.config \in fire.since
    /\ fire.slot \in Lists[fire.config] \/ fire.since # {fire.config}

(* No edit of the configuration file is lost: what the last reload read is  *)
(* what the file holds, or a reload that will read it is on its way.        *)
NoLostEdit ==
  \/ seen = disk
  \/ notice \/ requested \/ reload.step = "validate"

(* A noticed edit is read by a reload, unless another edit replaces it.     *)
EditServed ==
  \A c \in Configs \cup {Unparsable} :
    (disk = c /\ notice) ~> (seen = c \/ disk # c)

\* The calls the reload in progress still makes at most: one for each job left
\* to register or to remove, a restore of every slot if the reconcile raises.
CallsLeft ==
  LET pending == Cardinality(reload.add \cup reload.drop)
      all     == Cardinality(Slots)
  IN  CASE reload.step = "idle"      -> 0
        [] reload.step = "restore"   -> 1 + pending
        [] reload.step = "reconcile" -> 2 + all + pending
        [] reload.step = "validate"  -> 3 + 2 * all

(* What EditServed rests on: every call of the main thread brings the reload *)
(* in progress nearer its end, the raises, the rollback and the restore      *)
(* included, and no edit, request or fire takes it away from it, so that the *)
(* poll loop always comes back to the request flag.                          *)
ReloadShortens ==
  [][~Idle => /\ CallsLeft' <= CallsLeft
              /\ MainThread => CallsLeft' < CallsLeft]_vars

(* A reload is over after at most two calls per slot and three more.         *)
ReloadBounded == CallsLeft \in 0..(3 + 2 * Cardinality(Slots)) /\ (CallsLeft = 0 <=> Idle)

(* The holder as its readers see it: until the jobs are reconciled a reload  *)
(* may still go back, to the configuration it replaced.                      *)
Fallback == IF reload.step = "reconcile" THEN {reload.old} ELSE {}

Holder == INSTANCE LiveConfig WITH live <- holder, fallback <- Fallback

(* The engine keeps the holder's promise: registrations, removals, rollbacks *)
(* and failed restores change nothing else of what is live.                  *)
ImplementsHolder == Holder!Spec

(* loader.py: a bad template is rejected at reload (keep-old), so a typo'd  *)
(* token never reaches a scheduled fire.  Stated where nothing is pending:  *)
(* the reload has had its say about the files as they are.                  *)
TypoNeverFires ==
  Idle /\ ~notice /\ ~requested /\ fire.at = "rendering" /\ fire.since = {holder} =>
    TemplateOf[fire.config][fire.slot] \notin broken
=============================================================================
