# A TLA+ model of WeatherBot

WeatherBot is a daemon that posts weather briefings to Discord at the local
times a configuration names.  This directory holds TLA+ modules of the parts of
it in which the *order* of things matters, the TLC configurations that check
them on small instances, and TLAPS proofs of the properties that matter most for
every instance.

Line numbers below are of the files under `weatherbot/` (`src/weatherbot/` in
PROJECT.json).

## 1. The system

| Part | State it keeps | Operations | What is hard | What makes it correct |
|---|---|---|---|---|
| **Briefing delivery**: `fire_slot` (scheduler/daemon.py), `send_now` (cli.py), `sent_log`, `alerts`, `heartbeat` (weather/store.py), the Discord channel | one `sent_log` row per claimed (location, time, local date); one `alerts` row; the `last_success` stamp | claim, fetch and post with retries, persist, resolve, stamp; on failure release and alert; a broad except that repairs | overlapping fires; a raise of any store call at any point; kills between two calls; retries of what was already posted | one fire at a time, at most one delivery, no lost briefing without an alert, no slot left claimed undelivered |
| **Daemon lifecycle**: `run_daemon` (daemon.py), `build_runtime` (wiring.py), the unit file (deploy/) | signal handlers, PID file, `stop`, `fatal`, `_reload_requested`, READY | plan and run the catch-up, install handlers, write the PID file, probe until healthy, start the scheduler, poll, tear down | signals and kills at any point; time that passes during the catch-up and the gate; restarts | every slot is fired or accounted for, on its own date; a stop ends the process; the exit status, READY and PID file are truthful |
| **Catch-up planner**: `plan_catchup` (catchup.py) | none; reads `sent_log` and the clock | which slots were missed within 90 minutes | boundaries of the grace window, local dates, DST | agrees with the live job about which slot is due |
| **Configuration reload**: the hub's `ReloadEngine`, wired in wiring.py; `_register_jobs`, `_reconcile_jobs`, `_restore_jobs` (daemon.py) | the live configuration (`ConfigHolder`), the job table | validate, swap, register, remove, roll back, `on_applied` hooks | jobs fire while it runs; half of it fails | the job table is what the live configuration wants, or what the old one wanted |
| **Forecast cache**: `ForecastCache` (interactive/cache.py) | entries with a time to live, a generation | lookup (probe, fetch without the lock, guarded store), eviction, invalidate | a reload during a fetch; a full cache | no entry of an old configuration is served until its TTL |
| **UV monitor**: `_uv_monitor_tick` (uvmonitor.py), `compute_uv` (weather/uv.py) | `uv_alerts` rows, one per kind, location and day | each tick: fetch, decide on pre-warning, crossing, all-clear | a crash between claim and post; forecast and measurement that disagree | each alert at most once a day, in order, and none lost without a crash |
| **Scheduled forecasts**: `fire_forecast_slot` (daemon.py) | a failure streak per slot, in memory, without a lock | send; on the third failure in a row alert once; a reload prunes the streaks of slots that are gone | fires that end after their slot was pruned; a reload that rolls back | one alert per run of failures |
| **Inbound bot and panel**: bot.py, panel.py, dispatch.py, `_reconcile_selection` (wiring.py) | the selected location; the summoned panel | choose, tap, type a command, summon | two threads write the selection; choice, configuration and selection change across awaits; acknowledgements and edits that fail | an answer is about the location it names; the selection is what the operator was last shown; the panel works again after each tap |
| **PID file**: ops/pidfile.py, `do_reload` (cli.py) | the PID file | write atomically, check `/proc`, signal | a stale file; a signal that arrives before the handler or during the shutdown | a reload only signals a running daemon, and does not kill it |
| Weather client and model, templates, command registry and parser, configuration loader, channels' formatting, one-shot commands | none that outlives a call | pure functions and one HTTP call each | values, not order | unit tests |
| Hub library `yahir_reusable_bot` (a dependency, not in the repository) | retry policy, ready gate, reload engine, scheduler engine, bot thread | | | modelled from how this code calls it |

**How they interact.**  Cron jobs of APScheduler's pool and the catch-up loop of
the main thread call `fire_slot`; both meet only in the SQLite tables.  The main
thread runs the ready gate, then the poll loop, which services reload requests
set by SIGHUP or the file watcher.  A reload replaces the configuration under
the jobs, the UV monitor and the bot, which each take a snapshot of it when they
start.  Its side effects then run in order on the main thread: they invalidate
the forecast cache the bot's executor threads fill, prune the failure streaks
the pool counts, and reset the selection the gateway loop writes.  Nothing in
memory survives a restart: the catch-up rebuilds what is due from `sent_log`;
what does survive is the panel's message, which Discord keeps.

## 2. Modules

| Module | Models | Checked by | Proved in |
|---|---|---|---|
| `Delivery` | `fire_slot`, `send_now`, the store's tables | `delivery`, `delivery_inviolable` | `DeliveryProofs` |
| `SlotLease` | what a row of `sent_log` or `uv_alerts` promises (abstract) | refined by `Delivery` in `delivery` | `DeliveryProofs`, `UvMonitorProofs`; refined also in `StartupProofs` |
| `LiveConfig` | what the configuration holder promises its readers (abstract) | | refined in `ReloadProofs`, `ForecastCacheProofs`, `PanelProofs`, `ForecastStreakProofs`, `SurfacesProofs` |
| `ForecastCache` | `ForecastCache` and its readers against a reload | `cache`, `cache_stale` | `ForecastCacheProofs` |
| `Reload` | the reload engine as wired, the job table, its requests and a fire | `reload`, `reload_typo` | `ReloadProofs` |
| `LocalTime` | the calendar of `plan_catchup`: zones, dates, folds and gaps, against the live trigger (operators, no state) | `startup`, as `PlanExact` | `StartupProofs` |
| `Startup` | `build_runtime`, `run_daemon`, the plan and the live jobs over several days, signals, restarts, `do_reload` | `startup`, `startup_gap`, `startup_sigterm` | `StartupProofs` |
| `UvWindow` | the crossing, window and peak of `compute_uv` (operators, no state) | `uv`, as `WindowWhole` | `UvMonitorProofs` |
| `UvMonitor` | the UV monitor's ticks, decisions, claims and posts | `uv`, `uv_evening` | `UvMonitorProofs` |
| `ConfigSwap` | a reload as other threads see it: the swap and its side effects in order | in `surfaces` | |
| `Panel` | the panel, typed commands and the selection, against a reload | in `surfaces` | `PanelProofs` |
| `ForecastStreak` | scheduled forecasts and their failure streaks, against a reload | in `surfaces` | `ForecastStreakProofs` |
| `Surfaces` | gateway loop, pool and main thread composed: `Panel` and `ForecastStreak` share one reload | `surfaces` | `SurfacesProofs` |

Each `MC*` module only instantiates the constants of the module it extends.
Definitions that start with "Mutant of" in their comment are wrong variants of
the definition that follows them, each the trace of a plausible bug; they are
part of no specification and show that a property would notice the bug.

### Delivery

`pc[w]` is the next *call* of worker `w`'s fire: one action per store call and
per outcome of a network call, because a store call is one SQLite transaction
and everything between two calls is local to the thread.  `HoldingSteps` are the
calls made while the local flag `claimed` is set: the flag is not a variable of
its own, because each call site fixes its value (`release` and `recoverRelease`
have it set, `alert` and `recoverAlert` do not).  The branches are those of the
code: a lost claim ends the fire; a 401/403 or the last transient failure goes to
`release` and `alert`; any other raise goes to the broad except
(`recoverRelease`, `recoverAlert`), whose own raise ends the fire; the tail
after a success swallows every raise.  `PersistRaises` is the raise of
`persist` *inside* `send_now`, which the tail does not cover.  `Sigterm` stops
new fires and `Exit` joins the pool, `Crash` loses everything but the tables.

Left out: the length of the retry pauses (the number of attempts is kept), the
text of a briefing, and Discord's own state (a post whose answer is lost counts
as not delivered, as it does for the code).

`SlotLease` says what this is for: a slot is free, held by one fire, or closed
for good.  `ImplementsLease` maps `holders` to the fires between claim and
outcome and `closed` to the rows nobody holds.  A release by the broad except
after a delivery is a `GiveBack` there: the abstract lease allows a holder to
give back, and `AckedAtMostOnce` counts those deliveries.

Two more modules hold such rows.  In `Startup` the process holds the rows of its
fires in flight, so the lease goes on over boots, catch-up, cut-offs and days.
In `UvMonitor` the tick holds the row it is to post: `OnceSpec` is the stricter
lease of `uv_alerts`, which has no way back (`claim_uv_alert` has no counterpart of
`release_claim`) but a `Forgo`, the moot pre-warning that is claimed unposted.

### LiveConfig

Five modules model a reload, each as far as its own threads can tell.
`LiveConfig` is what the holder promises all of them: one configuration is live, a
reload keeps the one it replaced until its jobs are reconciled, and goes back to
exactly that one or not at all.  Each of the five implements it (`ImplementsHolder`):
`fallback` is the configuration that `Reload` leaves in the step `reconcile`,
`ForecastCache` in `previous`, and `ConfigSwap` in the step `swapped`.  So no module
lets its reload do to the configuration what another one rules out.

### ForecastCache

A lookup is `Snapshot` (the handler reads `holder.current()` and awaits), then
`Hit` or `Miss` (first critical section, which captures the generation), then
`StoreResult` or `DropResult` (second critical section).  An entry carries the
configuration it was fetched under and two history fields, the generation at
the snapshot and at the miss.  A reload is `Swap`, `Reconcile` and `Invalidate`,
or `Swap` and `Rollback`; between any two of them lookups go on.  `Stored`
covers `_PinnedTTLCache`: replacing a key, storing with room, and evicting.
*Which* evictable entry goes is left open, so the properties hold for any order.

### LocalTime and Startup

`LocalTime` translates the date arithmetic of `plan_catchup`.  Instants are
minutes of UTC, wall times minutes since a first Monday, and a zone is its
offsets before and after one transition.  `Offset` is PEP 495: the offset of a
wall time and a fold.  The plan composes fold 0 on today's and yesterday's date
(`Candidates`), passes over a wall time that the clock skips (`Skipped`) and
compares instants with the grace window (`DueDates`).  The live `CronTrigger` is
a definition that shares nothing with it but the clock: it fires when the clock
of the zone *first shows* the wall time (`FirstShown`), and not at all if it
never does.  `ZoneAssumption` is what a planner that looks at two dates needs,
and true zones give: a transition of less than a day less 90 minutes, and none
that sets the clock back over a midnight it has passed.

In `Startup` a slot is a schedule entry on a date, and the same pair is the key
of a row of `sent_log` (entries of one location at one time would share rows;
`Delivery` has such overlapping fires).  The main thread is `phase`.  A fire
keeps of `Delivery` what decides how its slot is left, one step per store call:
`Claim` (won, lost, or raising into the broad except), `Deliver` or, after a
failure, `Release` and `Alert`.  `PersistRaises` is a 2xx whose claim is
released all the same (`releasing`), so the slot is open again for a restart;
`ReleaseRaises` and `AlertRaises` are raises in the recovery itself, which end the
fire with its row still there or its alert missing.  A raise of `release_claim` or
`record_alert` in a failure branch is followed by the same call in the recovery,
so it changes the outcome only if that one raises too, and is no step of its own.
`late` counts the first, `muted` remembers the rows of the other two.  `Boot` reads the clock once for the plan (`Missed`),
`CatchupFire` runs the plan one slot at a time, each with the row of its own
date.  `ProbePasses` is `on_online`, where the scheduler computes each job's next
run from the present.  `LiveFire` is the dispatch of whatever runs of one job are
due: `coalesce` makes them one, `max_instances` drops them while one is running,
and the row is dated by the clock the fire *starts* under; `strayed` remembers
the slots this dated, merged or dropped wrongly, `whose` the slot a row was
really claimed for.  `Tick` lets time pass anywhere, so a fire can start as late
as the horizon allows.  `ServiceReload` keeps the configuration and registers
every job again, which loses a run that is due at that moment, or is rejected;
reloads that change the configuration are in `Reload`.

`CutOff` is a kill, or a SIGTERM that arrives before its handler is installed.
The teardown's `shutdown(wait=False)` is `PollStops`; the process ends in
`Drained`, after the interpreter has joined the pool.  Probes may fail forever.
`Sighup` is `weatherbot reload`: it signals only a process that the file names
and that `/proc` shows alive, but may do so after that process has begun to shut
down.  That a PID is used again by another weatherbot is left out.

Also left out: the online ping, the heartbeat job, the health row (which only the
`status` command shows) and the start of the bot thread, which change none of this
state.
A probe that fails without being fatal changes nothing at all, so it is no
action: time passes in the gate.

### Reload

The main thread is the record `reload`: its step, the configuration it leaves
and the one it goes to, and what the reconcile has still to register (`add`) and
remove (`drop`).  `Service` clears the request flag and then reads the files
(`Reject` or `Swap`), in that order; each `add_job` and `remove_job` is a step,
because jobs fire between them; *which* wanted job is registered next is left
open.  `RollBack` is a raise of any of these calls: the holder goes back and the
same reconcile runs towards the old configuration; `RestoreRaises` is a raise in
that one, which the engine swallows.  A job is what `_register_jobs` baked into
it: the configuration its location and slot are from (`built`) and the holder
its fires ask (`rides`).  After the start that is the live holder; a reload
passes a transient one, which a job then carries for good.

`disk` and `broken` are the files as they are now; `notice` is a change the
observer has seen and not yet settled on.  The filter that decides which
template changes it sees is built once, from the configuration of the start
(`watched`), so a template that only a later configuration names is validated
by a reload but does not cause one.  `seen`, `intact` and the `since` of a fire
are history.

Left out: `reload.watch = false`, the daemon's own two jobs (no reload touches
them), the directories watched (always the same two), and the `on_applied`
hooks, which are in `ForecastCache` and `Surfaces`.

### UvWindow and UvMonitor

`UvWindow` translates the interpolators and the tail of `compute_uv` over a
function from instants to indices.  Instants are whole numbers, so a crossing
between two points is rounded up and a fall down; a crossing still lies after
the point below the threshold and a fall before it.  `ProtectWhole` is the
reference definition: a window is not reversed and holds no point below the
threshold, and where there is none every point is below.

In `UvMonitor` the record `tick` is the tick in progress: the snapshot and the
clock it read at its start, the locations still to visit (in any order), and,
once `_decide` has taken a branch, the location, the alert and whether it is the
first of the day (`first_poll`).  Reading the rows and deciding is one step
(`Evaluate`), each of the two claims is a step of its own, and so is the post:
a kill can fall between any two.  What the provider answers is open at every
fetch, the measured index and the forecast separately, because nothing ties one
tick's payload to the next one's; the hourly points are all of the day's, or
only those from an hour that has begun.  `PassOver` is every way a location is
left without a decision: a fetch or a read that raises, or no sun times.  A
raise of a claim gives the location up (`ClaimRaises`), a failed post is
swallowed (`PostFails`).  `moot` and `lost` are history.

Left out: the length of the polling interval (time passes between any two
steps), the fixed daytime of a payload without sun times, which the monitor does
not reach, and midnight: rows carry the local date, so days do not meet.

### ConfigSwap, Panel, ForecastStreak and Surfaces

`ConfigSwap` is the part of a reload the other threads can tell: the holder is
swapped, swapped back or committed, and a commit runs its side effects in the
order of `_apply_reload_side_effects`.  `Panel` and `ForecastStreak` each extend
it with their own threads and their own side effect; `Surfaces` joins their steps
of the main thread, so both live through the same reloads.

In `Panel` a call is an interaction or a message up to its next await.  A choice
sets the selection and then awaits its acknowledgement (`Pick`).  It lands
(`PickLands`); or Discord refuses it and the callback sets the selection back
(`PickFails`); or something else is raised, by the connection or by the clone,
which the callback does not catch, and the selection stays (`PickRaises`).  The
raise reaches the hub's error edit either way, which may land.  A tap is acknowledged with disabled controls, awaits its fetch
and then its edit (`Tap`, `Answer` or `AnswerPlainly`, `EditLands` or
`EditFails`); a typed command (`Ask`) has no controls, and ends with its send
(`Reply`).  `arg` is what the handler
bound before its first await, `of` the location `resolve_location` found then,
`label` what the answer says.  `_reconcile_selection` is a read (`PanelCheck`) and
a write (`PanelReset`) of another thread, with the gateway loop in between.
`word` is history: what the operator was last shown to have chosen, or `None`
after a choice whose fate the code leaves open or that was set and never shown; `dimmed` is history too.
Acknowledging, disabling the controls and answering an error are the hub's and
modelled from how panel.py and wiring.py rely on them.

Left out there: case folding of names, what the embeds say, the cached lookup
(`ForecastCache`), the guards that refuse a channel, a user or an interaction
that cannot be acknowledged (they change nothing), and a second panel message:
a summon replaces the first, and the old one's clicks are those of a panel drawn
earlier, which `shown` already allows.

In `ForecastStreak` a fire is `Start`, then a delivery, a refusal or `Fail`, which
reads the streak, and `Note`, which writes it back and alerts on the crossing
fire.  A fire still running when its slot is pruned, or that ran for a
configuration that was rolled back, leaves an entry nobody expects (`phantom`).

## 3. Runs, bounds and fairness

| Run | Question | Bounds |
|---|---|---|
| `delivery` | does the exactly-once protocol survive overlaps, raises, stops and kills | 2 workers, 1 slot (slots share nothing but the pool), 3 triggers, 2 attempts, 2 unexpected raises |
| `delivery_inviolable` | is a delivered claim inviolable, as daemon.py:356 says | same |
| `cache` | do the generation guard, pinning and size limit hold | 2 lookups, 3 keys over a cache of 2, 2 reloads |
| `cache_stale` | does the guard keep every old result out, as cache.py:189 says | same |
| `reload` | is the job table what the live configuration wants, whatever fails, and is no edit lost | 2 configurations with 3 slots, of which they share 1, 1 template, 2 raises |
| `reload_typo` | can a typo reach a scheduled fire, contrary to loader.py:160 | same, a template for each configuration |
| `startup` | is the plan exact, what can days with restarts and late fires miss or send twice, and is the process honest about itself | days of 3 instants, 6 instants in all; 2 entries, at noon on one weekday and in the evening of both; a clock set forward over a noon; grace 2; 2 boots; 1 raise of a store call; `PlanExact` over 70 zones |
| `startup_gap` | does the live job fire what the plan left to it, as catchup.py:183 says | same |
| `startup_sigterm` | can SIGTERM interrupt a catch-up fire cleanly, as daemon.py:1106 says | same |
| `uv` | do a day's alerts come in order and once each, and does none vanish | 2 locations, 3 configurations, 4 hourly points over 7 instants, indices 0 to 2, 1 raise of a claim; any number of ticks, kills and reloads |
| `surfaces` | do answers, selection, panel and streaks stay true through reloads | 2 calls, 3 configurations (a rename, a name that is another's id, an empty list), 1 forecast slot, alert at 2 failures of at most 3, 2 things in progress at a time |
| `uv_evening` | does the all-clear close out every day with a crossing, as uvmonitor.py:220 says | same |

*Why they are enough.*  Two fires are the smallest overlap, and three triggers
let a third fire come after two that raced; two raises let the repair of a raise
raise in turn; two attempts have a first and a last one.  One entry more than
the cache holds forces an eviction, and two reloads let one roll back and one
commit around the same lookup.  Two configurations
of `reload` with a slot to drop, one to keep and one to add show every case of the diff, and
two raises let a restore raise after a reconcile.  Two boots let the second see what the first
left; with three instants a day and a grace of two, each slot can be early, on
time, at the end of grace, past it, and caught up or fired after midnight; the
evening's run of the first day can run into the second's, and the noon of the
second day is skipped by the clock.  One raise, at a claim, after a 2xx, at a
release or at an alert, lets each of these endings occur; what two raises do to one
fire is in `delivery`, and the theorems hold for any number.  `PlanExact` takes every zone with an offset
of at most one and one transition of one instant anywhere in the observed time,
which has each send time skipped, repeated and moved over midnight.  In
`surfaces` two calls are the smallest overlap of choices, taps and commands; the
renamed location keeps its old name as its id, and another one takes that name,
so each way of naming a location wrongly occurs; three failures are one more
than the threshold.  The calls are alike, so `surfaces` uses their symmetry.
Two of the four hourly points are in daylight, one is before and one after, so
a forecast rises, falls, stays, or has no daytime point left in the evening;
`WindowWhole` takes every subset of the four, so a window may start, dip and
start again.  The three indices put a measurement below, near and at a
threshold, and the second configuration lowers it between two ticks.

`MCStartup` does not check deadlock: after the last boot (`MaxBoots`) an ended
process stays down.

Edits and signals of `reload` are not
bounded: they only move within a finite set of file contents.

*Fairness.*  `Delivery`: each step of a started fire, because network and store
calls time out and the pool runs a job to its end, and `Exit`; no trigger, stop,
kill or restart is ever assumed.  Which outcome a call has is not assumed
either: the bounded attempts end the fire.  `ForecastCache`: a lookup ends, a
reload in progress is carried through by the main thread, and an entry's TTL
passes.  `Reload`: the observer
reports what it was given and the main thread, which does nothing else, polls
and carries a reload through; nobody has to edit, signal or fire.  `Startup`:
the main thread runs, catch-up, live and running fires go on, and the
gate's wait is woken by `stop`; no probe is ever assumed to pass, no time to pass, no signal to
arrive.  `UvMonitor` and `Surfaces`
assume none: all their properties are of safety.

## 4. What the checks found

Eight statements of the source or its documents do not hold of the code
(`findings` in PROJECT.json quotes them).  The first six each have a run that
violates them:

1. `delivery_inviolable`: `persist` can raise inside `send_now` after the post,
   and the claim of a delivered briefing is released; in `startup` a restart
   within grace then sends the slot again (`late` in `DeliveredOnce`).
2. `cache_stale`: a handler whose configuration snapshot is older than a reload
   but whose cache probe is younger stores an old result past the guard.
3. `startup_gap`: a slot due between the catch-up plan and the start of the
   scheduler is fired by neither.
4. `startup_sigterm`: during the catch-up SIGTERM is still a kill.
5. `reload_typo`: a rejected reload keeps the old configuration but not the old
   template, which every fire reads from disk again.
6. `uv_evening`: the all-clear needs a window in the payload of its own tick.  A
   forecast below the threshold, or hours that begin after sunset, have none, so
   a day whose crossing was alerted may end without its all-clear.
7. `startup`: a live fire that starts after local midnight, because the machine
   slept or the pool was busy, is dated by the clock (daemon.py:200): it claims the
   row of the next day.  Its own row stays open for a catch-up, which sends the
   briefing a second time, and the next day's run finds its row taken and is
   skipped without an alert.  `DeliveredOnce` and `OnlyKnownMisses` except such
   slots, and fail without that exception.
8. `surfaces`: only `discord.NotFound` and `discord.HTTPException` take a choice
   back (panel.py:275).  A connection that breaks, a timeout or a raise while the
   clone is built leaves the selection advanced, which panel.py:266 says must not
   happen.  `SelectionStands` excepts such a choice if no edit showed it, and fails
   without that exception.

The passing properties also except what the code does against a comment in
these places, each small or disputable enough to stay without a run of its own:

* a forecast tap reads the selection for its label after the fetch
  (wiring.py:576), a command tap before it, so a choice in between labels the
  forecast of one location with another (`LabelTrue`; wiring.py:553 calls the label
  bound to the tap);
* `resolve_location` lets an id win over a name, so a location whose name is
  another one's id cannot be named (`LabelTrue`; loader.py:53 calls the id match
  strictly additive);
* a choice whose acknowledgement Discord refuses goes back to what the selection was
  before it, over a later choice or over a reload's reset, and a dropdown drawn
  before a reload still offers what the reload removed (`SelectionStands`;
  wiring.py:66 relies on the reconcile at reload alone);
* a fire that ends after its slot was pruned leaves a streak that a later slot
  of the same id inherits (`StreakHonest`; daemon.py:521 promises that it never
  does);
* a process that dies during a tap leaves the panel's controls disabled, and no
  restart draws it anew (`PanelUsable`; bot.py:113 says it survives restarts);
* a reload loses a run that is due and not yet dispatched (`OnlyKnownMisses`;
  daemon.py:756 calls the registration an idempotent swap).

One docstring is inexact: `_first_up_cross` promises
the first point's time if that point is already at the threshold, but prefers a
later rise if there is one, so the window of a morning that starts high, dips
and rises again begins at the second rise.  `WindowWhole` holds of that window
too, as it asks only that the window protects no hour in vain.

The passing properties state what *does* hold: `AckedAtMostOnce` and
`DeliveredKeepsClaim` except exactly the raises of 1, `FreshEntry` exactly the
snapshots of 2 (and rejected configurations), `DeliveredOnce` the raises of 1 and
the slots of 7, `OnlyKnownMisses` the gap of 3, the grace window, the slots of 7,
rows a process was cut off over and fires whose recovery raised (`muted`),
`ClaimsDelivered` processes that were cut off and those recoveries; `DueFired`, that a
run come due ends in a delivery or an alert, the same but for the gap and the
window; `TableMatches` exactly
the restores that raise, `NoAlertVanishes` exactly the UV alerts that a failure
between claim and post loses.  The holder that wiring.py:336 calls transient does
escape (every job of a reload carries it); `TableMatches` shows that this is
harmless, as every commit and every rollback registers each job again.

## 5. What is proved

The theorems hold for every value of the constants under the assumptions the
modules name (a positive number of attempts, a positive cache size, disjoint
kinds of keys, zones that `ZoneAssumption` admits, unique names and ids of
locations; and, for the bounds on what is left to do, finitely many schedule
entries and job slots, as a file has).

* **Delivery** (`DeliveryProofs`).  None of the safety properties is inductive.
  The invariant `ClaimInv` adds: a fire in a holding step owns a row of
  `sent_log`, no two fires are in a holding step of one slot, and the number of
  deliveries of a slot is bounded by the raises that undid one, with the row
  present whenever the bound is reached.  `SingleFlightHolds`, `AtMostOnce`,
  `DeliveredClaimKept` and `Refinement` (every step of `Delivery` is a step of
  `SlotLease` or a stutter) follow from it.  A second invariant, `OutcomeInv`,
  adds what an ended fire has left behind for a given number of raises;
  `NoClaimLeakHolds`, `NoSilentMissHolds` and `SuccessIsRealHolds` follow.
  `NeverReleasedUnderHolds` is an action property from `ClaimInv`.  `LeasePromise`
  is proved of `SlotLease` alone: whatever implements the lease has one holder per
  slot and never reopens a closed one.
* **ForecastCache** (`ForecastCacheProofs`).  The strengthening relates the
  configuration and the generation of every lookup in flight to the present:
  a snapshot of the present generation is of the live configuration, of the one
  a reload in progress replaces, or of a rejected one.  `SizeCappedHolds` uses
  the finiteness of the live keys, which is itself invariant.
* **Startup** (`StartupProofs`).  The calendar comes first.  `ScheduledIsFirst`
  says that the instant the plan composes is the one the live trigger fires at,
  and that the gap test finds exactly the wall times no clock shows;
  `InCandidates`, that a slot due within grace lies on one of the two candidate
  dates; `PlanLemma` joins them, and gives `PlanExactHolds` for every zone.
  `LedgerInv` ties `sent`, `whose`, `alerted` and `delivered` to the fires in flight
  (`running`, `releasing`, `alerting`) and to what raised (`late`, `muted`), over restarts, for the slots that did not go astray, and gives
  `DeliveredOnceHolds` and `ClaimsDeliveredHolds`; with `Planned`, which says where
  a slot behind the clock may be, it gives `OnlyKnownMissesHolds`.  `Process`
  ties the flags, the PID file and the exit to the phase (`ProcessHolds`).
  `LeaseKept` needs that a fire that holds its claim has its row (`LedgerInv`).  `SendsApart`
  says of any two dates of an entry that their instants keep their order and at
  least a grace window between them, over every transition, so the run that
  coalescing keeps is the latest one.

* **Reload** (`ReloadProofs`).  `TableMatches` speaks of the time between
  reloads only, so it needs what holds within one: `QuietInv` is the match
  itself, `BusyInv` says that a job to be neither registered nor removed any more
  is right and that the wanted jobs of both configurations are in the table, and
  `BuiltInv` ties what a job carries to the configurations the reload is between.
  Together they are `TableInv`, which gives `TableMatchesHolds` and
  `KeptNeverAbsentHolds`; `FireInv` adds what a fire in flight may find and gives
  `FireOfItsTimeHolds`.  `NoLostEditHolds` needs no more than the types.
  `HolderKept` here and in the other proof modules maps each step of a reload to one
  of `LiveConfig`, or to a stutter.
* **UvMonitor** (`UvMonitorProofs`).  `BusyInv` says what the rows of the
  location at hand are at each call of `_decide`: the decision is made on rows
  read before, and stays right because nobody else writes that location's rows
  meanwhile (`max_instances=1`).  `RowsInv` says that what is posted is claimed
  and that an all-clear's row comes after a crossing's.  Then whatever is posted
  before an alert ranks below it (`PostedBefore`), which gives `InOrderHolds`;
  `NoAlertVanishesHolds` follows one row through its steps (`AtHandStep`,
  `NewRow`), and `AllclearExplainedHolds` follows from both.  `LeaseKept` uses that a
  tick holds at most one row it has still to post, and never one that was posted;
  `OncePromise` says what the lease without a way back is worth.

  `ProtectWholeHolds` is about `compute_uv` alone: any hourly points, any indices,
  any threshold.  A bounded set of instants has an earliest and a latest one
  (`HasEarliest`, from the well-foundedness of `<`, and `HasLatest`), so between a
  point below the threshold and a later one above it two *neighbours* rise, and
  likewise fall (`PairBetween`); a crossing lies between its neighbours
  (`CrossBounds`, where the rounding of the division matters), so the point a
  window begins at is above the threshold and an hour below it would have a fall
  before it, where the window ends (`WindowFrom`).  `WindowWholeHolds` is this for
  the points of the day.
* **Panel, ForecastStreak and Surfaces**.  `AskedFor` says that a call fetches
  what its bound name resolves to, and `LabelInv` carries it to the answer.
  `AloneInv` says which choices are the only writers, `ToldInv` what the selection
  then is, through the steps of a reload; they give `SelectionStandsHolds`.
  `StreakInv` ties an entry to its run of failures while a fire holds a copy of
  it, and `Pruned` says when a slot that is gone has none.  `Separable` shows that
  every step of `Surfaces` is a step of `Panel` and one of `ForecastStreak`, or a
  stutter of either, so `SurfacesSound` carries all their theorems over to the
  composition.

*The safety half of liveness.*  A fire, a reload and a life of the process each
have a measure of the calls they still make, and three theorems say that every
step of their own lowers it and that nothing else raises it: no raise, handler,
rollback or failed restore loops, and no edit, signal, probe or clock takes away
what was done.  `FiresShortenHolds` and `FiresBoundedHolds` (at most
`MaxAttempts + 5` calls), `ReloadShortensHolds` and `ReloadBoundedHolds` (at most two
calls per slot and three more; the restore registers every slot anew) and
`LifeShortensHolds` and `LifeBoundedHolds` (at most 35 steps per slot and six
more; the start of the scheduler may put every
slot on the job table, so a phase of the main thread outweighs them all) hold for
any number of workers, slots, attempts and raises.  What they leave to fairness is
only that a call which can be made is made at last.

The definitions that only theorems speak of (`ImplementsHolder`, `ImplementsLease`
of `Startup` and `UvMonitor`, the measures, `Exclusive`, `ClosedForGood` and
`NeverFreed`) are part of no run.

*Only model-checked:* that last step, so the liveness properties themselves
(`FiresEnd`, which rests on the measure of a fire; `StopEnds` and `DueFired`, on
that of a life; `EditServed`, on that of a reload; and `StaleEnds`).  They need
reasoning about `ENABLED` that the prover does not do.

## 6. Not modelled, and what is left

The components table of PROJECT.json gives the reason for each part.

* Formatting, parsing and validation (the command registry and parser, the
  schema of the configuration, the weather model, embeds) are functions of their
  input without state or order; unit tests reach them better.
* The weather time series is written and never read by the daemon.
* The hub library is not in the repository: its ready gate, reload engine,
  scheduler, retry policy, panel kit and bot thread are modelled from how this
  code calls them.
* Discord's side of a post whose answer is lost: the retry sends it again, which
  the code accepts.

Left to do: the eviction order of `popitem`.
