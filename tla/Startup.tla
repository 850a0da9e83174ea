------------------------------- MODULE Startup -------------------------------
(***************************************************************************)
(* The life of the daemon process: build_runtime (scheduler/wiring.py)     *)
(* plans and runs the catch-up, run_daemon (scheduler/daemon.py) installs  *)
(* the signal handlers, writes the PID file, drives the ready gate, polls, *)
(* and tears down; plan_catchup (scheduler/catchup.py) and the cron jobs   *)
(* decide which slots of the day are fired.  The process may be stopped    *)
(* or killed at any point and is started again by its supervisor.          *)
(*                                                                         *)
(* A slot is a schedule entry on a date; it is also the key of its row in  *)
(* sent_log.  A fire is its claim, its send, and after a failure its       *)
(* release and its alert, each of which may raise; Delivery has the calls  *)
(* in between.                                                             *)
(***************************************************************************)
EXTENDS LocalTime, FiniteSets

CONSTANTS Entries,   \* the enabled schedule entries
          Time,      \* Time[e]: the local send time
          Days,      \* Days[e]: the weekdays it is sent on
          Zone,      \* Zone[e]: the zone of its location
          Horizon,   \* bound: the end of the observed time
          LastDate,  \* bound: the last local date in it
          MaxBoots,  \* bound: process starts
          MaxRaises  \* bound: raises of store calls that decide a fire's end

Dates == 0..LastDate

ASSUME EntryAssumption ==
  /\ Time \in [Entries -> 0..(Day - 1)]
  /\ Zone \in [Entries -> Zones]
ASSUME EntriesFinite == IsFiniteSet(Entries)
ASSUME TimeAssumption ==
  /\ Horizon \in Nat /\ LastDate \in Nat /\ MaxBoots \in Nat /\ MaxRaises \in Nat
  /\ \A e \in Entries, t \in 0..Horizon : LocalDate(Zone[e], t) \in Dates

Slots == Entries \X Dates

\* The wall time of a slot, and when the live job fires it, if it exists.
WallOf(s) == Wall(Time[s[1]], s[2])
Due(s) == FirstShown(Zone[s[1]], WallOf(s))

\* The slots the schedule asks for: on their weekday, at a time the clock shows.
Sends == {s \in Slots : FiresOn(Days[s[1]], s[2]) /\ Shown(Zone[s[1]], WallOf(s)) # {}}

VARIABLES
  now,        \* the wall clock
  phase,      \* where the main thread is
  queue,      \* the missed slots plan_catchup returned, still to fire
  jobs,       \* slots whose cron job has their run still ahead
  running,    \* rows with a fire in flight
  releasing,  \* of them: delivered, and persist raised: a claim to be released
  alerting,   \* of them: the fire has no claim, and its alert to record
  stop,       \* the stop Event
  fatal,      \* the fatal Event
  reload,     \* ReloadEngine._reload_requested
  ready,      \* READY=1 was sent
  pidFile,    \* none, this process's, or one a dead process left
  exit,       \* how the last process ended
  sent,       \* rows of sent_log
  whose,      \* history: the slot each row was last claimed for
  alerted,    \* rows of alerts, by the same key
  delivered,  \* history: deliveries of each slot
  late,       \* history: those of them after which persist raised
  muted,      \* history: rows whose last fire could not release or could not alert
  raises,     \* history: raises of store calls
  plannedAt,  \* history: when this process's plan_catchup read the clock
  startedAt,  \* history: when its scheduler.start() computed the next runs
  strayed,    \* history: slots whose live run was misdated, merged or dropped
  cut,        \* history: how processes were cut off, sigterm or kill
  boots       \* history: processes started

fires   == <<running, releasing, alerting>>
flags   == <<stop, fatal, reload>>
visible == <<ready, pidFile, exit>>
store   == <<sent, whose, alerted>>
times   == <<plannedAt, startedAt>>
outcome == <<delivered, late, muted, raises>>
history == <<outcome, times, strayed, cut>>
vars    == <<now, phase, queue, jobs, fires, flags, visible, store,
             history, boots>>

Phases == {"off", "catchup", "handlers", "gate", "online", "serving", "draining"}

Init ==
  /\ now = 0 /\ phase = "off" /\ queue = {} /\ jobs = {}
  /\ running = {} /\ releasing = {} /\ alerting = {}
  /\ stop = FALSE /\ fatal = FALSE /\ reload = FALSE
  /\ ready = FALSE /\ pidFile = "none" /\ exit = "none"
  /\ sent = {} /\ whose = [r \in Slots |-> r] /\ alerted = {}
  /\ delivered = [s \in Slots |-> 0] /\ late = [s \in Slots |-> 0]
  /\ muted = {} /\ raises = 0
  /\ plannedAt = 0 /\ startedAt = 0 /\ strayed = {} /\ cut = {} /\ boots = 0

Tick ==
  /\ now < Horizon
  /\ now' = now + 1
  /\ UNCHANGED <<phase, queue, jobs, fires, flags, visible, store,
                 history, boots>>

-----------------------------------------------------------------------------
(* Fires *)

\* The fires that have not had their 2xx, and those that hold their claim.
Sending == running \ (releasing \cup alerting)
Holding == running \ alerting

\* plan_catchup: due within grace on a candidate date, not in sent_log.
Missed == {s \in Slots : /\ s[2] \in DueDates(Zone[s[1]], Days[s[1]], Time[s[1]], now)
                         /\ s \notin sent}

\* fire_slot keys its row by the local date of an instant.
Row(e, instant) == <<e, LocalDate(Zone[e], instant)>>

\* A store call raises where the raise decides how the fire ends.
Raises == raises < MaxRaises /\ raises' = raises + 1

\* fire_slot up to its claim, for slot s: a lost claim ends the fire, and a
\* raise goes to the broad except, which has nothing to release.
Claim(r, s) ==
  \/ /\ r \notin sent
     /\ sent' = sent \cup {r}
     /\ whose' = [whose EXCEPT ![r] = s]
     /\ running' = running \cup {r}
     /\ muted' = muted \ {r}
     /\ UNCHANGED <<alerting, raises>>
  \/ r \in sent /\ UNCHANGED <<sent, whose, running, muted, alerting, raises>>
  \/ /\ Raises
     /\ running' = running \cup {r}
     /\ alerting' = alerting \cup {r}
     /\ UNCHANGED <<sent, whose, muted>>

unclaimed == <<releasing, alerted, delivered, late, times, cut, boots>>

\* Mutant of CatchupFire: its row is dated by the clock, not by the slot.
CatchupFireNow(s) ==
  /\ phase = "catchup"
  /\ running = {}
  /\ s \in queue
  /\ queue' = queue \ {s}
  /\ Claim(Row(s[1], now), s)
  /\ UNCHANGED <<now, phase, jobs, flags, visible, strayed, unclaimed>>

\* _run_catchup fires the missed slots one after the other; the row is
\* dated by scheduled_dt.
CatchupFire(s) ==
  /\ phase = "catchup"
  /\ running = {}
  /\ s \in queue
  /\ queue' = queue \ {s}
  /\ Claim(Row(s[1], Scheduled(Zone[s[1]], WallOf(s))), s)
  /\ UNCHANGED <<now, phase, jobs, flags, visible, strayed, unclaimed>>

\* The runs of an entry's job that are due.
DueRuns(e) == {s \in jobs : s[1] = e /\ Due(s) <= now}

\* Mutant of LiveFire: a misfire grace, so a run that starts late is dropped.
LiveFireOnTime(e) ==
  /\ phase \in {"online", "serving"}
  /\ DueRuns(e) # {}
  /\ jobs' = jobs \ DueRuns(e)
  /\ IF Row(e, now) \in DueRuns(e) /\ Due(Row(e, now)) = now
       THEN Claim(Row(e, now), Row(e, now))
       ELSE UNCHANGED <<sent, whose, running, alerting, muted, raises>>
  /\ UNCHANGED <<now, phase, queue, flags, visible, strayed, unclaimed>>

\* The scheduler hands a due job to its pool.  Several due runs are one
\* (coalesce); none is started while one of the job is running
\* (max_instances).  The row is dated by the clock.
LiveFire(e) ==
  /\ phase \in {"online", "serving"}
  /\ DueRuns(e) # {}
  /\ jobs' = jobs \ DueRuns(e)
  /\ \E s \in DueRuns(e) :
       /\ \A other \in DueRuns(e) : other[2] <= s[2]
       /\ IF \E r \in running : r[1] = e
            THEN /\ strayed' = strayed \cup DueRuns(e)
                 /\ UNCHANGED <<sent, whose, running, alerting, muted, raises>>
            ELSE /\ strayed' = strayed \cup (DueRuns(e) \ {Row(e, now)})
                 /\ Claim(Row(e, now), s)
  /\ UNCHANGED <<now, phase, queue, flags, visible, unclaimed>>

\* What a fire in flight leaves alone, until it records an alert.
aside == <<now, phase, queue, jobs, flags, visible, whose, times, strayed, cut, boots>>

\* Discord's 2xx, and send_now returns: the claim stays, whatever the
\* bookkeeping after it raises.
Deliver(r) ==
  /\ r \in Sending
  /\ running' = running \ {r}
  /\ delivered' = [delivered EXCEPT ![whose[r]] = @ + 1]
  /\ UNCHANGED <<aside, releasing, alerting, sent, alerted, late, muted, raises>>

\* The 2xx, and then persist raises inside send_now: the broad except takes a
\* delivered briefing for a failed one.
PersistRaises(r) ==
  /\ r \in Sending
  /\ Raises
  /\ delivered' = [delivered EXCEPT ![whose[r]] = @ + 1]
  /\ late' = [late EXCEPT ![whose[r]] = @ + 1]
  /\ releasing' = releasing \cup {r}
  /\ UNCHANGED <<aside, running, alerting, sent, alerted, muted>>

\* Retries exhausted, refused, or a raise: the claim is released, by the failure
\* path or by the broad except after it.
Release(r) ==
  /\ r \in Holding
  /\ sent' = sent \ {r}
  /\ releasing' = releasing \ {r}
  /\ alerting' = alerting \cup {r}
  /\ UNCHANGED <<aside, running, alerted, outcome>>

\* The fire of r ends in a raise that its recovery swallows.
EndsMuted(r) ==
  /\ Raises
  /\ running' = running \ {r}
  /\ muted' = muted \cup {r}
  /\ UNCHANGED <<aside, sent, alerted, delivered, late>>

\* The release raises in the broad except too: the row stays, and the alert
\* after it is not reached.
ReleaseRaises(r) ==
  /\ r \in Holding
  /\ releasing' = releasing \ {r}
  /\ EndsMuted(r)
  /\ UNCHANGED alerting

\* Mutant of Alert: the alert is keyed by the instant, not by the date.
AlertByInstant(r) ==
  /\ r \in alerting
  /\ running' = running \ {r}
  /\ alerting' = alerting \ {r}
  /\ alerted' = alerted \cup {<<r[1], now>>}
  /\ UNCHANGED <<aside, releasing, sent, outcome>>

Alert(r) ==
  /\ r \in alerting
  /\ running' = running \ {r}
  /\ alerting' = alerting \ {r}
  /\ alerted' = alerted \cup {r}
  /\ UNCHANGED <<aside, releasing, sent, outcome>>

\* record_alert raises in the broad except too.
AlertRaises(r) ==
  /\ r \in alerting
  /\ alerting' = alerting \ {r}
  /\ EndsMuted(r)
  /\ UNCHANGED releasing

-----------------------------------------------------------------------------
(* The main thread *)

\* A new process validates its config and builds the runtime up to the plan.
Boot ==
  /\ phase = "off"
  /\ boots < MaxBoots
  /\ boots' = boots + 1
  /\ phase' = "catchup"
  /\ queue' = Missed
  /\ plannedAt' = now
  /\ stop' = FALSE /\ fatal' = FALSE /\ reload' = FALSE
  /\ ready' = FALSE /\ exit' = "none"
  /\ UNCHANGED <<now, jobs, fires, pidFile, store, outcome, startedAt, strayed, cut>>

\* The process is over: its threads, its queue and its timers go with it.
End(how) ==
  /\ phase' = "off"
  /\ queue' = {} /\ jobs' = {}
  /\ running' = {} /\ releasing' = {} /\ alerting' = {}
  /\ reload' = FALSE /\ ready' = FALSE
  /\ plannedAt' = 0 /\ startedAt' = 0
  /\ exit' = how

\* Mutant of InstallHandlers: the PID file is written before them.
PidBeforeHandlers ==
  /\ phase = "catchup"
  /\ queue = {} /\ running = {}
  /\ phase' = "handlers"
  /\ pidFile' = "own"
  /\ UNCHANGED <<now, queue, jobs, fires, flags, ready, exit, store,
                 history, boots>>

InstallHandlers ==
  /\ phase = "catchup"
  /\ queue = {} /\ running = {}
  /\ phase' = "handlers"
  /\ UNCHANGED <<now, queue, jobs, fires, flags, visible, store,
                 history, boots>>

WritePid ==
  /\ phase = "handlers"
  /\ phase' = "gate"
  /\ pidFile' = "own"
  /\ UNCHANGED <<now, queue, jobs, fires, flags, ready, exit, store,
                 history, boots>>

\* write_pid_atomic re-raises: a startup failure is loud.
WritePidRaises ==
  /\ phase = "handlers"
  /\ End("failure")
  /\ UNCHANGED <<now, stop, fatal, pidFile, store, outcome, strayed, cut, boots>>

\* CONFIG_INVALID: on_fail marks the death as fatal and stops the gate.  Any
\* other probe that does not pass leaves all this as it is.
ProbeFatal ==
  /\ phase = "gate" /\ ~fatal
  /\ fatal' = TRUE
  /\ stop' = TRUE
  /\ UNCHANGED <<now, phase, queue, jobs, fires, reload, visible, store,
                 history, boots>>

\* on_online: scheduler.start() computes every next run from now; what
\* the stamps after it raise is swallowed.
ProbePasses ==
  /\ phase = "gate" /\ ~fatal
  /\ phase' = "online"
  /\ jobs' = {s \in Sends : Due(s) > now}
  /\ startedAt' = now
  /\ UNCHANGED <<now, queue, fires, flags, visible, store,
                 outcome, plannedAt, strayed, cut, boots>>

NotifyReady ==
  /\ phase = "online"
  /\ phase' = "serving"
  /\ ready' = TRUE
  /\ UNCHANGED <<now, queue, jobs, fires, flags, pidFile, exit, store,
                 history, boots>>

\* The gate returns without ever having passed.
GateStops ==
  /\ phase = "gate"
  /\ stop
  /\ End(IF fatal THEN "failure" ELSE "clean")
  /\ pidFile' = "none"
  /\ UNCHANGED <<now, stop, fatal, store, outcome, strayed, cut, boots>>

\* The poll loop services a requested reload, unless stop is set too.  It is
\* rejected, or registers every job again (the configuration is the same
\* here), which computes the next runs from now: a run already due is lost.
ServiceReload ==
  /\ phase = "serving"
  /\ reload /\ ~stop
  /\ reload' = FALSE
  /\ \E lost \in {{}, {s \in jobs : Due(s) <= now}} :
       /\ jobs' = jobs \ lost
       /\ strayed' = strayed \cup lost
  /\ UNCHANGED <<now, phase, queue, fires, stop, fatal, visible, store,
                 outcome, times, cut, boots>>

\* Mutant of PollStops: a requested reload is waited for.
PollStopsLast ==
  /\ phase = "serving"
  /\ stop /\ ~reload
  /\ phase' = "draining"
  /\ jobs' = {}
  /\ pidFile' = "none"
  /\ UNCHANGED <<now, queue, fires, flags, ready, exit, store,
                 history, boots>>

\* stop wins: scheduler.shutdown(wait=False), then the PID file goes.  A
\* pending reload is cleared only if the loop saw it before the stop.
PollStops ==
  /\ phase = "serving"
  /\ stop
  /\ phase' = "draining"
  /\ jobs' = {}
  /\ reload' \in {reload, FALSE}
  /\ pidFile' = "none"
  /\ UNCHANGED <<now, queue, fires, stop, fatal, ready, exit, store,
                 history, boots>>

\* Mutant of Drained: the process exits under its fires.
DrainedAtOnce ==
  /\ phase = "draining"
  /\ End("clean")
  /\ UNCHANGED <<now, stop, fatal, pidFile, store, outcome, strayed, cut, boots>>

\* The interpreter joins the pool's threads before it exits.
Drained ==
  /\ phase = "draining"
  /\ running = {}
  /\ End("clean")
  /\ UNCHANGED <<now, stop, fatal, pidFile, store, outcome, strayed, cut, boots>>

-----------------------------------------------------------------------------
(* Signals *)

Sigterm ==
  /\ phase \notin {"off", "catchup"}
  /\ stop' = TRUE
  /\ UNCHANGED <<now, phase, queue, jobs, fires, fatal, reload, visible, store,
                 history, boots>>

\* Cut off in the middle: by a kill, or by a SIGTERM that still has its
\* default action because build_runtime has not returned.
CutOff(cause) ==
  /\ phase # "off"
  /\ cause = "sigterm" => phase = "catchup"
  /\ End(cause)
  /\ pidFile' = IF pidFile = "own" THEN "stale" ELSE pidFile
  /\ cut' = cut \cup {cause}
  /\ UNCHANGED <<now, stop, fatal, store, outcome, strayed, boots>>

\* read_pid and is_weatherbot_pid: the file names a live weatherbot, not a
\* process that is gone.
NamesLive == pidFile = "own"

\* `weatherbot reload` signals the process it found.  By then that may have
\* removed its file; one that has exited gets no signal.
Sighup ==
  /\ NamesLive \/ phase = "draining"
  /\ reload' = TRUE
  /\ UNCHANGED <<now, phase, queue, jobs, fires, stop, fatal, visible, store,
                 history, boots>>

Main == \/ InstallHandlers \/ WritePid \/ WritePidRaises
        \/ NotifyReady \/ PollStops \/ Drained

Outcome(r) == \/ Deliver(r) \/ PersistRaises(r)
              \/ Release(r) \/ ReleaseRaises(r) \/ Alert(r) \/ AlertRaises(r)

Next == \/ Tick \/ Boot \/ Main
        \/ ProbeFatal \/ ProbePasses \/ GateStops \/ ServiceReload
        \/ \E s \in Slots : CatchupFire(s) \/ Outcome(s)
        \/ \E e \in Entries : LiveFire(e)
        \/ Sigterm \/ Sighup \/ \E cause \in {"sigterm", "kill"} : CutOff(cause)

\* The main thread and the pool run; a probe returns and the wait between
\* probes is woken by stop, but nothing says that a probe ever passes.
Fairness ==
  /\ WF_vars(Main) /\ WF_vars(GateStops) /\ WF_vars(ServiceReload)
  /\ WF_vars(\E s \in Slots : CatchupFire(s))
  /\ WF_vars(\E e \in Entries : LiveFire(e))
  /\ WF_vars(\E r \in Slots : Outcome(r))

Spec == Init /\ [][Next]_vars

FairSpec == Spec /\ Fairness

-----------------------------------------------------------------------------
(* Properties *)

\* Types of the clock, the process, the day's slots and the store.
TypeOK ==
  /\ now \in 0..Horizon /\ plannedAt \in 0..Horizon /\ startedAt \in 0..Horizon
  /\ phase \in Phases
  /\ queue \in SUBSET Sends /\ jobs \in SUBSET Sends
  /\ running \in SUBSET Slots /\ alerting \in SUBSET running /\ releasing \in SUBSET Holding
  /\ stop \in BOOLEAN /\ fatal \in BOOLEAN /\ reload \in BOOLEAN /\ ready \in BOOLEAN
  /\ pidFile \in {"none", "own", "stale"}
  /\ exit \in {"none", "clean", "failure", "sigterm", "kill"}
  /\ sent \in SUBSET Slots /\ alerted \in SUBSET Slots /\ strayed \in SUBSET Slots
  /\ whose \in [Slots -> Slots]
  /\ delivered \in [Slots -> Nat] /\ late \in [Slots -> Nat]
  /\ muted \in SUBSET Slots /\ raises \in 0..MaxRaises
  /\ cut \in SUBSET {"sigterm", "kill"}
  /\ boots \in 0..MaxBoots

\* For every zone, weekdays, send time, clock and date.
PlanMatchesTrigger ==
  \A z \in Zones, days \in SUBSET {0, 1}, time \in 0..(Day - 1), instant \in 0..Horizon,
     date \in -1..(LastDate + 1) :
    date \in DueDates(z, days, time, instant) <=>
      /\ FiresOn(days, date)
      /\ Shown(z, Wall(time, date)) # {}
      /\ FirstShown(z, Wall(time, date)) <= instant
      /\ instant - FirstShown(z, Wall(time, date)) <= Grace

\* What plan_catchup finds due, for any zone, weekdays and clock, is exactly
\* what the live trigger fired, or would have, within the grace window: over
\* midnight, the skipped and the repeated hour.
PlanExact ==
  /\ PlanMatchesTrigger
  /\ Missed = {s \in Sends \ sent : Due(s) <= now /\ now - Due(s) <= Grace}

\* Over any number of restarts, between the catch-up and the live job of the
\* same slot, a slot is delivered once, and once more for each raise of
\* persist after its 2xx; none is on a date it does not exist, and none more
\* often, but for a slot whose live run went astray.
DeliveredOnce ==
  \A s \in Slots \ strayed : delivered[s] <= IF s \in Sends THEN 1 + late[s] ELSE 0

\* Due after the plan read the clock and before the scheduler started.
InStartupGap(s) == plannedAt < Due(s) /\ Due(s) <= startedAt
TooOld(s) == Due(s) + Grace < plannedAt

\* The live run of s was dated another day, merged into a later one, or
\* dropped; or the row of s was claimed for such a run of the day before.
Misdated(s) == s \in strayed \/ (s \in sent /\ whose[s] # s)

\* A slot whose day is over for a serving daemon was delivered or alerted,
\* unless a process was cut off over its claim, a store call raised in the
\* recovery of its fire, it fell into one of the two holes the startup
\* leaves, or a live run was dated by a late clock.
OnlyKnownMisses ==
  phase = "serving" =>
    \A s \in Sends \ (jobs \cup running) :
      \/ delivered[s] > 0
      \/ s \in alerted
      \/ s \in sent /\ cut # {}
      \/ s \in muted
      \/ InStartupGap(s)
      \/ TooOld(s)
      \/ Misdated(s)

\* What catchup.py relies on: a slot that is not due yet when the plan is
\* made is fired by its live job.
NoStartupGap ==
  phase = "serving" =>
    \A s \in Sends \ (jobs \cup running) :
      InStartupGap(s) => delivered[s] > 0 \/ s \in alerted \cup muted \/ cut # {} \/ Misdated(s)

\* A claim that no fire holds stands for a delivery, as long as no process was
\* cut off (a stop lets the fires in flight finish), unless the release of its
\* failed fire raised in the recovery.
ClaimsDelivered ==
  cut = {} => \A r \in sent \ (Holding \cup muted) : delivered[whose[r]] > 0

\* The same of a process that is only ever stopped with SIGTERM.
SigtermStrandsNoClaim ==
  "kill" \notin cut => \A r \in sent \ (Holding \cup muted) : delivered[whose[r]] > 0

\* Whoever finds the PID file of the running process can signal a reload:
\* the process has its handlers and does not die of it.
PidMeansHandlers ==
  pidFile = "own" => phase \in {"gate", "online", "serving"}

\* READY=1 is sent after scheduler.start(), by a process that passed its gate.
ReadyAfterStart ==
  /\ ready => phase \in {"serving", "draining"} /\ ~fatal
  /\ phase \in {"online", "serving"} => \A s \in Sends : Due(s) > now => s \in jobs

\* The exit tells a fatal configuration from a clean stop.
ExitHonest ==
  phase = "off" => /\ exit = "clean" => stop /\ ~fatal
                   /\ fatal => exit \in {"failure", "kill"}

\* The PID file, READY=1 and the exit code mean what their readers (`weatherbot
\* reload`, systemd) take them for.
ProcessHonest == PidMeansHandlers /\ ReadyAfterStart /\ ExitHonest

\* The rows as leases: the process holds those its fires have claimed.
Holders == [r \in Slots |-> IF r \in Holding THEN {"process"} ELSE {}]

Lease == INSTANCE SlotLease WITH
           Workers <- {"process"}, holders <- Holders, closed <- sent \ Holding

\* Catch-up, live jobs, stops and restarts keep the lease that fire_slot
\* implements in Delivery: no row is taken while it is held or closed.
ImplementsLease == Lease!Spec

\* What a process still does at most: phases of the main thread, slots to take
\* from the queue or the job table, sends, releases and alerts of fires.  A
\* phase outweighs the runs that the start of the scheduler can put on the table.
Rank == [off |-> 0, draining |-> 1, serving |-> 2, online |-> 3, gate |-> 4,
         handlers |-> 5, catchup |-> 6]
Load == 4 * Cardinality(queue) + 4 * Cardinality(jobs)
        + Cardinality(running) + Cardinality(Holding) + Cardinality(Sending)
Ahead == Rank[phase] * (4 * Cardinality(Slots) + 1) + Load

Progress == \/ Main \/ ProbePasses \/ GateStops
            \/ \E s \in Slots : CatchupFire(s) \/ Outcome(s)
            \/ \E e \in Entries : LiveFire(e)

\* What StopEnds and DueFired rest on: whatever the main thread or a fire does
\* brings the process nearer its end, and no probe, signal, reload or clock
\* takes it away from it; no fire, however it ends, makes work for another.
LifeShortens ==
  [][phase # "off" => /\ Ahead' <= Ahead
                      /\ Progress => Ahead' < Ahead]_vars

\* A life of the process is at most this many such steps.
LifeBounded == Ahead \in 0..(35 * Cardinality(Slots) + 6)

\* A stop that was requested ends the process, with the gate still failing too.
StopEnds == stop /\ phase # "off" ~> phase = "off"

\* A run that has come due while the daemon serves ends in a delivery or an
\* alert of its slot, however late it is started, or the process ends; but for
\* a run that was misdated, merged or dropped, a row an earlier process was cut
\* off over, and a recovery that raised.
DueFired ==
  \A s \in Sends :
    s \in jobs /\ Due(s) <= now ~>
      \/ delivered[s] > 0 \/ s \in alerted
      \/ phase = "off"
      \/ Misdated(s) \/ s \in muted \/ (s \in sent /\ cut # {})
=============================================================================
