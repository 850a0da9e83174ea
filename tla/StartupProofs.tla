---------------------------- MODULE StartupProofs ----------------------------
(***************************************************************************)
(* Theorems about Startup, for every schedule, zone with one transition,   *)
(* grace window and number of restarts.  PlanLemma is the calendar of      *)
(* plan_catchup.  Ledger relates a row, its fire and the deliveries;       *)
(* Planned says where a slot is that a plan or a scheduler start took on;  *)
(* Process relates the phase of the main thread to what is seen outside.   *)
(***************************************************************************)
EXTENDS Startup, FiniteSetTheorems, TLAPS

\* A fire holds a row of its own; a row no fire holds is a delivery, or a
\* process was cut off, or its fire ended in a raise of the recovery.  A slot
\* that did not stray has at most its own row, and is delivered by the fire
\* that took it, again only after a raise of persist.
Ledger ==
  /\ phase \in {"off", "handlers", "gate"} => running = {}
  /\ \A r \in Slots :
       /\ r \in Holding => r \in sent
       /\ r \in sent => whose[r] \in Sends
       /\ r \in sent \ Holding => delivered[whose[r]] > 0 \/ cut # {} \/ r \in muted
  /\ \A s \in Slots : delivered[s] > 0 => s \in Sends
  /\ \A s \in Slots \ strayed :
       /\ \A r \in sent : whose[r] = s => r = s
       /\ delivered[s] <= 1 + late[s]
       /\ delivered[s] > late[s] => s \in sent /\ whose[s] = s
       /\ s \in Holding /\ whose[s] = s => delivered[s] <= late[s]

LedgerInv == TypeOK /\ Ledger

\* Where a slot is that was taken: it has its row or its fire, or its fire
\* has ended in an alert or in a raise of the recovery.
TakenOn == sent \cup running \cup alerted \cup muted

\* A slot the plan had to take is still queued, or was taken; a slot due
\* after the scheduler started has its job, was taken, or strayed.
Planned ==
  /\ phase # "catchup" => queue = {}
  /\ phase # "off" =>
       \A s \in Sends : Due(s) <= plannedAt /\ plannedAt <= Due(s) + Grace
                          => s \in queue \cup TakenOn
  /\ phase \in {"online", "serving"} =>
       \A s \in Sends : startedAt < Due(s) => s \in jobs \cup TakenOn \cup strayed

\* What the phase says about the flags, the PID file and READY.
Process ==
  /\ ready => phase \in {"serving", "draining"}
  /\ fatal => phase \in {"gate", "off"}
  /\ phase = "draining" => stop
  /\ ProcessHonest

-----------------------------------------------------------------------------
(* The calendar *)

\* A date is the whole days of a wall time.
LEMMA DateOfWall ==
  ASSUME NEW date \in Int, NEW time \in 0..(Day - 1)
  PROVE  Wall(time, date) \div Day = date
  BY DayAssumption DEF Wall

\* A wall time lies in the day of its date.
LEMMA DayOfWall ==
  ASSUME NEW x \in Int
  PROVE  /\ x \div Day \in Int
         /\ (x \div Day) * Day <= x
         /\ x < (x \div Day) * Day + Day
  BY DayAssumption

\* Dates are ordered as the days they begin.
LEMMA DayOrder ==
  ASSUME NEW p \in Int, NEW q \in Int, p * Day < q * Day + Day
  PROVE  p <= q
<1>1. SUFFICES ASSUME q + 1 <= p PROVE FALSE
  OBVIOUS
<1>2. (p - (q + 1)) * Day >= 0
  BY <1>1, DayAssumption
<1>3. QED
  BY <1>2, DayAssumption

\* A wall time is skipped exactly when the clock never shows it; otherwise
\* plan_catchup composes the first instant that shows it.
LEMMA ScheduledIsFirst ==
  ASSUME NEW z \in Zones, NEW w \in Int
  PROVE  /\ Scheduled(z, w) \in Int
         /\ Skipped(z, w) <=> Shown(z, w) = {}
         /\ Shown(z, w) # {} => /\ Local(z, Scheduled(z, w)) = w
                                /\ FirstShown(z, w) = Scheduled(z, w)
<1> DEFINE u == Scheduled(z, w)
<1>1. z \in [at : Int, before : Int, after : Int]
  BY ZoneAssumption
<1>2. u \in Int
  BY <1>1 DEF Scheduled, Offset
<1>3. Shown(z, w) # {} => /\ u \in Shown(z, w)
                          /\ \A v \in Shown(z, w) : u <= v /\ v \in Int
  BY <1>1 DEF Shown, Local, Scheduled, Offset
<1>4. Skipped(z, w) <=> Shown(z, w) = {}
  BY <1>1 DEF Skipped, Shown, Local, Scheduled, Offset
<1>5. ASSUME Shown(z, w) # {} PROVE FirstShown(z, w) = u
  <2>1. \E first \in Shown(z, w) : \A v \in Shown(z, w) : first <= v
    BY <1>3, <1>5
  <2>2. /\ FirstShown(z, w) \in Shown(z, w)
        /\ \A v \in Shown(z, w) : FirstShown(z, w) <= v
    BY <2>1 DEF FirstShown
  <2>3. QED
    BY <1>2, <1>3, <1>5, <2>2
<1>6. QED
  BY <1>2, <1>3, <1>4, <1>5 DEF Shown

\* A wall time first shown within the grace window has a date plan_catchup looks at.
LEMMA InCandidates ==
  ASSUME NEW z \in Zones, NEW time \in 0..(Day - 1), NEW date \in Int, NEW t \in Int,
         Shown(z, Wall(time, date)) # {},
         Scheduled(z, Wall(time, date)) <= t, t - Scheduled(z, Wall(time, date)) <= Grace
  PROVE  date \in Candidates(z, t)
<1> DEFINE w == Wall(time, date)
           u == Scheduled(z, w)
           l == Local(z, t)
           today == l \div Day
<1>1. z \in [at : Int, before : Int, after : Int] /\ w \in Int
  BY ZoneAssumption, DayAssumption DEF Wall
<1>2. u \in Int /\ Local(z, u) = w
  BY <1>1, ScheduledIsFirst
<1>3. l \in Int /\ today \in Int /\ today * Day <= l /\ l < today * Day + Day
  BY <1>1, DayOfWall DEF Local
<1>4. date * Day <= w /\ w < date * Day + Day
  BY DayAssumption DEF Wall
<1>5. today - 1 <= date
  <2>1. l - w <= Day
    BY <1>1, <1>2, DayAssumption, ZoneAssumption DEF Local
  <2>2. (today - 1) * Day = today * Day - Day
    BY <1>3, DayAssumption
  <2>3. (today - 1) * Day < date * Day + Day
    BY <1>1, <1>3, <1>4, <2>1, <2>2, DayAssumption
  <2>4. QED
    BY <1>3, <2>3, DayOrder
<1>6. date <= today
  <2>1. CASE w <= l
    <3>1. date * Day < today * Day + Day
      BY <1>1, <1>3, <1>4, <2>1, DayAssumption
    <3>2. QED
      BY <1>3, <3>1, DayOrder
  <2>2. CASE ~(w <= l)
    <3> DEFINE last == z.at + z.before - 1
               next == z.at + z.after
    <3>1. z.after < z.before /\ w <= last /\ next <= l
      BY <1>1, <1>2, <2>2 DEF Local
    <3>2. last \div Day = next \div Day
      BY <3>1, ZoneAssumption
    <3>3. /\ last < (next \div Day) * Day + Day
          /\ (next \div Day) * Day <= next
          /\ next \div Day \in Int
      BY <1>1, <3>2, DayOfWall
    <3>4. date * Day < (next \div Day) * Day + Day /\ (next \div Day) * Day < today * Day + Day
      BY <1>1, <1>3, <1>4, <3>1, <3>3, DayAssumption
    <3>5. date <= next \div Day /\ next \div Day <= today
      BY <1>3, <3>3, <3>4, DayOrder
    <3>6. QED
      BY <1>3, <3>3, <3>5
  <2>3. QED
    BY <2>1, <2>2
<1>7. QED
  BY <1>3, <1>5, <1>6 DEF Candidates, LocalDate

\* plan_catchup finds exactly the dates on which the entry was first due
\* within the grace window.
LEMMA PlanLemma ==
  ASSUME NEW z \in Zones, NEW days, NEW time \in 0..(Day - 1), NEW t \in Int, NEW date \in Int
  PROVE  date \in DueDates(z, days, time, t) <=>
           /\ FiresOn(days, date)
           /\ Shown(z, Wall(time, date)) # {}
           /\ FirstShown(z, Wall(time, date)) <= t
           /\ t - FirstShown(z, Wall(time, date)) <= Grace
<1>1. Wall(time, date) \in Int
  BY DayAssumption DEF Wall
<1>2. QED
  BY <1>1, ScheduledIsFirst, InCandidates DEF DueDates

\* A slot the schedule asks for has an instant, and the row dated by that
\* instant is the slot itself.
LEMMA SendFacts ==
  ASSUME NEW s \in Slots
  PROVE  /\ s[1] \in Entries /\ s[2] \in Int
         /\ Time[s[1]] \in 0..(Day - 1) /\ Zone[s[1]] \in Zones
         /\ s \in Sends => /\ Due(s) \in Int
                           /\ Row(s[1], Scheduled(Zone[s[1]], WallOf(s))) = s
<1>1. s[1] \in Entries /\ s[2] \in Int /\ s = <<s[1], s[2]>>
  BY TimeAssumption DEF Slots, Dates
<1>2. Time[s[1]] \in 0..(Day - 1) /\ Zone[s[1]] \in Zones
  BY <1>1, EntryAssumption
<1>3. WallOf(s) \in Int
  BY <1>1, <1>2, DayAssumption DEF WallOf, Wall
<1>4. ASSUME s \in Sends
      PROVE  Due(s) \in Int /\ Local(Zone[s[1]], Scheduled(Zone[s[1]], WallOf(s))) = WallOf(s)
  BY <1>2, <1>3, <1>4, ScheduledIsFirst DEF Due, Sends
<1>5. ASSUME s \in Sends PROVE Row(s[1], Scheduled(Zone[s[1]], WallOf(s))) = s
  BY <1>1, <1>2, <1>4, <1>5, DateOfWall DEF Row, LocalDate, WallOf
<1>6. QED
  BY <1>1, <1>2, <1>4, <1>5

\* Every slot the schedule asks for has an instant.
LEMMA SendInstants == Sends \subseteq Slots /\ \A s \in Sends : Due(s) \in Int
<1>1. Sends \subseteq Slots
  BY DEF Sends
<1>2. QED
  BY <1>1, SendFacts

\* The plan is made of the slots whose live job was due within the grace window.
LEMMA MissedLemma ==
  ASSUME now \in 0..Horizon
  PROVE  Missed = {s \in Sends \ sent : Due(s) <= now /\ now - Due(s) <= Grace}
<1>1. ASSUME NEW s \in Slots
      PROVE  s[2] \in DueDates(Zone[s[1]], Days[s[1]], Time[s[1]], now) <=>
               s \in Sends /\ Due(s) <= now /\ now - Due(s) <= Grace
  <2>1. /\ s[2] \in Int /\ now \in Int
        /\ Time[s[1]] \in 0..(Day - 1) /\ Zone[s[1]] \in Zones
    BY SendFacts, TimeAssumption
  <2>2. s[2] \in DueDates(Zone[s[1]], Days[s[1]], Time[s[1]], now) <=>
          /\ FiresOn(Days[s[1]], s[2])
          /\ Shown(Zone[s[1]], WallOf(s)) # {}
          /\ Due(s) <= now
          /\ now - Due(s) <= Grace
    BY <2>1, PlanLemma DEF Due, WallOf
  <2>3. QED
    BY <2>2 DEF Sends
<1>2. QED
  BY <1>1 DEF Missed, Sends

\* The clock dates every live run within the observed dates.
LEMMA LiveRow ==
  ASSUME now \in 0..Horizon, NEW e \in Entries
  PROVE  Row(e, now) \in Slots
  BY TimeAssumption DEF Row, Slots

-----------------------------------------------------------------------------
\* Every step keeps the types.
LEMMA TypeStep == TypeOK /\ [Next]_vars => TypeOK'
<1> SUFFICES ASSUME TypeOK, [Next]_vars PROVE TypeOK'
  OBVIOUS
<1> USE DayAssumption, TimeAssumption DEF TypeOK, Holding, Phases, fires, flags, visible, store, outcome, times, history
<1>1. ASSUME Tick PROVE TypeOK'
  BY <1>1 DEF Tick
<1>2. ASSUME Boot PROVE TypeOK'
  <2>1. stop' \in BOOLEAN /\ fatal' \in BOOLEAN /\ reload' \in BOOLEAN /\ ready' \in BOOLEAN
    BY <1>2, Zenon DEF Boot
  <2>2. Missed \in SUBSET Sends
    BY MissedLemma
  <2>3. QED
    BY <1>2, <2>1, <2>2 DEF Boot
<1>3. ASSUME InstallHandlers \/ WritePid PROVE TypeOK'
  BY <1>3 DEF InstallHandlers, WritePid
<1>4. ASSUME WritePidRaises \/ GateStops \/ Drained PROVE TypeOK'
  <2>1. stop' \in BOOLEAN /\ fatal' \in BOOLEAN /\ reload' \in BOOLEAN /\ ready' \in BOOLEAN
    BY <1>4, Zenon DEF WritePidRaises, GateStops, Drained, End
  <2>2. /\ phase' = "off" /\ queue' = {} /\ jobs' = {}
        /\ running' = {} /\ releasing' = {} /\ alerting' = {}
        /\ plannedAt' = 0 /\ startedAt' = 0
        /\ pidFile' \in {pidFile, "none"} /\ exit' \in {"clean", "failure"}
        /\ UNCHANGED <<now, store, outcome, strayed, cut, boots>>
    BY <1>4, Zenon DEF WritePidRaises, GateStops, Drained, End
  <2>3. QED
    BY <2>1, <2>2
<1>5. ASSUME NEW cause \in {"sigterm", "kill"}, CutOff(cause) PROVE TypeOK'
  <2>1. stop' \in BOOLEAN /\ fatal' \in BOOLEAN /\ reload' \in BOOLEAN /\ ready' \in BOOLEAN
    BY <1>5, Zenon DEF CutOff, End
  <2>2. QED
    BY <1>5, <2>1 DEF CutOff, End
<1>6. ASSUME ProbeFatal PROVE TypeOK'
  BY <1>6 DEF ProbeFatal
<1>7. ASSUME ProbePasses \/ NotifyReady PROVE TypeOK'
  BY <1>7 DEF ProbePasses, NotifyReady
<1>8. ASSUME PollStops PROVE TypeOK'
  BY <1>8 DEF PollStops
<1>9. ASSUME ServiceReload \/ Sigterm \/ Sighup PROVE TypeOK'
  <2>1. stop' \in BOOLEAN /\ fatal' \in BOOLEAN /\ reload' \in BOOLEAN /\ ready' \in BOOLEAN
    BY <1>9, Zenon DEF ServiceReload, Sigterm, Sighup
  <2>2. jobs \subseteq Slots
    BY DEF Sends
  <2>3. QED
    BY <1>9, <2>1, <2>2 DEF ServiceReload, Sigterm, Sighup
<1>a. ASSUME NEW r \in Slots \ running, NEW s \in Slots, Claim(r, s), UNCHANGED releasing
      PROVE  /\ sent' \in SUBSET Slots /\ whose' \in [Slots -> Slots] /\ muted' \in SUBSET Slots
             /\ running' \in SUBSET Slots /\ alerting' \in SUBSET running' /\ releasing' \in SUBSET Holding'
             /\ raises' \in 0..MaxRaises
  BY <1>a DEF Claim, Raises, Holding
<1>10. ASSUME NEW s \in Slots, CatchupFire(s) PROVE TypeOK'
  <2>1. s \in Sends /\ Claim(s, s) /\ UNCHANGED unclaimed /\ running = {}
    BY <1>10, SendFacts DEF CatchupFire
  <2>2. QED
    BY <1>a, <1>10, <2>1 DEF CatchupFire, unclaimed
<1>11. ASSUME NEW e \in Entries, LiveFire(e) PROVE TypeOK'
  <2>1. Row(e, now) \in Slots /\ DueRuns(e) \subseteq jobs /\ jobs \subseteq Sends /\ Sends \subseteq Slots
    BY LiveRow DEF DueRuns, Sends
  <2>2. CASE UNCHANGED <<sent, whose, running, alerting, muted, raises>>
    BY <1>11, <2>1, <2>2 DEF LiveFire, unclaimed, Holding
  <2>3. CASE ~(\E r \in running : r[1] = e) /\ \E s \in DueRuns(e) : Claim(Row(e, now), s)
    <3>1. Row(e, now) \notin running
      BY <2>3 DEF Row
    <3>2. QED
      BY <1>a, <1>11, <2>1, <2>3, <3>1 DEF LiveFire, unclaimed
  <2>4. QED
    BY <1>11, <2>2, <2>3 DEF LiveFire
<1>12. ASSUME NEW r \in Slots, Deliver(r) \/ PersistRaises(r) PROVE TypeOK'
  <2>1. /\ delivered' \in [Slots -> Nat] /\ late' \in [Slots -> Nat] /\ raises' \in 0..MaxRaises
        /\ r \in running
    BY <1>12 DEF Deliver, PersistRaises, Raises, Sending, aside
  <2>2. /\ UNCHANGED <<aside, alerting, sent, alerted, muted>>
        /\ \/ running' = running \ {r} /\ releasing' = releasing
           \/ running' = running /\ releasing' = releasing \cup {r}
        /\ r \notin releasing \cup alerting
    BY <1>12, Zenon DEF Deliver, PersistRaises, Sending
  <2>3. QED
    BY <2>1, <2>2 DEF aside
<1>13. ASSUME NEW r \in Slots, Release(r) \/ ReleaseRaises(r) \/ Alert(r) \/ AlertRaises(r)
       PROVE  TypeOK'
  <2>1. raises' \in 0..MaxRaises
    BY <1>13 DEF Release, ReleaseRaises, Alert, AlertRaises, EndsMuted, Raises
  <2>2. r \in running
    BY <1>13 DEF Release, ReleaseRaises, Alert, AlertRaises, Holding
  <2>3. /\ UNCHANGED <<aside, delivered, late>>
        /\ muted' \in SUBSET Slots /\ sent' \in SUBSET Slots /\ alerted' \in SUBSET Slots
    BY <1>13 DEF Release, ReleaseRaises, Alert, AlertRaises, EndsMuted
  <2>4. /\ running' \in SUBSET Slots /\ alerting' \in SUBSET running' /\ releasing' \in SUBSET Holding'
    BY <1>13, <2>2 DEF Release, ReleaseRaises, Alert, AlertRaises, EndsMuted, Holding
  <2>5. QED
    BY <2>1, <2>3, <2>4 DEF aside
<1>14. ASSUME UNCHANGED vars PROVE TypeOK'
  BY <1>14 DEF vars
<1>15. QED
  BY <1>1, <1>2, <1>3, <1>4, <1>5, <1>6, <1>7, <1>8, <1>9, <1>10, <1>11, <1>12, <1>13, <1>14 DEF Next, Main, Outcome

\* The initial state has its types.
LEMMA TypeInit == Init => TypeOK
<1> SUFFICES ASSUME Init PROVE TypeOK
  OBVIOUS
<1>1. stop \in BOOLEAN /\ fatal \in BOOLEAN /\ reload \in BOOLEAN /\ ready \in BOOLEAN
  BY Zenon DEF Init
<1>2. /\ now \in 0..Horizon /\ plannedAt \in 0..Horizon /\ startedAt \in 0..Horizon
      /\ boots \in 0..MaxBoots
      /\ delivered \in [Slots -> Nat] /\ late \in [Slots -> Nat] /\ whose \in [Slots -> Slots]
      /\ raises \in 0..MaxRaises
  BY TimeAssumption DEF Init
<1>3. /\ queue \in SUBSET Sends /\ jobs \in SUBSET Sends /\ running \in SUBSET Slots
      /\ alerting \in SUBSET running /\ releasing \in SUBSET Holding /\ muted \in SUBSET Slots
      /\ sent \in SUBSET Slots /\ alerted \in SUBSET Slots /\ strayed \in SUBSET Slots
      /\ cut \in SUBSET {"sigterm", "kill"}
  BY DEF Init, Holding
<1>4. /\ phase \in Phases
      /\ pidFile \in {"none", "own", "stale"}
      /\ exit \in {"none", "clean", "failure", "sigterm", "kill"}
  BY DEF Init, Phases
<1>5. QED
  BY <1>1, <1>2, <1>3, <1>4 DEF TypeOK

\* The clock, the process, the day's slots and the store keep their types.
THEOREM TypeCorrect == Spec => []TypeOK
<1>1. Init => TypeOK
  BY TypeInit
<1>2. QED
  BY <1>1, TypeStep, PTL DEF Spec

\* The plan is exact for every zone and clock, and so is the live plan.
THEOREM PlanExactHolds == Spec => []PlanExact
<1>1. PlanMatchesTrigger
  <2>1. SUFFICES ASSUME NEW z \in Zones, NEW days \in SUBSET {0, 1}, NEW time \in 0..(Day - 1),
                        NEW instant \in 0..Horizon, NEW date \in -1..(LastDate + 1)
                 PROVE  date \in DueDates(z, days, time, instant) <=>
                          /\ FiresOn(days, date)
                          /\ Shown(z, Wall(time, date)) # {}
                          /\ FirstShown(z, Wall(time, date)) <= instant
                          /\ instant - FirstShown(z, Wall(time, date)) <= Grace
    BY Zenon DEF PlanMatchesTrigger
  <2>2. instant \in Int /\ date \in Int
    BY TimeAssumption
  <2>3. QED
    BY <2>2, PlanLemma
<1>2. TypeOK => PlanExact
  BY <1>1, MissedLemma DEF PlanExact, TypeOK
<1>3. QED
  BY <1>2, TypeCorrect, PTL

-----------------------------------------------------------------------------
\* Every step keeps rows, fires and deliveries in step.
LEMMA LedgerStep == LedgerInv /\ [Next]_vars => LedgerInv'
<1> SUFFICES ASSUME LedgerInv, [Next]_vars PROVE LedgerInv'
  OBVIOUS
<1> USE DayAssumption, TimeAssumption DEF LedgerInv, Ledger, TypeOK, Phases, fires, flags, visible, store, outcome, times, history
<1>0. TypeOK'
  BY TypeStep
<1>1. ASSUME Tick PROVE LedgerInv'
  BY <1>0, <1>1 DEF Tick, Holding
<1>2. ASSUME Boot PROVE LedgerInv'
  BY <1>0, <1>2 DEF Boot, Missed, Holding
<1>3. ASSUME InstallHandlers \/ WritePid PROVE LedgerInv'
  BY <1>0, <1>3 DEF InstallHandlers, WritePid, Holding
<1>4. ASSUME WritePidRaises \/ GateStops \/ Drained PROVE LedgerInv'
  BY <1>0, <1>4 DEF WritePidRaises, GateStops, Drained, End, Holding
<1>5. ASSUME NEW cause \in {"sigterm", "kill"}, CutOff(cause) PROVE LedgerInv'
  BY <1>0, <1>5 DEF CutOff, End, Holding
<1>6. ASSUME ProbeFatal PROVE LedgerInv'
  BY <1>0, <1>6 DEF ProbeFatal, Holding
<1>7. ASSUME ProbePasses \/ NotifyReady PROVE LedgerInv'
  BY <1>0, <1>7 DEF ProbePasses, NotifyReady, Holding
<1>8. ASSUME PollStops PROVE LedgerInv'
  BY <1>0, <1>8 DEF PollStops, Holding
<1>9. ASSUME ServiceReload \/ Sigterm \/ Sighup PROVE LedgerInv'
  BY <1>0, <1>9 DEF ServiceReload, Sigterm, Sighup, Holding
<1>a. ASSUME NEW r \in Slots \ running, NEW s \in Sends, Claim(r, s),
             UNCHANGED <<phase, releasing, delivered, late, cut>>, phase \notin {"off", "handlers", "gate"},
             strayed \subseteq strayed', s \in strayed' \/ r = s
      PROVE  LedgerInv'
  <2>1. CASE UNCHANGED <<sent, whose, muted>> /\ Holding' = Holding /\ alerting' \subseteq alerting \cup {r}
    BY <1>0, <1>a, <2>1
  <2>2. CASE /\ r \notin sent /\ sent' = sent \cup {r} /\ whose' = [whose EXCEPT ![r] = s]
             /\ Holding' = Holding \cup {r} /\ muted' = muted \ {r} /\ alerting' = alerting
    <3>1. \A t \in Slots : whose'[t] = IF t = r THEN s ELSE whose[t]
      BY <2>2
    <3>2. r \notin Holding /\ s \in Slots
      BY <1>a DEF Holding, Sends
    <3>3. \A t \in Slots :
            /\ t \in Holding' => t \in sent'
            /\ t \in sent' => whose'[t] \in Sends
            /\ t \in (sent \ Holding)' => delivered[whose'[t]] > 0 \/ cut # {} \/ t \in muted'
      BY <1>a, <2>2, <3>1
    <3>4. \A t \in Slots \ strayed' :
            /\ \A other \in sent' : whose'[other] = t => other = t
            /\ delivered[t] > late[t] => t \in sent' /\ whose'[t] = t
            /\ t \in Holding' /\ whose'[t] = t => delivered[t] <= late[t]
      BY <1>a, <2>2, <3>1, <3>2
    <3>5. QED
      BY <1>0, <1>a, <2>2, <3>3, <3>4
  <2>3. QED
    BY <1>a, <2>1, <2>2 DEF Claim, Holding, Raises
<1>10. ASSUME NEW s \in Slots, CatchupFire(s) PROVE LedgerInv'
  <2>1. s \in Sends /\ Row(s[1], Scheduled(Zone[s[1]], WallOf(s))) = s
    BY <1>10, SendFacts DEF CatchupFire
  <2>2. QED
    BY <1>a, <1>10, <2>1 DEF CatchupFire, unclaimed
<1>11. ASSUME NEW e \in Entries, LiveFire(e) PROVE LedgerInv'
  <2>1. Row(e, now) \in Slots /\ DueRuns(e) \subseteq jobs /\ jobs \subseteq Sends /\ Sends \subseteq Slots
    BY LiveRow DEF DueRuns, Sends
  <2>2. CASE UNCHANGED <<sent, whose, running, alerting, muted, raises>>
    <3>1. Holding' = Holding
      BY <1>11, <2>2 DEF LiveFire, unclaimed, Holding
    <3>2. strayed \subseteq strayed' /\ UNCHANGED <<phase, releasing, delivered, late, cut>>
      BY <1>11 DEF LiveFire, unclaimed
    <3>3. QED
      BY <1>0, <2>2, <3>1, <3>2
  <2>3. ASSUME NEW s \in DueRuns(e), Claim(Row(e, now), s), ~\E r \in running : r[1] = e,
               strayed' = strayed \cup (DueRuns(e) \ {Row(e, now)})
        PROVE  LedgerInv'
    <3>1. Row(e, now) \notin running
      BY <2>3 DEF Row
    <3>2. QED
      BY <1>a, <1>11, <2>1, <2>3, <3>1 DEF LiveFire, unclaimed
  <2>4. QED
    BY <1>11, <2>2, <2>3 DEF LiveFire
<1>12. ASSUME NEW r \in Slots, Deliver(r) \/ PersistRaises(r) PROVE LedgerInv'
  <2>1. /\ r \in Holding /\ r \notin releasing /\ whose[r] \in Slots
        /\ UNCHANGED <<phase, sent, whose, muted, strayed, cut, alerting>>
        /\ \A s \in Slots : delivered'[s] = IF s = whose[r] THEN delivered[s] + 1 ELSE delivered[s]
    BY <1>12 DEF Deliver, PersistRaises, Sending, Holding, aside
  <2>2. CASE Deliver(r)
    <3>1. /\ Holding' = Holding \ {r} /\ releasing' = releasing /\ late' = late
          /\ phase \in {"off", "handlers", "gate"} => running' = {}
      BY <2>2 DEF Deliver, Sending, Holding, aside
    <3>2. QED
      BY <1>0, <2>1, <3>1
  <2>3. CASE PersistRaises(r)
    <3>1. /\ Holding' = Holding /\ releasing' = releasing \cup {r} /\ r \notin alerting
          /\ running' = running
          /\ \A s \in Slots : late'[s] = IF s = whose[r] THEN late[s] + 1 ELSE late[s]
      BY <2>3 DEF PersistRaises, Sending, Holding, aside
    <3>2. QED
      BY <1>0, <2>1, <3>1
  <2>4. QED
    BY <1>12, <2>2, <2>3
<1>13. ASSUME NEW r \in Slots, Release(r) PROVE LedgerInv'
  <2>1. /\ r \in Holding /\ Holding' = Holding \ {r} /\ sent' = sent \ {r}
        /\ releasing' = releasing \ {r} /\ alerting' = alerting \cup {r} /\ running' = running
        /\ UNCHANGED <<phase, whose, delivered, late, muted, strayed, cut>>
    BY <1>13 DEF Release, Holding, aside
  <2>2. QED
    BY <1>0, <2>1
<1>14. ASSUME NEW r \in Slots, ReleaseRaises(r) PROVE LedgerInv'
  <2>1. /\ Holding' = Holding \ {r} /\ muted' = muted \cup {r} /\ running' = running \ {r}
        /\ releasing' = releasing \ {r} /\ alerting' = alerting
        /\ UNCHANGED <<phase, sent, whose, delivered, late, strayed, cut>>
    BY <1>14 DEF ReleaseRaises, EndsMuted, Holding, aside
  <2>2. QED
    BY <1>0, <2>1
<1>15. ASSUME NEW r \in Slots, Alert(r) \/ AlertRaises(r) PROVE LedgerInv'
  <2>1. /\ Holding' = Holding /\ muted \subseteq muted' /\ running' = running \ {r}
        /\ releasing' = releasing /\ alerting' = alerting \ {r}
        /\ UNCHANGED <<phase, sent, whose, delivered, late, strayed, cut>>
    BY <1>15 DEF Alert, AlertRaises, EndsMuted, Holding, aside
  <2>2. QED
    BY <1>0, <2>1
<1>16. ASSUME UNCHANGED vars PROVE LedgerInv'
  BY <1>0, <1>16 DEF vars, Holding
<1>17. QED
  BY <1>1, <1>2, <1>3, <1>4, <1>5, <1>6, <1>7, <1>8, <1>9, <1>10, <1>11, <1>12, <1>13, <1>14, <1>15, <1>16
     DEF Next, Main, Outcome

\* Every reachable state keeps the ledger.
THEOREM LedgerInvariant == Spec => []LedgerInv
<1>1. Init => LedgerInv
  BY TypeInit DEF Init, LedgerInv, Ledger, Holding
<1>2. QED
  BY <1>1, LedgerStep, PTL DEF Spec

\* Catch-up, live jobs and restarts together deliver a slot once, and once more
\* for each raise of persist after its 2xx.
THEOREM DeliveredOnceHolds == Spec => []DeliveredOnce
<1>1. ASSUME LedgerInv, NEW s \in Slots \ strayed
      PROVE  delivered[s] <= IF s \in Sends THEN 1 + late[s] ELSE 0
  <2>1. /\ delivered[s] \in Nat /\ late[s] \in Nat
        /\ delivered[s] <= 1 + late[s] /\ (delivered[s] > 0 => s \in Sends)
    BY <1>1 DEF LedgerInv, Ledger, TypeOK
  <2>2. QED
    BY <2>1
<1>2. LedgerInv => DeliveredOnce
  BY <1>1 DEF DeliveredOnce
<1>3. QED
  BY <1>2, LedgerInvariant, PTL

\* Unless a process was cut off or the recovery of its fire raised, a row that
\* no fire holds stands for a delivery.
THEOREM ClaimsDeliveredHolds == Spec => []ClaimsDelivered
<1>1. LedgerInv => ClaimsDelivered
  BY DEF LedgerInv, Ledger, ClaimsDelivered, TypeOK
<1>2. QED
  BY <1>1, LedgerInvariant, PTL

-----------------------------------------------------------------------------
\* No step loses a slot that a plan or a scheduler start took on.
LEMMA PlannedStep == LedgerInv /\ Planned /\ [Next]_vars => Planned'
<1> SUFFICES ASSUME LedgerInv, Planned, [Next]_vars PROVE Planned'
  OBVIOUS
<1> USE DayAssumption, TimeAssumption DEF LedgerInv, Planned, TakenOn, TypeOK, Phases, fires, flags, visible, store, outcome, times, history
<1>1. ASSUME Tick PROVE Planned'
  BY <1>1 DEF Tick
<1>2. ASSUME Boot PROVE Planned'
  BY <1>2, SendInstants, MissedLemma DEF Boot
<1>3. ASSUME InstallHandlers \/ WritePid PROVE Planned'
  BY <1>3 DEF InstallHandlers, WritePid
<1>4. ASSUME WritePidRaises \/ GateStops \/ Drained PROVE Planned'
  BY <1>4 DEF WritePidRaises, GateStops, Drained, End
<1>5. ASSUME NEW cause \in {"sigterm", "kill"}, CutOff(cause) PROVE Planned'
  BY <1>5 DEF CutOff, End
<1>6. ASSUME ProbeFatal PROVE Planned'
  BY <1>6 DEF ProbeFatal
<1>7. ASSUME ProbePasses \/ NotifyReady PROVE Planned'
  BY <1>7 DEF ProbePasses, NotifyReady
<1>8. ASSUME PollStops PROVE Planned'
  BY <1>8 DEF PollStops
<1>9. ASSUME ServiceReload \/ Sigterm \/ Sighup PROVE Planned'
  BY <1>9 DEF ServiceReload, Sigterm, Sighup
<1>10. ASSUME NEW s \in Slots, CatchupFire(s) PROVE Planned'
  <2>1. s \in Sends /\ Row(s[1], Scheduled(Zone[s[1]], WallOf(s))) = s
    BY <1>10, SendFacts DEF CatchupFire
  <2>2. s \in TakenOn' /\ TakenOn \subseteq TakenOn'
    BY <1>10, <2>1 DEF CatchupFire, Claim, unclaimed
  <2>3. QED
    BY <1>10, <2>1, <2>2 DEF CatchupFire, unclaimed
<1>11. ASSUME NEW e \in Entries, LiveFire(e) PROVE Planned'
  <2>1. Row(e, now) \in Slots /\ DueRuns(e) \subseteq jobs /\ jobs \subseteq Sends /\ Sends \subseteq Slots
    BY LiveRow DEF DueRuns, Sends
  <2>2. TakenOn \subseteq TakenOn' /\ DueRuns(e) \subseteq strayed' \cup TakenOn'
    BY <1>11, <2>1 DEF LiveFire, Claim, unclaimed
  <2>3. strayed \subseteq strayed' /\ jobs' = jobs \ DueRuns(e) /\ UNCHANGED <<phase, queue, times>>
    BY <1>11 DEF LiveFire, unclaimed
  <2>4. QED
    BY <2>2, <2>3
<1>12. ASSUME NEW r \in Slots, Outcome(r) PROVE Planned'
  <2>1. UNCHANGED <<phase, queue, jobs, times, strayed>>
    BY <1>12 DEF Outcome, Deliver, PersistRaises, Release, ReleaseRaises, Alert, AlertRaises,
                 EndsMuted, aside
  <2>2. TakenOn \subseteq TakenOn'
    <3>1. r \in Sending \cup Holding => r \in sent
      BY DEF Ledger, Sending, Holding
    <3>2. ASSUME Deliver(r) \/ PersistRaises(r) PROVE TakenOn \subseteq TakenOn'
      BY <3>1, <3>2 DEF Deliver, PersistRaises, aside
    <3>3. ASSUME Release(r) PROVE TakenOn \subseteq TakenOn'
      BY <3>3 DEF Release, Holding, aside
    <3>4. ASSUME Alert(r) \/ AlertRaises(r) \/ ReleaseRaises(r) PROVE TakenOn \subseteq TakenOn'
      BY <3>4 DEF Alert, AlertRaises, ReleaseRaises, EndsMuted, aside
    <3>5. QED
      BY <1>12, <3>2, <3>3, <3>4 DEF Outcome
  <2>3. QED
    BY <2>1, <2>2
<1>13. ASSUME UNCHANGED vars PROVE Planned'
  BY <1>13 DEF vars
<1>14. QED
  BY <1>1, <1>2, <1>3, <1>4, <1>5, <1>6, <1>7, <1>8, <1>9, <1>10, <1>11, <1>12, <1>13 DEF Next, Main

\* A serving daemon has delivered or alerted every slot behind it, but for the
\* fires that were cut off or whose recovery raised, the two holes of the
\* startup and the misdated live runs.
THEOREM OnlyKnownMissesHolds == Spec => []OnlyKnownMisses
<1>1. Init => Planned
  BY DEF Init, Planned
<1>2. ASSUME LedgerInv, Planned, phase = "serving", NEW s \in Sends \ (jobs \cup running)
      PROVE  \/ delivered[s] > 0
             \/ s \in alerted
             \/ s \in sent /\ cut # {}
             \/ s \in muted
             \/ InStartupGap(s)
             \/ TooOld(s)
             \/ Misdated(s)
  <2>1. s \in Slots /\ Due(s) \in Int /\ plannedAt \in Int /\ startedAt \in Int /\ Grace \in Int
    BY <1>2, SendInstants, DayAssumption, TimeAssumption DEF LedgerInv, TypeOK
  <2>2. \/ s \in sent \cup alerted \cup muted \cup strayed
        \/ InStartupGap(s)
        \/ TooOld(s)
    BY <1>2, <2>1 DEF Planned, TakenOn, InStartupGap, TooOld
  <2>3. CASE s \in sent
    <3>1. delivered[whose[s]] > 0 \/ cut # {} \/ s \in muted
      BY <1>2, <2>1, <2>3 DEF LedgerInv, Ledger, Holding
    <3>2. QED
      BY <2>3, <3>1 DEF Misdated
  <2>4. QED
    BY <2>2, <2>3 DEF Misdated
<1>3. LedgerInv /\ Planned => OnlyKnownMisses
  BY <1>2 DEF OnlyKnownMisses
<1>4. QED
  BY <1>1, <1>3, PlannedStep, LedgerInvariant, PTL DEF Spec

-----------------------------------------------------------------------------
\* Every step keeps the flags, the PID file and READY in line with the phase.
LEMMA ProcessStep == TypeOK /\ Process /\ [Next]_vars => Process'
<1> SUFFICES ASSUME TypeOK, Process, [Next]_vars PROVE Process'
  OBVIOUS
<1> USE DayAssumption, TimeAssumption DEF Process, ProcessHonest, PidMeansHandlers, ReadyAfterStart, ExitHonest,
            TypeOK, Phases, fires, flags, visible, store, outcome, times, history
<1>1. ASSUME Tick PROVE Process'
  BY <1>1, SendInstants DEF Tick
<1>2. ASSUME Boot PROVE Process'
  BY <1>2 DEF Boot, Missed
<1>3. ASSUME InstallHandlers \/ WritePid PROVE Process'
  BY <1>3 DEF InstallHandlers, WritePid
<1>4. ASSUME WritePidRaises \/ GateStops \/ Drained PROVE Process'
  BY <1>4 DEF WritePidRaises, GateStops, Drained, End
<1>5. ASSUME NEW cause \in {"sigterm", "kill"}, CutOff(cause) PROVE Process'
  BY <1>5 DEF CutOff, End
<1>6. ASSUME ProbeFatal PROVE Process'
  BY <1>6 DEF ProbeFatal
<1>7. ASSUME ProbePasses \/ NotifyReady PROVE Process'
  BY <1>7 DEF ProbePasses, NotifyReady
<1>8. ASSUME PollStops PROVE Process'
  BY <1>8 DEF PollStops
<1>9. ASSUME ServiceReload PROVE Process'
  <2>1. \A s \in Sends : Due(s) \in Int
    BY SendInstants
  <2>2. QED
    BY <1>9, <2>1 DEF ServiceReload
<1>10. ASSUME Sigterm \/ Sighup PROVE Process'
  BY <1>10 DEF Sigterm, Sighup
<1>11. ASSUME NEW s \in Slots, CatchupFire(s) PROVE Process'
  <2>1. s \in Sends /\ Row(s[1], Scheduled(Zone[s[1]], WallOf(s))) = s
    BY <1>11, SendFacts DEF CatchupFire
  <2>2. QED
    BY <1>11, <2>1 DEF CatchupFire, Claim, unclaimed, Sends
<1>12. ASSUME NEW e \in Entries, LiveFire(e) PROVE Process'
  <2>1. \A s \in DueRuns(e) : s \in Sends /\ ~(Due(s) > now)
    BY SendInstants DEF DueRuns
  <2>2. QED
    BY <1>12, <2>1 DEF LiveFire, unclaimed
<1>13. ASSUME NEW r \in Slots, Outcome(r) PROVE Process'
  <2>1. UNCHANGED <<now, phase, jobs, flags, visible>>
    BY <1>13 DEF Outcome, Deliver, PersistRaises, Release, ReleaseRaises, Alert, AlertRaises,
                 EndsMuted, aside
  <2>2. QED
    BY <2>1
<1>14. ASSUME UNCHANGED vars PROVE Process'
  BY <1>14 DEF vars
<1>15. QED
  BY <1>1, <1>2, <1>3, <1>4, <1>5, <1>6, <1>7, <1>8, <1>9, <1>10, <1>11, <1>12, <1>13, <1>14 DEF Next, Main

\* The PID file, READY=1 and the exit code mean what their readers take them for.
THEOREM ProcessHolds == Spec => []ProcessHonest
<1>1. Init => Process
  BY DEF Init, Process, ProcessHonest, PidMeansHandlers, ReadyAfterStart, ExitHonest
<1>2. Process => ProcessHonest
  BY DEF Process
<1>3. QED
  BY <1>1, <1>2, ProcessStep, TypeCorrect, PTL DEF Spec

-----------------------------------------------------------------------------
(* The lease *)

\* A row comes to be held only by its claim, and only a fire, an outcome or
\* the end of the process changes which rows are held.
LEMMA LeaseStep == LedgerInv /\ [Next]_vars => [Lease!Next]_(Lease!leaseVars)
<1> SUFFICES ASSUME LedgerInv, [Next]_vars PROVE [Lease!Next]_(Lease!leaseVars)
  OBVIOUS
<1>a. ASSUME Holding' = Holding, sent' \ Holding = sent \ Holding
      PROVE  UNCHANGED Lease!leaseVars
  BY <1>a DEF Lease!leaseVars, Holders
<1>b. ASSUME NEW r \in Slots \ running, NEW s, Claim(r, s) PROVE [Lease!Next]_(Lease!leaseVars)
  <2>1. CASE Holding' = Holding /\ sent' = sent
    BY <1>a, <2>1
  <2>2. CASE r \notin sent /\ sent' = sent \cup {r} /\ Holding' = Holding \cup {r}
    <3>1. r \notin Holding
      BY <1>b DEF Holding
    <3>2. Holders[r] = {} /\ Holders' = [Holders EXCEPT ![r] = {"process"}]
      BY <2>2, <3>1 DEF Holders
    <3>3. r \notin sent \ Holding /\ (sent \ Holding)' = sent \ Holding
      BY <2>2, <3>1
    <3>4. Lease!Acquire("process", r)
      BY <3>2, <3>3 DEF Lease!Acquire
    <3>5. QED
      BY <3>4 DEF Lease!Next
  <2>3. QED
    BY <1>b, <2>1, <2>2 DEF Claim, Holding, LedgerInv, TypeOK
<1>c. ASSUME NEW how, End(how), UNCHANGED sent PROVE [Lease!Next]_(Lease!leaseVars)
  <2>1. Holding' = {} /\ Holding \subseteq sent /\ Holding \subseteq Slots
    BY <1>c DEF End, LedgerInv, TypeOK, Ledger, Holding
  <2>2. Holders' = [r \in Slots |-> {}]
    BY <2>1 DEF Holders
  <2>3. {r \in Slots : Holders[r] # {}} = Holding
    BY <2>1 DEF Holders
  <2>4. (sent \ Holding)' = (sent \ Holding) \cup Holding
    BY <1>c, <2>1
  <2>5. Lease!Die
    BY <2>2, <2>3, <2>4 DEF Lease!Die
  <2>6. QED
    BY <2>5 DEF Lease!Next
<1>d. ASSUME NEW r \in Holding, Holding' = Holding \ {r}, sent' \in {sent, sent \ {r}}
      PROVE  [Lease!Next]_(Lease!leaseVars)
  <2>1. r \in sent /\ r \in Slots
    BY <1>d DEF LedgerInv, TypeOK, Ledger, Holding
  <2>2. "process" \in Holders[r] /\ Holders' = [Holders EXCEPT ![r] = @ \ {"process"}]
    BY <1>d, <2>1 DEF Holders
  <2>3. CASE sent' = sent
    <3>1. (sent \ Holding)' = (sent \ Holding) \cup {r}
      BY <1>d, <2>1, <2>3
    <3>2. Lease!Close("process", r)
      BY <2>2, <3>1 DEF Lease!Close
    <3>3. QED
      BY <2>1, <3>2 DEF Lease!Next
  <2>4. CASE sent' = sent \ {r}
    <3>1. (sent \ Holding)' = sent \ Holding
      BY <1>d, <2>4
    <3>2. Lease!GiveBack("process", r)
      BY <2>2, <3>1 DEF Lease!GiveBack
    <3>3. QED
      BY <2>1, <3>2 DEF Lease!Next
  <2>5. QED
    BY <1>d, <2>3, <2>4
<1>1. ASSUME Tick \/ Boot \/ InstallHandlers \/ WritePid \/ ProbeFatal
             \/ ProbePasses \/ NotifyReady \/ ServiceReload \/ PollStops
             \/ Sigterm \/ Sighup \/ UNCHANGED vars
      PROVE [Lease!Next]_(Lease!leaseVars)
  <2>1. UNCHANGED <<running, alerting, sent>>
    BY <1>1 DEF Tick, Boot, InstallHandlers, WritePid, ProbeFatal, ProbePasses,
                NotifyReady, ServiceReload, PollStops, Sigterm, Sighup, store, fires, vars
  <2>2. QED
    BY <1>a, <2>1 DEF Holding
<1>2. ASSUME WritePidRaises \/ GateStops \/ Drained PROVE [Lease!Next]_(Lease!leaseVars)
  BY <1>2, <1>c DEF WritePidRaises, GateStops, Drained, store
<1>3. ASSUME NEW cause \in {"sigterm", "kill"}, CutOff(cause)
      PROVE [Lease!Next]_(Lease!leaseVars)
  BY <1>3, <1>c DEF CutOff, store
<1>4. ASSUME NEW s \in Slots, CatchupFire(s) PROVE [Lease!Next]_(Lease!leaseVars)
  <2>1. Row(s[1], Scheduled(Zone[s[1]], WallOf(s))) = s
    BY <1>4, SendFacts DEF CatchupFire, LedgerInv, TypeOK
  <2>2. Claim(s, s) /\ running = {}
    BY <1>4, <2>1 DEF CatchupFire
  <2>3. QED
    BY <1>b, <2>2
<1>5. ASSUME NEW e \in Entries, LiveFire(e) PROVE [Lease!Next]_(Lease!leaseVars)
  <2>1. Row(e, now) \in Slots
    BY LiveRow DEF LedgerInv, TypeOK
  <2>2. CASE UNCHANGED <<running, alerting, sent>>
    BY <1>a, <2>2 DEF Holding
  <2>3. ASSUME NEW s, Claim(Row(e, now), s), ~\E r \in running : r[1] = e
        PROVE  [Lease!Next]_(Lease!leaseVars)
    <3>1. Row(e, now) \notin running
      BY <2>3 DEF Row
    <3>2. QED
      BY <1>b, <2>1, <2>3, <3>1
  <2>4. QED
    BY <1>5, <2>2, <2>3 DEF LiveFire
<1>6. ASSUME NEW r \in Slots, Deliver(r) \/ Release(r) \/ ReleaseRaises(r)
      PROVE  [Lease!Next]_(Lease!leaseVars)
  <2>1. r \in Holding /\ Holding' = Holding \ {r} /\ sent' \in {sent, sent \ {r}}
    BY <1>6 DEF Deliver, Release, ReleaseRaises, EndsMuted, Sending, Holding, aside,
                LedgerInv, TypeOK
  <2>2. QED
    BY <1>d, <2>1
<1>7. ASSUME NEW r \in Slots, PersistRaises(r) \/ Alert(r) \/ AlertRaises(r)
      PROVE  [Lease!Next]_(Lease!leaseVars)
  <2>1. Holding' = Holding /\ sent' = sent
    BY <1>7 DEF PersistRaises, Alert, AlertRaises, EndsMuted, Holding, aside
  <2>2. QED
    BY <1>a, <2>1
<1>8. QED
  BY <1>1, <1>2, <1>3, <1>4, <1>5, <1>6, <1>7 DEF Next, Main, Outcome

(* Over restarts, catch-ups and live fires the rows are leases, the abstract *)
(* specification that fire_slot implements in Delivery: the few steps a fire *)
(* is here and its detail there keep the same promise.                       *)
THEOREM LeaseKept == Spec => ImplementsLease
<1>1. Init => Lease!Init
  BY DEF Init, Lease!Init, Holders, Holding
<1>2. QED
  BY <1>1, LeaseStep, LedgerInvariant, PTL DEF Spec, Lease!Spec, ImplementsLease
-----------------------------------------------------------------------------
(* The order of an entry's slots *)

(* The slots of one entry are due in the order of their dates, a grace       *)
(* window apart, over every transition: the run that coalescing keeps is the *)
(* latest, and two dates of an entry are both missed only at the very edge.  *)
THEOREM SendsApart ==
  ASSUME NEW s \in Sends, NEW t \in Sends, s[1] = t[1], s[2] < t[2]
  PROVE  Due(s) + Grace <= Due(t)
<1> DEFINE z == Zone[s[1]]
<1>1. /\ s \in Slots /\ t \in Slots /\ s[2] \in Int /\ t[2] \in Int
      /\ Time[s[1]] \in 0..(Day - 1) /\ z \in Zones
  BY SendFacts DEF Sends
<1>2. z \in [at : Int, before : Int, after : Int]
  BY <1>1, ZoneAssumption
<1>3. WallOf(s) \in Int /\ WallOf(t) \in Int /\ WallOf(s) + Day <= WallOf(t)
  <2>1. (t[2] - s[2] - 1) * Day >= 0
    BY <1>1, DayAssumption
  <2>2. QED
    BY <1>1, <2>1, DayAssumption DEF WallOf, Wall
<1>4. /\ Due(s) \in Int /\ Local(z, Due(s)) = WallOf(s)
      /\ Due(t) \in Int /\ Local(z, Due(t)) = WallOf(t)
  BY <1>1, <1>3, ScheduledIsFirst DEF Sends, Due
<1>5. Grace + (z.after - z.before) <= Day /\ Grace + (z.before - z.after) <= Day
  BY <1>1, ZoneAssumption
<1>6. QED
  BY <1>2, <1>3, <1>4, <1>5, DayAssumption DEF Local

-----------------------------------------------------------------------------
(* The variant of a process *)

\* Sets of slots are finite.
LEMMA SlotSets ==
  ASSUME NEW A \in SUBSET Slots
  PROVE  /\ IsFiniteSet(A) /\ Cardinality(A) \in Nat
         /\ Cardinality(Slots) \in Nat /\ Cardinality(A) <= Cardinality(Slots)
<1>1. IsFiniteSet(Dates)
  BY TimeAssumption, FS_Interval DEF Dates
<1>2. IsFiniteSet(Slots)
  BY <1>1, EntriesFinite, FS_Product DEF Slots
<1>3. QED
  BY <1>2, FS_Subset, FS_CardinalityType

\* The parts of the measure are numbers.
LEMMA LoadNat ==
  TypeOK => /\ Cardinality(Slots) \in Nat
            /\ Cardinality(queue) \in 0..Cardinality(Slots)
            /\ Cardinality(jobs) \in 0..Cardinality(Slots)
            /\ Cardinality(running) \in 0..Cardinality(Slots)
            /\ Cardinality(Holding) \in 0..Cardinality(Slots)
            /\ Cardinality(Sending) \in 0..Cardinality(Slots)
<1>1. ASSUME TypeOK
      PROVE  /\ queue \in SUBSET Slots /\ jobs \in SUBSET Slots /\ running \in SUBSET Slots
             /\ Holding \in SUBSET Slots /\ Sending \in SUBSET Slots
  BY <1>1 DEF TypeOK, Sends, Holding, Sending
<1>2. QED
  BY <1>1, SlotSets

\* The same of the state after a step.
LEMMA LoadNatNext ==
  ASSUME TypeOK'
  PROVE  /\ Cardinality(queue') \in 0..Cardinality(Slots)
         /\ Cardinality(jobs') \in 0..Cardinality(Slots)
         /\ Cardinality(running') \in 0..Cardinality(Slots)
         /\ Cardinality(Holding') \in 0..Cardinality(Slots)
         /\ Cardinality(Sending') \in 0..Cardinality(Slots)
<1>1. /\ queue' \in SUBSET Slots /\ jobs' \in SUBSET Slots /\ running' \in SUBSET Slots
      /\ Holding' \in SUBSET Slots /\ Sending' \in SUBSET Slots
  BY DEF TypeOK, Sends, Holding, Sending
<1>2. QED
  BY <1>1, SlotSets

LEMMA AheadBounded == TypeOK => Ahead \in Nat /\ Load \in Nat /\ LifeBounded
<1> SUFFICES ASSUME TypeOK PROVE Ahead \in Nat /\ Load \in Nat /\ LifeBounded
  OBVIOUS
<1> DEFINE N == Cardinality(Slots)
<1>1. N \in Nat /\ Load \in 0..(11 * N)
  BY LoadNat DEF Load
<1>2. Rank[phase] \in 0..6
  BY DEF TypeOK, Phases, Rank
<1> HIDE DEF N
<1>3. Rank[phase] * (4 * N + 1) \in 0..(24 * N + 6)
  <2>1. Rank[phase] \in {0, 1, 2, 3, 4, 5, 6}
    BY <1>2
  <2>2. QED
    BY <1>1, <2>1
<1>4. QED
  BY <1>1, <1>3 DEF Ahead, LifeBounded, N

\* What the fires in flight have ahead of them.
Flights == Cardinality(running) + Cardinality(Holding) + Cardinality(Sending)

\* A fire that is started adds one row to those in flight.
LEMMA ClaimLoad ==
  ASSUME TypeOK, NEW r \in Slots \ running, NEW s, Claim(r, s), UNCHANGED releasing
  PROVE  Flights' <= Flights + 3
<1>1. ASSUME NEW A \in SUBSET Slots, NEW B, B = A \/ B = A \cup {r}
      PROVE  Cardinality(B) <= Cardinality(A) + 1 /\ Cardinality(B) \in Nat /\ Cardinality(A) \in Nat
  <2>1. IsFiniteSet(A) /\ Cardinality(A) \in Nat
    BY SlotSets
  <2>2. QED
    BY <1>1, <2>1, FS_AddElement, FS_CardinalityType
<1>2. /\ running \in SUBSET Slots /\ Holding \in SUBSET Slots /\ Sending \in SUBSET Slots
      /\ running' = running \/ running' = running \cup {r}
      /\ Holding' = Holding \/ Holding' = Holding \cup {r}
      /\ Sending' = Sending \/ Sending' = Sending \cup {r}
  BY DEF Claim, TypeOK, Holding, Sending
<1>3. /\ Cardinality(running') <= Cardinality(running) + 1
      /\ Cardinality(running') \in Nat /\ Cardinality(running) \in Nat
  BY <1>1, <1>2
<1>4. /\ Cardinality(Holding') <= Cardinality(Holding) + 1
      /\ Cardinality(Holding') \in Nat /\ Cardinality(Holding) \in Nat
  BY <1>1, <1>2
<1>5. /\ Cardinality(Sending') <= Cardinality(Sending) + 1
      /\ Cardinality(Sending') \in Nat /\ Cardinality(Sending) \in Nat
  BY <1>1, <1>2
<1>6. QED
  BY <1>3, <1>4, <1>5 DEF Flights

\* A set of slots loses what is taken from it.
LEMMA Taken ==
  ASSUME NEW A \in SUBSET Slots, NEW B, NEW x \in A \cap B
  PROVE  Cardinality(A \ B) < Cardinality(A)
<1>1. IsFiniteSet(A \ {x}) /\ Cardinality(A \ {x}) = Cardinality(A) - 1
  BY SlotSets, FS_RemoveElement
<1>2. A \ B \in SUBSET (A \ {x})
  OBVIOUS
<1>3. Cardinality(A \ B) <= Cardinality(A \ {x})
  BY <1>1, <1>2, FS_Subset
<1>4. Cardinality(A) \in Nat /\ Cardinality(A \ B) \in Nat
  BY SlotSets
<1>5. QED
  BY <1>1, <1>3, <1>4

\* Each outcome of a fire takes it a stage further: out of the sends, of the
\* rows held, or of those in flight.
LEMMA OutcomeLoad ==
  ASSUME TypeOK, NEW r \in Slots, Outcome(r)
  PROVE  Flights' < Flights
<1>1. /\ running \in SUBSET Slots /\ Holding \in SUBSET Slots /\ Sending \in SUBSET Slots
  BY DEF TypeOK, Holding, Sending
<1>2. ASSUME NEW A \in SUBSET Slots, NEW B \in SUBSET A
      PROVE  Cardinality(B) <= Cardinality(A) /\ Cardinality(B) \in Nat /\ Cardinality(A) \in Nat
  BY SlotSets, FS_Subset
<1>3. ASSUME running' \in SUBSET running, Holding' \in SUBSET Holding, Sending' \in SUBSET Sending
      PROVE  /\ Cardinality(running') <= Cardinality(running)
             /\ Cardinality(Holding') <= Cardinality(Holding)
             /\ Cardinality(Sending') <= Cardinality(Sending)
             /\ Cardinality(running) \in Nat /\ Cardinality(running') \in Nat
             /\ Cardinality(Holding) \in Nat /\ Cardinality(Holding') \in Nat
             /\ Cardinality(Sending) \in Nat /\ Cardinality(Sending') \in Nat
  BY <1>1, <1>2, <1>3
<1>4. CASE PersistRaises(r)
  <2>1. /\ running' \in SUBSET running /\ Holding' \in SUBSET Holding
        /\ r \in Sending /\ Sending' = Sending \ {r}
    BY <1>4 DEF PersistRaises, Holding, Sending, aside
  <2>2. Cardinality(Sending') < Cardinality(Sending)
    BY <1>1, <2>1, Taken
  <2>3. QED
    BY <1>3, <2>1, <2>2 DEF Flights
<1>5. CASE Release(r)
  <2>1. /\ running' \in SUBSET running /\ Sending' \in SUBSET Sending
        /\ r \in Holding /\ Holding' = Holding \ {r}
    BY <1>5 DEF Release, Holding, Sending, aside
  <2>2. Cardinality(Holding') < Cardinality(Holding)
    BY <1>1, <2>1, Taken
  <2>3. QED
    BY <1>3, <2>1, <2>2 DEF Flights
<1>6. CASE Deliver(r) \/ ReleaseRaises(r) \/ Alert(r) \/ AlertRaises(r)
  <2>1. /\ Holding' \in SUBSET Holding /\ Sending' \in SUBSET Sending
        /\ r \in running /\ running' = running \ {r}
    BY <1>6 DEF Deliver, ReleaseRaises, Alert, AlertRaises, EndsMuted, Holding, Sending, aside, TypeOK
  <2>2. Cardinality(running') < Cardinality(running)
    BY <1>1, <2>1, Taken
  <2>3. QED
    BY <1>3, <2>1, <2>2 DEF Flights
<1>7. QED
  BY <1>4, <1>5, <1>6 DEF Outcome

\* The load is what is to be taken on and what is in flight.
LEMMA LoadParts ==
  ASSUME TypeOK, TypeOK'
  PROVE  /\ Load = 4 * Cardinality(queue) + 4 * Cardinality(jobs) + Flights
         /\ Load' = 4 * Cardinality(queue') + 4 * Cardinality(jobs') + Flights'
         /\ Cardinality(queue) \in Nat /\ Cardinality(jobs) \in Nat /\ Flights \in Nat
         /\ Cardinality(queue') \in Nat /\ Cardinality(jobs') \in Nat /\ Flights' \in Nat
BY LoadNat, LoadNatNext DEF Load, Flights

\* In the same phase the load tells what is ahead; otherwise the phase does.
LEMMA SamePhase ==
  ASSUME TypeOK, TypeOK', phase' = phase
  PROVE  (Load' < Load => Ahead' < Ahead) /\ (Load' <= Load => Ahead' <= Ahead)
<1> DEFINE p == Rank[phase] * (4 * Cardinality(Slots) + 1)
<1>1. p \in Int
  BY LoadNat DEF TypeOK, Phases, Rank
<1>2. Load \in Nat /\ Load' \in Nat
  <2>1. (TypeOK => Load \in Nat) /\ (TypeOK => Load \in Nat)'
    BY AheadBounded, PTL
  <2>2. QED
    BY <2>1
<1>3. Ahead = p + Load /\ Ahead' = p + Load'
  BY DEF Ahead
<1>4. \A k, m, n \in Int : (m < n => k + m < k + n) /\ (m <= n => k + m <= k + n)
  OBVIOUS
<1>5. p \in Int /\ Load \in Int /\ Load' \in Int
  BY <1>1, <1>2
<1> HIDE DEF p
<1>6. QED
  BY <1>3, <1>4, <1>5, Zenon

\* A step of the main thread to the next phase, or out of the process.
LEMMA NextPhase ==
  ASSUME TypeOK, TypeOK', Rank[phase'] < Rank[phase],
         queue' \in {queue, {}}, UNCHANGED fires \/ running' = {}
  PROVE  Ahead' < Ahead
<1> DEFINE N == Cardinality(Slots)
           now0 == Rank[phase]
           next == Rank[phase']
<1>1. N \in Nat /\ Cardinality(jobs') \in 0..N
  BY LoadNat, LoadNatNext
<1>a. Cardinality({}) = 0
  BY FS_EmptySet
<1>b. Cardinality(queue') <= Cardinality(queue)
  <2>1. CASE queue' = queue
    BY <2>1, LoadParts
  <2>2. CASE queue' = {}
    BY <1>a, <2>2, LoadParts
  <2>3. QED
    BY <2>1, <2>2
<1>2. Flights' <= Flights
  <2>1. CASE UNCHANGED fires
    <3>1. running' = running /\ Holding' = Holding /\ Sending' = Sending
      BY <2>1 DEF fires, Holding, Sending
    <3>2. Flights' = Flights
      BY <3>1 DEF Flights
    <3>3. QED
      BY <3>2, LoadParts
  <2>2. CASE running' = {}
    <3>1. running' = {} /\ Holding' = {} /\ Sending' = {}
      BY <2>2 DEF Holding, Sending
    <3>2. Flights' = 0
      BY <1>a, <3>1 DEF Flights
    <3>3. QED
      BY <3>2, LoadParts
  <2>3. QED
    BY <2>1, <2>2
<1>3. Load' <= Load + 4 * N /\ Load \in Int /\ Load' \in Int
  <2> HIDE DEF N
  <2>1. QED
    BY <1>1, <1>2, <1>b, LoadParts
<1>4. now0 \in 0..6 /\ next \in 0..6 /\ next <= now0 - 1
  BY DEF TypeOK, Phases, Rank
<1> HIDE DEF N, now0, next
<1>5. next * (4 * N + 1) + 4 * N + 1 <= now0 * (4 * N + 1)
  <2>1. (now0 - 1 - next) * (4 * N + 1) >= 0
    BY <1>1, <1>4
  <2>2. QED
    BY <1>1, <1>4, <2>1
<1>6. Ahead = now0 * (4 * N + 1) + Load /\ Ahead' = next * (4 * N + 1) + Load'
  BY DEF Ahead, N, now0, next
<1>7. now0 * (4 * N + 1) \in Int /\ next * (4 * N + 1) \in Int
  BY <1>1, <1>4
<1>8. QED
  BY <1>1, <1>3, <1>5, <1>6, <1>7

\* The main thread and the fires bring the process nearer its end.
LEMMA ProgressShortens ==
  ASSUME TypeOK, TypeOK', phase # "off", Progress
  PROVE  Ahead' < Ahead
<1> USE DEF TypeOK, Rank
<1>0. Sends \subseteq Slots /\ queue \in SUBSET Slots /\ jobs \in SUBSET Slots
  BY DEF Sends
<1>1. /\ Load = 4 * Cardinality(queue) + 4 * Cardinality(jobs) + Flights
      /\ Load' = 4 * Cardinality(queue') + 4 * Cardinality(jobs') + Flights'
      /\ Cardinality(queue) \in Nat /\ Cardinality(jobs) \in Nat /\ Flights \in Nat
      /\ Cardinality(queue') \in Nat /\ Cardinality(jobs') \in Nat /\ Flights' \in Nat
  BY LoadParts
<1>a. ASSUME phase' = phase, Cardinality(queue') + Cardinality(jobs') < Cardinality(queue) + Cardinality(jobs),
             Flights' <= Flights + 3
      PROVE  Ahead' < Ahead
  <2>1. Load' < Load
    BY <1>1, <1>a
  <2>2. QED
    BY <1>a, <2>1, SamePhase
<1>2. CASE InstallHandlers \/ WritePid
  <2>1. Rank[phase'] < Rank[phase] /\ queue' \in {queue, {}} /\ UNCHANGED fires
    BY <1>2 DEF InstallHandlers, WritePid
  <2>2. QED
    BY <2>1, NextPhase
<1>3. CASE NotifyReady \/ PollStops \/ ProbePasses
  <2>1. /\ queue' = queue /\ UNCHANGED fires
        /\ \/ phase = "gate" /\ phase' = "online"
           \/ phase = "online" /\ phase' = "serving"
           \/ phase = "serving" /\ phase' = "draining"
    BY <1>3, Zenon DEF NotifyReady, PollStops, ProbePasses
  <2>2. Rank[phase'] < Rank[phase]
    BY <2>1
  <2>3. QED
    BY <2>1, <2>2, NextPhase
<1>4. CASE WritePidRaises \/ GateStops \/ Drained
  <2>1. Rank[phase'] < Rank[phase] /\ queue' \in {queue, {}} /\ running' = {}
    BY <1>4 DEF WritePidRaises, GateStops, Drained, End
  <2>2. QED
    BY <2>1, NextPhase
<1>5. ASSUME NEW s \in Slots, CatchupFire(s) PROVE Ahead' < Ahead
  <2>1. /\ s \in queue /\ queue' = queue \ {s} /\ UNCHANGED <<phase, jobs, releasing>> /\ running = {}
        /\ Claim(Row(s[1], Scheduled(Zone[s[1]], WallOf(s))), s)
    BY <1>5 DEF CatchupFire, unclaimed
  <2>2. Row(s[1], Scheduled(Zone[s[1]], WallOf(s))) = s
    BY <1>0, <2>1, SendFacts
  <2>3. Cardinality(queue') < Cardinality(queue)
    BY <1>0, <2>1, Taken
  <2>4. Flights' <= Flights + 3
    BY <2>1, <2>2, ClaimLoad
  <2>5. QED
    BY <1>1, <1>a, <2>1, <2>3, <2>4
<1>6. ASSUME NEW e \in Entries, LiveFire(e) PROVE Ahead' < Ahead
  <2>1. /\ DueRuns(e) # {} /\ DueRuns(e) \subseteq jobs /\ jobs' = jobs \ DueRuns(e)
        /\ UNCHANGED <<phase, queue, releasing>>
    BY <1>6 DEF LiveFire, DueRuns, unclaimed
  <2>2. Cardinality(jobs') < Cardinality(jobs)
    BY <1>0, <2>1, Taken
  <2>3. Flights' <= Flights + 3
    <3>1. CASE UNCHANGED <<running, alerting>>
      <4>1. running' = running /\ Holding' = Holding /\ Sending' = Sending
        BY <2>1, <3>1 DEF Holding, Sending
      <4>2. Flights' = Flights
        BY <4>1 DEF Flights
      <4>3. QED
        BY <1>1, <4>2
    <3>2. ASSUME NEW s, Claim(Row(e, now), s), ~\E r \in running : r[1] = e
          PROVE  Flights' <= Flights + 3
      <4>1. Row(e, now) \in Slots \ running
        BY <3>2, LiveRow DEF Row
      <4>2. QED
        BY <2>1, <3>2, <4>1, ClaimLoad
    <3>3. QED
      BY <1>6, <3>1, <3>2 DEF LiveFire
  <2>4. QED
    BY <1>1, <1>a, <2>1, <2>2, <2>3
<1>7. ASSUME NEW r \in Slots, Outcome(r) PROVE Ahead' < Ahead
  <2>1. UNCHANGED <<phase, queue, jobs>>
    BY <1>7 DEF Outcome, Deliver, PersistRaises, Release, ReleaseRaises, Alert, AlertRaises,
                EndsMuted, aside
  <2>2. Flights' < Flights
    BY <1>7, OutcomeLoad
  <2>3. Load' < Load
    BY <1>1, <2>1, <2>2
  <2>4. QED
    BY <2>1, <2>3, SamePhase
<1>8. QED
  BY <1>2, <1>3, <1>4, <1>5, <1>6, <1>7 DEF Progress, Main

(* Whatever the main thread or a fire does brings the process nearer its     *)
(* end; probes, signals, reloads and the clock never take it away from it.   *)
THEOREM LifeShortensHolds == Spec => LifeShortens
<1> DEFINE Shorter == phase # "off" => /\ Ahead' <= Ahead
                                       /\ Progress => Ahead' < Ahead
<1>1. TypeOK /\ TypeOK' /\ [Next]_vars => [Shorter]_vars
  <2> SUFFICES ASSUME TypeOK, TypeOK', Next, phase # "off"
               PROVE  Ahead' <= Ahead /\ (Progress => Ahead' < Ahead)
    OBVIOUS
  <2>1. Ahead \in Nat /\ Ahead' \in Nat
    <3>1. (TypeOK => Ahead \in Nat) /\ (TypeOK => Ahead \in Nat)'
      BY AheadBounded, PTL
    <3>2. QED
      BY <3>1
  <2>2. CASE Progress
    BY <2>1, <2>2, ProgressShortens
  <2>3. ASSUME UNCHANGED <<phase, queue, fires>>, jobs' \subseteq jobs PROVE Ahead' <= Ahead
    <3>1. jobs \in SUBSET Slots /\ jobs' \in SUBSET jobs
      BY <2>3 DEF TypeOK, Sends
    <3>2. Cardinality(jobs') <= Cardinality(jobs)
      BY <3>1, SlotSets, FS_Subset
    <3>3. running' = running /\ Holding' = Holding /\ Sending' = Sending
      BY <2>3 DEF fires, Holding, Sending
    <3>4. Flights' = Flights
      BY <3>3 DEF Flights
    <3>5. Load' <= Load
      BY <2>3, <3>2, <3>4, LoadParts
    <3>6. QED
      BY <2>3, <3>5, SamePhase
  <2>4. ASSUME Tick \/ ProbeFatal \/ Sigterm \/ Sighup PROVE Ahead' <= Ahead
    <3>1. UNCHANGED <<phase, queue, jobs, fires>>
      BY <2>4, Zenon DEF Tick, ProbeFatal, Sigterm, Sighup
    <3>2. UNCHANGED <<phase, queue, fires>> /\ jobs' \subseteq jobs
      BY <3>1
    <3>3. QED
      BY <2>3, <3>2, Zenon
  <2>5. ASSUME ServiceReload PROVE Ahead' <= Ahead
    <3>1. UNCHANGED <<phase, queue, fires>> /\ \E lost : jobs' = jobs \ lost
      BY <2>5, Zenon DEF ServiceReload
    <3>2. QED
      BY <2>3, <3>1
  <2>6. ASSUME NEW cause \in {"sigterm", "kill"}, CutOff(cause) PROVE Ahead' < Ahead
    <3>1. Rank[phase'] < Rank[phase] /\ queue' \in {queue, {}} /\ running' = {}
      BY <2>6 DEF CutOff, End, TypeOK, Phases, Rank
    <3>2. QED
      BY <3>1, NextPhase
  <2>7. CASE ~Progress
    <3>1. ~Boot
      BY DEF Boot
    <3>2. Tick \/ ProbeFatal \/ ServiceReload \/ Sigterm \/ Sighup
          \/ \E cause \in {"sigterm", "kill"} : CutOff(cause)
      BY <2>7, <3>1, Zenon DEF Next, Progress
    <3>3. \A m, n \in Nat : m < n => m <= n
      OBVIOUS
    <3>4. CASE \E cause \in {"sigterm", "kill"} : CutOff(cause)
      BY <2>1, <2>6, <2>7, <3>3, <3>4, Zenon
    <3>5. QED
      BY <2>4, <2>5, <2>7, <3>2, <3>4, Zenon
  <2>8. QED
    BY <2>2, <2>7
<1>2. QED
  BY <1>1, TypeCorrect, PTL DEF Spec, LifeShortens

(* A life of the process takes a number of steps that the schedule bounds.   *)
THEOREM LifeBoundedHolds == Spec => []LifeBounded
BY TypeCorrect, AheadBounded, PTL
=============================================================================
