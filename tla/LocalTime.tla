----------------------------- MODULE LocalTime -----------------------------
(***************************************************************************)
(* The calendar of the catch-up planner (scheduler/catchup.py): which      *)
(* dates of a schedule entry were due within the grace window, over        *)
(* midnight and over a change of the zone's offset.  Instants are minutes  *)
(* of UTC, wall times minutes since local date 0.  A zone is its offsets   *)
(* before and after one transition.                                        *)
(***************************************************************************)
EXTENDS Integers

CONSTANTS Day,    \* minutes of a day
          Grace,  \* catchup.GRACE
          Zones   \* the zones, as records of at, before and after

ASSUME DayAssumption == Day \in Nat \ {0} /\ Grace \in Nat

\* A transition moves the clock by less than a day less the grace window,
\* and does not set it back over a midnight it has passed.
ASSUME ZoneAssumption ==
  \A z \in Zones :
    /\ z \in [at : Int, before : Int, after : Int]
    /\ Grace + (z.after - z.before) <= Day
    /\ Grace + (z.before - z.after) <= Day
    /\ z.after < z.before => (z.at + z.before - 1) \div Day = (z.at + z.after) \div Day

\* datetime.astimezone: what the zone's clock shows at instant u.
Local(z, u) == u + (IF u < z.at THEN z.before ELSE z.after)

LocalDate(z, u) == Local(z, u) \div Day

\* Mutant of Offset: always the offset after the transition.
OffsetAfter(z, w, fold) == z.after

\* utcoffset of the wall time w (PEP 495): the transition is where the
\* later of the two clocks shows it for fold 0, the earlier for fold 1.
Offset(z, w, fold) ==
  LET first == IF z.before < z.after THEN z.after ELSE z.before
      second == IF z.before < z.after THEN z.before ELSE z.after
  IN  IF w < z.at + (IF fold = 0 THEN first ELSE second) THEN z.before ELSE z.after

\* The instant plan_catchup composes for a wall time: fold 0.
Scheduled(z, w) == w - Offset(z, w, 0)

\* A wall time the clock jumps over: the folds differ, and it does not come
\* back from UTC as itself.
Skipped(z, w) == Offset(z, w, 0) # Offset(z, w, 1) /\ Local(z, Scheduled(z, w)) # w

\* fires_on, with the weekdays of the normalised day_of_week; date 0 is a Monday.
FiresOn(days, date) == date % 7 \in days

Wall(time, date) == date * Day + time

\* Mutant of Candidates: today only (before F14).
Today(z, instant) == {LocalDate(z, instant)}

\* The dates plan_catchup looks at: today and yesterday, of the location.
Candidates(z, instant) == {LocalDate(z, instant), LocalDate(z, instant) - 1}

\* The dates of an entry that plan_catchup finds due and within grace.
DueDates(z, days, time, instant) ==
  {date \in Candidates(z, instant) :
     LET w == Wall(time, date)
     IN  /\ FiresOn(days, date)
         /\ ~Skipped(z, w)
         /\ Scheduled(z, w) <= instant
         /\ instant - Scheduled(z, w) <= Grace}

-----------------------------------------------------------------------------
(* The reference: the live CronTrigger fires when the clock of the zone    *)
(* first shows the wall time, and not at all when it never does.           *)

Shown(z, w) == {u \in {w - z.before, w - z.after} : Local(z, u) = w}

FirstShown(z, w) == CHOOSE u \in Shown(z, w) : \A v \in Shown(z, w) : u <= v
=============================================================================
