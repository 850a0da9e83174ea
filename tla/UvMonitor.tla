------------------------------ MODULE UvMonitor ------------------------------
(***************************************************************************)
(* The UV monitor (scheduler/uvmonitor.py) over one day: a job that every   *)
(* few minutes fetches each active location's weather, decides on one of   *)
(* three alerts, claims its uv_alerts row and posts it, each at most once  *)
(* per location and day.  The rows are all that outlives a process.        *)
(*                                                                         *)
(* The scheduler never runs two ticks at once (max_instances=1).  The      *)
(* measured index and the forecast are whatever the provider says at each  *)
(* fetch.  A day begins without rows, so one day stands for all.           *)
(***************************************************************************)
EXTENDS UvWindow, Sequences

CONSTANTS Locations,
          Configs,    \* what a configuration says: see ConfigsAssumption
          Hours,      \* the instants of the hourly points of the day
          Indices,    \* UV indices, measured or forecast
          Sunrise, Sunset,
          LastTime,   \* bound: the last instant of the day
          MaxRaises   \* bound: raises of a store call

Settings == [enabled : BOOLEAN, threshold : Nat, lead : Nat, margin : Nat,
             active : SUBSET Locations]

ASSUME ConfigsAssumption == Configs \subseteq Settings
ASSUME TimeAssumption ==
  /\ Hours \subseteq 0..LastTime
  /\ Indices \subseteq Nat
  /\ Sunrise \in Nat /\ Sunset \in Nat /\ LastTime \in Nat
ASSUME RaisesAssumption == MaxRaises \in Nat

VARIABLES
  now,      \* the time of the day
  holder,   \* ConfigHolder.current()
  job,      \* __uvmonitor__ is registered: the monitor was enabled at the start
  tick,     \* the tick in progress
  claimed,  \* the uv_alerts rows of each location
  posts,    \* the alerts that Discord took, in order
  moot,     \* history: locations whose pre-warning was claimed as moot
  lost,     \* history: claimed alerts whose post a failure prevented
  raised    \* bound: raises so far

history == <<moot, lost, raised>>
vars == <<now, holder, job, tick, claimed, posts, history>>

Kinds == {"prewarn", "crossing", "allclear"}
Rank(kind) == CASE kind = "prewarn" -> 1 [] kind = "crossing" -> 2 [] kind = "allclear" -> 3

\* A tick between two locations, and at one location with its alert.
Between == [at : {"next"}, todo : SUBSET Locations, location : {None}, kind : {None},
            first : {FALSE}, time : 0..LastTime, config : Configs]
Busy == [at : {"claim", "moot", "post"}, todo : SUBSET Locations, location : Locations,
         kind : Kinds, first : BOOLEAN, time : 0..LastTime, config : Configs]
NoTick == [at |-> "none"]

Init ==
  /\ now = 0
  /\ holder \in Configs
  /\ job = holder.enabled
  /\ tick = NoTick
  /\ claimed = [l \in Locations |-> {}]
  /\ posts = [l \in Locations |-> <<>>]
  /\ moot = {}
  /\ lost = {}
  /\ raised = 0

-----------------------------------------------------------------------------
(* What a fetch may answer. *)

\* _today_daytime_points of a forecast whose first hourly point is that of hour first.
DaytimePoints(forecast, first) ==
  [t \in {h \in Hours : first <= h /\ Sunrise <= h /\ h <= Sunset} |-> forecast[t]]

\* The first hourly point is of an hour that has begun, or all are there.
FirstPoints(time) == {0} \cup {h \in Hours : h <= time}

\* The summaries of every payload of a fetch at a time, by threshold.
Thresholds == {c.threshold : c \in Configs}
Outlooks ==
  [time \in 0..LastTime |-> [threshold \in Thresholds |->
     {Summary(DaytimePoints(forecast, first), threshold) :
        forecast \in [Hours -> Indices], first \in FirstPoints(time)}]]

Daylight == Sunrise <= tick.time /\ tick.time <= Sunset
Reached(instant) == instant # None /\ instant <= tick.time

-----------------------------------------------------------------------------
(* The three decisions, on the rows read before them. *)

CrossingDue(l, index) ==
  /\ Daylight
  /\ index >= tick.config.threshold
  /\ "crossing" \notin claimed[l]

\* Within the lead of the predicted crossing, or within the margin of the threshold.
PrewarnDue(l, index, summary) ==
  /\ Daylight
  /\ index < tick.config.threshold
  /\ claimed[l] \cap {"prewarn", "crossing"} = {}
  /\ \/ /\ summary.crossing # None
        /\ summary.crossing - tick.time \in 0..tick.config.lead
     \/ tick.config.threshold - index <= tick.config.margin

\* Mutant of AllclearDue: it does not ask for a crossing.
AllclearAnyway(l, index, summary) ==
  /\ index < tick.config.threshold
  /\ "allclear" \notin claimed[l]
  /\ Reached(summary.end)
  /\ Reached(summary.peak)

AllclearDue(l, index, summary) ==
  /\ index < tick.config.threshold
  /\ "crossing" \in claimed[l]
  /\ "allclear" \notin claimed[l]
  /\ Reached(summary.end)
  /\ Reached(summary.peak)

-----------------------------------------------------------------------------
(* A tick: _uv_monitor_tick, and for each location _evaluate_location and _decide. *)

\* The job fires; it reads the configuration and the clock once.
StartTick ==
  /\ job
  /\ tick.at = "none"
  /\ holder.enabled
  /\ tick' = [at |-> "next", todo |-> holder.active, time |-> now, config |-> holder,
              location |-> None, kind |-> None, first |-> FALSE]
  /\ UNCHANGED <<now, holder, job, claimed, posts, history>>

\* The fetch raises, the store does not answer, or the payload has no sun of today.
PassOver(l) ==
  /\ tick.at = "next"
  /\ l \in tick.todo
  /\ tick' = [tick EXCEPT !.todo = @ \ {l}]
  /\ UNCHANGED <<now, holder, job, claimed, posts, history>>

\* The decision for l: a row to claim, or nothing.
Turn(l, kind) ==
  tick' = [tick EXCEPT !.at = "claim", !.todo = @ \ {l}, !.location = l, !.kind = kind,
                       !.first = claimed[l] = {}]

Decide(l, index, summary) ==
  \/ CrossingDue(l, index) /\ Turn(l, "crossing")
  \/ PrewarnDue(l, index, summary) /\ Turn(l, "prewarn")
  \/ AllclearDue(l, index, summary) /\ Turn(l, "allclear")
  \/ /\ ~CrossingDue(l, index)
     /\ ~PrewarnDue(l, index, summary)
     /\ ~AllclearDue(l, index, summary)
     /\ tick' = [tick EXCEPT !.todo = @ \ {l}]

Evaluate(l, index, summary) ==
  /\ tick.at = "next"
  /\ l \in tick.todo
  /\ Decide(l, index, summary)
  /\ UNCHANGED <<now, holder, job, claimed, posts, history>>

\* On to the next location.
Onward == [tick EXCEPT !.at = "next", !.location = None, !.kind = None, !.first = FALSE]

\* Mutant of Claim: the moot pre-warning is claimed before the crossing.
ClaimMootFirst ==
  /\ tick.at = "claim"
  /\ LET l == tick.location
         early == tick.kind = "crossing" /\ tick.first /\ "prewarn" \notin claimed[l]
     IN /\ claimed' = [claimed EXCEPT ![l] = @ \cup {IF early THEN "prewarn" ELSE tick.kind}]
        /\ moot' = IF early THEN moot \cup {l} ELSE moot
        /\ tick' = IF early THEN tick ELSE [tick EXCEPT !.at = "post"]
  /\ UNCHANGED <<now, holder, job, posts, lost, raised>>

\* claim_uv_alert: only whoever inserts the row goes on to post.
Claim ==
  /\ tick.at = "claim"
  /\ LET l == tick.location IN
     /\ claimed' = [claimed EXCEPT ![l] = @ \cup {tick.kind}]
     /\ tick' = IF tick.kind \in claimed[l] THEN Onward
                ELSE [tick EXCEPT !.at = IF tick.kind = "crossing" /\ tick.first
                                           THEN "moot" ELSE "post"]
  /\ UNCHANGED <<now, holder, job, posts, history>>

\* A first alert that is a crossing makes the pre-warning moot: claimed, not posted.
ClaimMoot ==
  /\ tick.at = "moot"
  /\ claimed' = [claimed EXCEPT ![tick.location] = @ \cup {"prewarn"}]
  /\ moot' = moot \cup {tick.location}
  /\ tick' = [tick EXCEPT !.at = "post"]
  /\ UNCHANGED <<now, holder, job, posts, lost, raised>>

\* A claim raises: the location is given up; a crossing claimed before is not posted.
ClaimRaises ==
  /\ tick.at \in {"claim", "moot"}
  /\ raised < MaxRaises
  /\ raised' = raised + 1
  /\ lost' = IF tick.at = "moot" THEN lost \cup {<<tick.location, "crossing">>} ELSE lost
  /\ tick' = Onward
  /\ UNCHANGED <<now, holder, job, claimed, posts, moot>>

PostOk ==
  /\ tick.at = "post"
  /\ posts' = [posts EXCEPT ![tick.location] = Append(@, tick.kind)]
  /\ tick' = Onward
  /\ UNCHANGED <<now, holder, job, claimed, history>>

\* Mutant of PostFails: the row is not said to be whose it is.
PostFailsForAll ==
  /\ tick.at = "post"
  /\ lost' = lost \cup {tick.kind}
  /\ tick' = Onward
  /\ UNCHANGED <<now, holder, job, claimed, posts, moot, raised>>

\* The channel raises or answers no: swallowed, and the row stays.
PostFails ==
  /\ tick.at = "post"
  /\ lost' = lost \cup {<<tick.location, tick.kind>>}
  /\ tick' = Onward
  /\ UNCHANGED <<now, holder, job, claimed, posts, moot, raised>>

EndTick ==
  /\ tick.at = "next"
  /\ tick.todo = {}
  /\ tick' = NoTick
  /\ UNCHANGED <<now, holder, job, claimed, posts, history>>

-----------------------------------------------------------------------------
(* Time, reloads and restarts. *)

Pass ==
  /\ now < LastTime
  /\ now' = now + 1
  /\ UNCHANGED <<holder, job, tick, claimed, posts, history>>

\* A reload replaces the holder; it never touches the monitor's job.
Reload(c) ==
  /\ holder' = c
  /\ UNCHANGED <<now, job, tick, claimed, posts, history>>

\* What a kill loses: a row claimed whose alert is not posted yet.
Interrupted == IF tick.at \in {"moot", "post"} THEN {<<tick.location, tick.kind>>} ELSE {}

\* Mutant of Restart: what was claimed is kept in memory only.
RestartForgets(c) ==
  /\ holder' = c
  /\ job' = c.enabled
  /\ lost' = lost \cup Interrupted
  /\ tick' = NoTick
  /\ claimed' = [l \in Locations |-> {}]
  /\ UNCHANGED <<now, posts, moot, raised>>

\* The process is killed at any point and starts again.
Restart(c) ==
  /\ holder' = c
  /\ job' = c.enabled
  /\ lost' = lost \cup Interrupted
  /\ tick' = NoTick
  /\ UNCHANGED <<now, claimed, posts, moot, raised>>

Next ==
  \/ StartTick
  \/ /\ tick.at = "next"
     /\ \E l \in tick.todo, index \in Indices :
          \E summary \in Outlooks[tick.time][tick.config.threshold] : Evaluate(l, index, summary)
  \/ \E l \in Locations : PassOver(l)
  \/ Claim \/ ClaimMoot \/ ClaimRaises
  \/ PostOk \/ PostFails
  \/ EndTick
  \/ Pass
  \/ \E c \in Configs : Reload(c) \/ Restart(c)

Spec == Init /\ [][Next]_vars

-----------------------------------------------------------------------------
TypeOK ==
  /\ now \in 0..LastTime
  /\ holder \in Configs
  /\ job \in BOOLEAN
  /\ tick \in Between \cup Busy \cup {NoTick}
  /\ claimed \in [Locations -> SUBSET Kinds]
  /\ posts \in [Locations -> Seq(Kinds)]
  /\ moot \subseteq Locations
  /\ lost \subseteq Locations \X Kinds
  /\ raised \in 0..MaxRaises

(* A location's alerts of a day come in the order of the day, pre-warning,  *)
(* crossing, all-clear, and each at most once, over any number of restarts. *)
InOrder ==
  \A l \in Locations : \A i, j \in DOMAIN posts[l] :
    i < j => Rank(posts[l][i]) < Rank(posts[l][j])

(* No claimed alert vanishes: it was posted, or is about to be, or a named  *)
(* failure lost it, or it is a pre-warning that a claimed crossing made moot. *)
NoAlertVanishes ==
  \A l \in Locations : \A kind \in claimed[l] :
    \/ \E i \in DOMAIN posts[l] : posts[l][i] = kind
    \/ tick.at \in {"moot", "post"} /\ tick.location = l /\ tick.kind = kind
    \/ <<l, kind>> \in lost
    \/ kind = "prewarn" /\ l \in moot /\ "crossing" \in claimed[l]

(* Whoever reads that the protect window is over has read that it began,    *)
(* unless the post of that alert was lost.                                  *)
AllclearExplained ==
  \A l \in Locations : \A i \in DOMAIN posts[l] :
    posts[l][i] = "allclear" =>
      \/ \E j \in 1..(i - 1) : posts[l][j] = "crossing"
      \/ <<l, "crossing">> \in lost

(* compute_uv's window is not reversed and protects no hour below the       *)
(* threshold, for every set of hourly points a payload may bring.           *)
WholeFor ==
  [threshold \in Thresholds |->
     \A hours \in SUBSET Hours : \A p \in [hours -> Indices] : ProtectWhole(p, threshold)]
WindowWhole == WholeFor[holder.threshold]

(* The uv_alerts rows as leases: the tick holds the one it is to post.       *)
Alerts == Locations \X Kinds
Rows == {a \in Alerts : a[2] \in claimed[a[1]]}
Holders == [a \in Alerts |-> IF a \in Interrupted THEN {"tick"} ELSE {}]

Lease == INSTANCE SlotLease WITH
           Workers <- {"tick"}, Slots <- Alerts,
           holders <- Holders, closed <- Rows \ Interrupted

(* Each alert of a location is worked on once a day, by one tick: whatever   *)
(* fails, its row is never given back; a moot pre-warning is closed unposted.*)
ImplementsLease == Lease!OnceSpec

(* uvmonitor.py: the all-clear is not gated on daylight, so that it can     *)
(* close out the day at or after sunset, and no reachable state leaves it   *)
(* unable to fire: a location with a crossing that a tick finds calm after  *)
(* sunset has its all-clear claimed then, or before.                        *)
EveningCloses ==
  [][\A l \in Locations, index \in Indices :
       /\ tick.at = "next" /\ l \in tick.todo
       /\ tick.time > Sunset
       /\ index < tick.config.threshold
       /\ claimed[l] \cap {"crossing", "allclear"} = {"crossing"}
       /\ \E summary \in Outlooks[tick.time][tick.config.threshold] : Evaluate(l, index, summary)
       => tick'.at = "claim"]_vars
=============================================================================
