------------------------------ MODULE Delivery ------------------------------
(***************************************************************************)
(* fire_slot (scheduler/daemon.py) on the sent_log / alerts tables of      *)
(* weather/store.py: claim the slot, fetch and post with retries, and on   *)
(* failure release the claim and record one alert.  Several fires of the   *)
(* same slot may overlap: a live cron job, a catch-up fire, two schedule   *)
(* entries that name the same time, a repeated hour at a DST change.       *)
(*                                                                         *)
(* A store call is one SQLite transaction and so one step; everything      *)
(* between two store calls or two network calls is thread-local.  Any      *)
(* store or log call may raise (database is locked, closed stderr); the    *)
(* bound MaxRaises caps how often that happens per slot.                   *)
(***************************************************************************)
EXTENDS Naturals, FiniteSets

CONSTANTS Workers,      \* pool threads and the catch-up loop
          Slots,        \* (location.id, send_time, local_date) keys
          MaxAttempts,  \* 2 * attempts_per_burst, of the retry policy
          MaxFires,     \* bound: how often one slot is triggered
          MaxRaises     \* bound: unexpected raises per slot

ASSUME AttemptsAssumption == MaxAttempts \in Nat \ {0}
ASSUME BoundsAssumption == MaxFires \in Nat /\ MaxRaises \in Nat

VARIABLES
  mode,         \* the process: up, stopping after SIGTERM, or down
  pc,           \* pc[w]: the next call of w's fire, or idle
  slot,         \* slot[w]: the key w's fire is about (its last one when idle)
  tries,        \* tries[w]: send_now attempts started by this fire
  sentLog,      \* rows of sent_log
  alerts,       \* alerts[s]: no row, an unresolved row, or a resolved row
  lastSuccess,  \* heartbeat.last_success has been stamped
  acked,        \* history: Discord answered 2xx for s this many times
  late,         \* history: raises between the 2xx and send_now's return
  raises,       \* history: unexpected raises of fires of s
  fires,        \* history: how often s was triggered
  crashed       \* history: slots some fire was working on when it was killed

store   == <<sentLog, alerts, lastSuccess>>
history == <<acked, late, raises, fires, crashed>>
vars    == <<mode, pc, slot, tries, store, history>>

Steps == {"claim", "fetch", "post", "persist", "resolve", "stamp",
          "release", "alert", "recoverRelease", "recoverAlert"}

\* A fire holds the claim from its INSERT until its DELETE or its delivery.
HoldingSteps == {"fetch", "post", "persist", "release", "recoverRelease"}
Holds(w, s) == slot[w] = s /\ pc[w] \in HoldingSteps

Busy(s) == \E w \in Workers : slot[w] = s /\ pc[w] # "idle"

Init ==
  /\ mode = "up"
  /\ pc = [w \in Workers |-> "idle"]
  /\ slot \in [Workers -> Slots]
  /\ tries = [w \in Workers |-> 0]
  /\ sentLog = {}
  /\ alerts = [s \in Slots |-> "none"]
  /\ lastSuccess = FALSE
  /\ acked = [s \in Slots |-> 0]
  /\ late = [s \in Slots |-> 0]
  /\ raises = [s \in Slots |-> 0]
  /\ fires = [s \in Slots |-> 0]
  /\ crashed = {}

Goto(w, step) == pc' = [pc EXCEPT ![w] = step]

\* The call raises something no handler of the send path expects.
Raises(s) == /\ raises[s] < MaxRaises
             /\ raises' = [raises EXCEPT ![s] = @ + 1]

\* INSERT OR IGNORE INTO alerts: only the first row per slot is written.
RecordAlert(s) == alerts' = [alerts EXCEPT ![s] = IF @ = "none" THEN "open" ELSE @]

-----------------------------------------------------------------------------
(* A cron job or the catch-up loop starts a fire. *)
Trigger(w, s) ==
  /\ mode = "up"
  /\ pc[w] = "idle"
  /\ fires[s] < MaxFires
  /\ Goto(w, "claim")
  /\ slot' = [slot EXCEPT ![w] = s]
  /\ tries' = [tries EXCEPT ![w] = 1]
  /\ fires' = [fires EXCEPT ![s] = @ + 1]
  /\ UNCHANGED <<mode, store, acked, late, raises, crashed>>

\* Mutant of ClaimWon: a plain INSERT that any number of fires can win.
ClaimUnguarded(w) ==
  /\ pc[w] = "claim"
  /\ sentLog' = sentLog \cup {slot[w]}
  /\ Goto(w, "fetch")
  /\ UNCHANGED <<mode, slot, tries, alerts, lastSuccess, history>>

(* claim_slot: INSERT OR IGNORE; rowcount tells the winner. *)
ClaimWon(w) ==
  /\ pc[w] = "claim"
  /\ slot[w] \notin sentLog
  /\ sentLog' = sentLog \cup {slot[w]}
  /\ Goto(w, "fetch")
  /\ UNCHANGED <<mode, slot, tries, alerts, lastSuccess, history>>

\* Mutant of ClaimLost: the loser waits for the row to go away.
ClaimWaits(w) ==
  /\ pc[w] = "claim"
  /\ slot[w] \in sentLog
  /\ UNCHANGED vars

ClaimLost(w) ==
  /\ pc[w] = "claim"
  /\ slot[w] \in sentLog
  /\ Goto(w, "idle")
  /\ UNCHANGED <<mode, slot, tries, store, history>>

\* Mutant of ClaimRaises: claimed is set before claim_slot has answered.
ClaimRaisesClaimed(w) ==
  /\ pc[w] = "claim"
  /\ Raises(slot[w])
  /\ Goto(w, "recoverRelease")
  /\ UNCHANGED <<mode, slot, tries, store, acked, late, fires, crashed>>

ClaimRaises(w) ==
  /\ pc[w] = "claim"
  /\ Raises(slot[w])
  /\ Goto(w, "recoverAlert")
  /\ UNCHANGED <<mode, slot, tries, store, acked, late, fires, crashed>>

-----------------------------------------------------------------------------
(* One send_now attempt: the fetch, unless an earlier attempt of this fire *)
(* cached it, and then the post.  A retry after a failed post goes back to *)
(* the post.                                                               *)
FetchOk(w) ==
  /\ pc[w] = "fetch"
  /\ Goto(w, "post")
  /\ UNCHANGED <<mode, slot, tries, store, history>>

\* Mutant of Retry: no bound on the attempts.
RetryForever(w) ==
  /\ pc[w] \in {"fetch", "post"}
  /\ tries' = [tries EXCEPT ![w] = @ + 1]
  /\ UNCHANGED <<mode, pc, slot, store, history>>

\* A transient failure of the fetch, or a post that answers not ok.
Retry(w) ==
  /\ pc[w] \in {"fetch", "post"}
  /\ tries[w] < MaxAttempts
  /\ tries' = [tries EXCEPT ![w] = @ + 1]
  /\ UNCHANGED <<mode, pc, slot, store, history>>

\* Mutant of GiveUp: a result that is not ok is taken for a success.
GiveUpAsSuccess(w, failure) ==
  /\ pc[w] \in {"fetch", "post"}
  /\ failure = "auth" \/ tries[w] = MaxAttempts
  /\ Goto(w, "resolve")
  /\ UNCHANGED <<mode, slot, tries, store, history>>

\* A 401/403 ends the retries at once, a transient failure the last attempt.
GiveUp(w, failure) ==
  /\ pc[w] \in {"fetch", "post"}
  /\ failure = "auth" \/ tries[w] = MaxAttempts
  /\ Goto(w, "release")
  /\ UNCHANGED <<mode, slot, tries, store, history>>

\* Anything else (a template error, a bad payload) is not retried.
AttemptRaises(w) ==
  /\ pc[w] \in {"fetch", "post"}
  /\ Raises(slot[w])
  /\ Goto(w, "recoverRelease")
  /\ UNCHANGED <<mode, slot, tries, store, acked, late, fires, crashed>>

PostOk(w) ==
  /\ pc[w] = "post"
  /\ acked' = [acked EXCEPT ![slot[w]] = @ + 1]
  /\ Goto(w, "persist")
  /\ UNCHANGED <<mode, slot, tries, store, late, raises, fires, crashed>>

PersistOk(w) ==
  /\ pc[w] = "persist"
  /\ Goto(w, "resolve")
  /\ UNCHANGED <<mode, slot, tries, store, history>>

\* persist, or the log call after it, raises inside send_now: the raise
\* passes the retry loop and reaches the broad except with claimed = True.
PersistRaises(w) ==
  /\ pc[w] = "persist"
  /\ Raises(slot[w])
  /\ late' = [late EXCEPT ![slot[w]] = @ + 1]
  /\ Goto(w, "recoverRelease")
  /\ UNCHANGED <<mode, slot, tries, store, acked, fires, crashed>>

-----------------------------------------------------------------------------
(* The success tail: best effort, every raise is swallowed. *)
Resolve(w) ==
  /\ pc[w] = "resolve"
  /\ alerts' = [alerts EXCEPT ![slot[w]] = IF @ = "open" THEN "resolved" ELSE @]
  /\ Goto(w, "stamp")
  /\ UNCHANGED <<mode, slot, tries, sentLog, lastSuccess, history>>

Stamp(w) ==
  /\ pc[w] = "stamp"
  /\ lastSuccess' = TRUE
  /\ Goto(w, "idle")
  /\ UNCHANGED <<mode, slot, tries, sentLog, alerts, history>>

\* Mutant of TailRaises: the tail is not guarded (before F01), so its raise
\* reaches the broad except with claimed = True.
TailUnguarded(w) ==
  /\ pc[w] \in {"resolve", "stamp"}
  /\ Raises(slot[w])
  /\ Goto(w, "recoverRelease")
  /\ UNCHANGED <<mode, slot, tries, store, acked, late, fires, crashed>>

TailRaises(w) ==
  /\ pc[w] \in {"resolve", "stamp"}
  /\ Raises(slot[w])
  /\ Goto(w, "idle")
  /\ UNCHANGED <<mode, slot, tries, store, acked, late, fires, crashed>>

-----------------------------------------------------------------------------
(* The classified failures: release_claim, then record_alert. *)
Release(w) ==
  /\ pc[w] = "release"
  /\ sentLog' = sentLog \ {slot[w]}
  /\ Goto(w, "alert")
  /\ UNCHANGED <<mode, slot, tries, alerts, lastSuccess, history>>

\* Mutant of ReleaseRaises: claimed is cleared before the release.
ReleaseForgotten(w) ==
  /\ pc[w] = "release"
  /\ Raises(slot[w])
  /\ Goto(w, "recoverAlert")
  /\ UNCHANGED <<mode, slot, tries, store, acked, late, fires, crashed>>

\* claimed is still True, so the broad except releases again.
ReleaseRaises(w) ==
  /\ pc[w] = "release"
  /\ Raises(slot[w])
  /\ Goto(w, "recoverRelease")
  /\ UNCHANGED <<mode, slot, tries, store, acked, late, fires, crashed>>

Alert(w) ==
  /\ pc[w] = "alert"
  /\ RecordAlert(slot[w])
  /\ Goto(w, "idle")
  /\ UNCHANGED <<mode, slot, tries, sentLog, lastSuccess, history>>

\* Mutant of AlertRaises: claimed is not cleared after the release.
AlertReleasesAgain(w) ==
  /\ pc[w] = "alert"
  /\ Raises(slot[w])
  /\ \/ UNCHANGED alerts
     \/ RecordAlert(slot[w])
  /\ Goto(w, "recoverRelease")
  /\ UNCHANGED <<mode, slot, tries, sentLog, lastSuccess,
                 acked, late, fires, crashed>>

\* record_alert raises, or the CRITICAL log call after it does.
AlertRaises(w) ==
  /\ pc[w] = "alert"
  /\ Raises(slot[w])
  /\ \/ UNCHANGED alerts
     \/ RecordAlert(slot[w])
  /\ Goto(w, "recoverAlert")
  /\ UNCHANGED <<mode, slot, tries, sentLog, lastSuccess,
                 acked, late, fires, crashed>>

-----------------------------------------------------------------------------
\* Mutant of RecoverRelease: the broad except releases but does not alert.
RecoverSilently(w) ==
  /\ pc[w] = "recoverRelease"
  /\ sentLog' = sentLog \ {slot[w]}
  /\ Goto(w, "idle")
  /\ UNCHANGED <<mode, slot, tries, alerts, lastSuccess, history>>

(* The broad except: release if claimed, then alert; a raise ends it. *)
RecoverRelease(w) ==
  /\ pc[w] = "recoverRelease"
  /\ sentLog' = sentLog \ {slot[w]}
  /\ Goto(w, "recoverAlert")
  /\ UNCHANGED <<mode, slot, tries, alerts, lastSuccess, history>>

RecoverAlert(w) ==
  /\ pc[w] = "recoverAlert"
  /\ RecordAlert(slot[w])
  /\ Goto(w, "idle")
  /\ UNCHANGED <<mode, slot, tries, sentLog, lastSuccess, history>>

RecoverRaises(w) ==
  /\ pc[w] \in {"recoverRelease", "recoverAlert"}
  /\ Raises(slot[w])
  /\ Goto(w, "idle")
  /\ UNCHANGED <<mode, slot, tries, store, acked, late, fires, crashed>>

-----------------------------------------------------------------------------
(* The process.  SIGTERM stops new fires; the interpreter joins the pool   *)
(* threads, so the fires in flight run to their end before it exits.       *)
Sigterm ==
  /\ mode = "up"
  /\ mode' = "stopping"
  /\ UNCHANGED <<pc, slot, tries, store, history>>

Exit ==
  /\ mode = "stopping"
  /\ \A w \in Workers : pc[w] = "idle"
  /\ mode' = "down"
  /\ UNCHANGED <<pc, slot, tries, store, history>>

\* A kill or a power loss: the tables survive, the fires do not.
Crash ==
  /\ mode # "down"
  /\ mode' = "down"
  /\ pc' = [w \in Workers |-> "idle"]
  /\ crashed' = crashed \cup {s \in Slots : Busy(s)}
  /\ UNCHANGED <<slot, tries, store, acked, late, raises, fires>>

Restart ==
  /\ mode = "down"
  /\ mode' = "up"
  /\ UNCHANGED <<pc, slot, tries, store, history>>

Attempt(w) == \/ FetchOk(w) \/ Retry(w) \/ AttemptRaises(w) \/ PostOk(w)
              \/ \E failure \in {"transient", "auth"} : GiveUp(w, failure)

Step(w) == \/ ClaimWon(w) \/ ClaimLost(w) \/ ClaimRaises(w)
           \/ Attempt(w) \/ PersistOk(w) \/ PersistRaises(w)
           \/ Resolve(w) \/ Stamp(w) \/ TailRaises(w)
           \/ Release(w) \/ ReleaseRaises(w) \/ Alert(w) \/ AlertRaises(w)
           \/ RecoverRelease(w) \/ RecoverAlert(w) \/ RecoverRaises(w)

Next == \/ \E w \in Workers, s \in Slots : Trigger(w, s)
        \/ \E w \in Workers : Step(w)
        \/ Sigterm \/ Exit \/ Crash \/ Restart

\* Every network and store call times out, every retry pause is finite and
\* the pool runs a started fire to its end; the exit joins the pool.
Fairness == WF_vars(Exit) /\ \A w \in Workers : WF_vars(Step(w))

Spec == Init /\ [][Next]_vars

FairSpec == Spec /\ Fairness

-----------------------------------------------------------------------------
(* Properties *)

\* Types of the process, the fires and the tables of the store.
TypeOK ==
  /\ mode \in {"up", "stopping", "down"}
  /\ pc \in [Workers -> Steps \cup {"idle"}]
  /\ slot \in [Workers -> Slots]
  /\ tries \in [Workers -> 0..MaxAttempts]
  /\ sentLog \in SUBSET Slots
  /\ alerts \in [Slots -> {"none", "open", "resolved"}]
  /\ lastSuccess \in BOOLEAN
  /\ acked \in [Slots -> Nat]
  /\ late \in [Slots -> Nat]
  /\ raises \in [Slots -> Nat]
  /\ fires \in [Slots -> Nat]
  /\ crashed \in SUBSET Slots

\* Two overlapping fires of one slot never both work on its delivery
\* (claim_slot: "Exactly one True across N concurrent claims").
SingleFlight ==
  \A s \in Slots, v, w \in Workers : Holds(v, s) /\ Holds(w, s) => v = w

\* A slot is delivered at most once, and once more for every raise between
\* Discord's 2xx and the return of send_now: restarts, retries, overlaps
\* and raises anywhere else in fire_slot never deliver it again.
AckedAtMostOnce == \A s \in Slots : acked[s] <= 1 + late[s]

\* A delivered slot keeps its sent_log row, so no later fire, catch-up scan
\* or restart can send it again, unless such a raise undid it.
DeliveredKeepsClaim ==
  \A s \in Slots : acked[s] > late[s] => s \in sentLog

\* The same without the exception: what fire_slot's comment claims, that "the
\* claim is inviolable once result.ok".
DeliveredClaimInviolable == \A s \in Slots : acked[s] > 0 => s \in sentLog

\* A slot that was triggered, was not delivered and has no fire running has
\* an alert row: one unexpected raise anywhere is not enough to miss it
\* silently (a kill is).
NoSilentMiss ==
  \A s \in Slots :
    (/\ fires[s] > 0 /\ acked[s] = 0 /\ ~Busy(s)
     /\ raises[s] <= 1 /\ s \notin crashed) => alerts[s] # "none"

\* Nor does one raise leave an undelivered slot claimed: it stays
\* re-fireable by the next catch-up or restart (release_claim, D-07).
NoClaimLeak ==
  \A s \in Slots :
    (/\ s \in sentLog /\ acked[s] = 0 /\ ~Busy(s)
     /\ raises[s] <= 1 /\ s \notin crashed) => FALSE

\* An alert is only ever resolved by a delivery of its slot, and the
\* heartbeat's last_success is only stamped by one.
SuccessIsReal ==
  /\ \A s \in Slots : alerts[s] = "resolved" => acked[s] > 0
  /\ lastSuccess => \E s \in Slots : acked[s] > 0

\* A claim row is never deleted under a fire that still works on it: the
\* releases of the failure paths and of the broad except only undo the claim
\* their own fire took (the claimed flag).
NeverReleasedUnder ==
  [][\A s \in sentLog \ sentLog', w \in Workers : ~Holds(w, s)']_vars

\* Every fire comes to its end: no store error, retry or lost claim leaves a
\* pool thread stuck in fire_slot.
FiresEnd == \A w \in Workers : pc[w] # "idle" ~> pc[w] = "idle"

\* The calls a fire still makes at most, counted in steps and attempts.
CallsAhead == [idle |-> 0, recoverAlert |-> 1, stamp |-> 1, recoverRelease |-> 2,
               alert |-> 2, resolve |-> 2, persist |-> 3, release |-> 3,
               post |-> 4, fetch |-> 5, claim |-> 6]
CallsLeft(w) == CallsAhead[pc[w]] + (MaxAttempts - tries[w])

\* What FiresEnd rests on: every step of a fire, the raises and their
\* handlers included, brings it nearer its end, and no step of anything else
\* takes it away from it; however often the store raises, no handler loops.
FiresShorten ==
  [][\A w \in Workers : pc[w] # "idle" =>
       /\ CallsLeft(w)' <= CallsLeft(w)
       /\ Step(w) => CallsLeft(w)' < CallsLeft(w)]_vars

\* A fire makes at most MaxAttempts + 5 calls from its claim on.
FiresBounded == \A w \in Workers : pc[w] # "idle" => CallsLeft(w) \in 1..(MaxAttempts + 5)

\* The lease as the tables and the fires show it.
HoldersOf(s) == {w \in Workers : Holds(w, s)}
Closed == {s \in sentLog : HoldersOf(s) = {}}

Lease == INSTANCE SlotLease WITH
           holders <- [s \in Slots |-> HoldersOf(s)], closed <- Closed

\* fire_slot implements the lease: a slot whose delivery is complete is
\* never opened again, whatever the other fires, the raises and the
\* restarts do; a slot is only ever given back by the fire that holds it.
ImplementsLease == Lease!Spec
=============================================================================
