----------------------------- MODULE SlotLease -----------------------------
(***************************************************************************)
(* What the sent_log protocol promises: a (location, send_time,            *)
(* local_date) slot is a lease.  It is free, or held by one fire, or       *)
(* closed; a closed slot is never opened again.  A fire that fails gives   *)
(* the lease back, a fire that delivers closes it.  When the process dies  *)
(* every lease in hand is closed by the row it leaves behind.              *)
(***************************************************************************)
EXTENDS Naturals

CONSTANTS Workers,   \* the threads that may run a fire
          Slots      \* the delivery keys

VARIABLES holders,   \* holders[s]: the fires that hold slot s
          closed     \* the slots that will never be fired again

leaseVars == <<holders, closed>>

Init == /\ holders = [s \in Slots |-> {}]
        /\ closed \in SUBSET Slots

Acquire(w, s) ==
  /\ holders[s] = {}
  /\ s \notin closed
  /\ holders' = [holders EXCEPT ![s] = {w}]
  /\ UNCHANGED closed

GiveBack(w, s) ==
  /\ w \in holders[s]
  /\ holders' = [holders EXCEPT ![s] = @ \ {w}]
  /\ UNCHANGED closed

Close(w, s) ==
  /\ w \in holders[s]
  /\ holders' = [holders EXCEPT ![s] = @ \ {w}]
  /\ closed' = closed \cup {s}

Die ==
  /\ holders' = [s \in Slots |-> {}]
  /\ closed' = closed \cup {s \in Slots : holders[s] # {}}

Next == \/ \E w \in Workers, s \in Slots :
             Acquire(w, s) \/ GiveBack(w, s) \/ Close(w, s)
        \/ Die

Spec == Init /\ [][Next]_leaseVars

\* A free slot that is of no use any more is closed unfired.
Forgo(s) ==
  /\ holders[s] = {}
  /\ s \notin closed
  /\ closed' = closed \cup {s}
  /\ UNCHANGED holders

\* The lease of the uv_alerts rows: one that was taken is never given back.
OnceNext == \/ \E s \in Slots : Forgo(s) \/ \E w \in Workers : Acquire(w, s) \/ Close(w, s)
            \/ Die

OnceSpec == Init /\ [][OnceNext]_leaseVars

-----------------------------------------------------------------------------
\* A lease is held by one fire at most, and by none once it is closed.
Exclusive ==
  \A s \in Slots :
    /\ \A v, w \in holders[s] : v = w
    /\ s \in closed => holders[s] = {}

\* The rows only grow: what was ever taken is held or closed for good.
Taken == {s \in Slots : holders[s] # {}} \cup closed
NeverFreed == [][Taken \subseteq Taken']_leaseVars

\* A closed slot stays closed: through every fire, failure and death.
ClosedForGood == [][closed \subseteq closed']_leaseVars
=============================================================================
