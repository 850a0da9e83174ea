--------------------------- MODULE DeliveryProofs ---------------------------
(***************************************************************************)
(* Invariants of the claim protocol for any set of workers, slots and any  *)
(* bounds.  The argument: the sent_log row of a slot and the account of    *)
(* its 2xx answers move together.  As long as the row is absent, or held   *)
(* by a fire that has not posted, every answer is paid for by a raise that *)
(* undid it (acked = late); a fire that has posted is one answer ahead.    *)
(***************************************************************************)
EXTENDS Delivery, Integers, TLAPS

\* Whoever works on the delivery of a slot has its row in sent_log.
HolderHasRow == \A s \in Slots, w \in Workers : Holds(w, s) => s \in sentLog

\* The account of the 2xx answers of every slot.
AckAccount ==
  \A s \in Slots :
    /\ acked[s] <= late[s] + 1
    /\ s \notin sentLog => acked[s] = late[s]
    /\ \A w \in Workers : Holds(w, s) =>
         acked[s] = IF pc[w] = "persist" THEN late[s] + 1 ELSE late[s]

ClaimInv == TypeOK /\ HolderHasRow /\ SingleFlight /\ AckAccount

-----------------------------------------------------------------------------
\* Every step keeps the types: the base of every later proof.
LEMMA TypeStep == TypeOK /\ [Next]_vars => TypeOK'
<1> SUFFICES ASSUME TypeOK, [Next]_vars PROVE TypeOK'
  OBVIOUS
<1> USE AttemptsAssumption DEF TypeOK, Steps, store, history, Goto, Raises
<1>1. ASSUME NEW w \in Workers, NEW s \in Slots, Trigger(w, s) PROVE TypeOK'
  BY <1>1 DEF Trigger
<1>2. ASSUME NEW w \in Workers, ClaimWon(w) \/ ClaimLost(w) \/ ClaimRaises(w)
      PROVE TypeOK'
  BY <1>2 DEF ClaimWon, ClaimLost, ClaimRaises
<1>3. ASSUME NEW w \in Workers, Attempt(w) PROVE TypeOK'
  BY <1>3 DEF Attempt, FetchOk, Retry, GiveUp, AttemptRaises, PostOk
<1>4. ASSUME NEW w \in Workers, PersistOk(w) \/ PersistRaises(w) PROVE TypeOK'
  BY <1>4 DEF PersistOk, PersistRaises
<1>5. ASSUME NEW w \in Workers, Resolve(w) \/ Stamp(w) \/ TailRaises(w)
      PROVE TypeOK'
  <2>1. CASE Resolve(w)
    BY <2>1 DEF Resolve
  <2>2. CASE Stamp(w)
    BY <2>2 DEF Stamp
  <2>3. CASE TailRaises(w)
    BY <2>3 DEF TailRaises
  <2>4. QED
    BY <1>5, <2>1, <2>2, <2>3
<1>6. ASSUME NEW w \in Workers, Release(w) \/ ReleaseRaises(w) PROVE TypeOK'
  BY <1>6 DEF Release, ReleaseRaises
<1>7. ASSUME NEW w \in Workers, Alert(w) \/ AlertRaises(w) PROVE TypeOK'
  BY <1>7 DEF Alert, AlertRaises, RecordAlert
<1>8. ASSUME NEW w \in Workers,
             RecoverRelease(w) \/ RecoverAlert(w) \/ RecoverRaises(w)
      PROVE TypeOK'
  BY <1>8 DEF RecoverRelease, RecoverAlert, RecoverRaises, RecordAlert
<1>9. CASE Sigterm \/ Exit \/ Crash \/ Restart
  BY <1>9 DEF Sigterm, Exit, Crash, Restart
<1>10. CASE UNCHANGED vars
  BY <1>10 DEF vars
<1>11. QED
  BY <1>1, <1>2, <1>3, <1>4, <1>5, <1>6, <1>7, <1>8, <1>9, <1>10 DEF Next, Step

\* The initial tables have their types.
LEMMA TypeCorrectInit == Init => TypeOK
<1> SUFFICES ASSUME Init PROVE TypeOK
  OBVIOUS
<1>1. /\ mode \in {"up", "stopping", "down"}
      /\ pc \in [Workers -> Steps \cup {"idle"}]
      /\ slot \in [Workers -> Slots]
      /\ tries \in [Workers -> 0..MaxAttempts]
  BY AttemptsAssumption DEF Init
<1>2. /\ sentLog \in SUBSET Slots
      /\ alerts \in [Slots -> {"none", "open", "resolved"}]
      /\ lastSuccess \in BOOLEAN
  BY DEF Init
<1>3. /\ acked \in [Slots -> Nat]
      /\ late \in [Slots -> Nat]
      /\ raises \in [Slots -> Nat]
      /\ fires \in [Slots -> Nat]
      /\ crashed \in SUBSET Slots
  BY DEF Init
<1>4. QED
  BY <1>1, <1>2, <1>3 DEF TypeOK

\* The tables, the fires and the process keep their types.
THEOREM TypeCorrect == Spec => []TypeOK
BY TypeCorrectInit, TypeStep, PTL DEF Spec

-----------------------------------------------------------------------------
\* The claim protocol: rows, holders and answers move together in a step.
LEMMA ClaimStep == ClaimInv /\ [Next]_vars => HolderHasRow' /\ SingleFlight' /\ AckAccount'
<1> SUFFICES ASSUME ClaimInv, [Next]_vars
             PROVE  HolderHasRow' /\ SingleFlight' /\ AckAccount'
  OBVIOUS
<1> USE DEF ClaimInv, TypeOK, HolderHasRow, SingleFlight, AckAccount, Holds,
            HoldingSteps, Steps, Goto, Raises, store, history
<1>1. ASSUME NEW w \in Workers, NEW s \in Slots, Trigger(w, s)
      PROVE  HolderHasRow' /\ SingleFlight' /\ AckAccount'
  BY <1>1 DEF Trigger
<1>2. ASSUME NEW w \in Workers, ClaimWon(w)
      PROVE  HolderHasRow' /\ SingleFlight' /\ AckAccount'
  BY <1>2 DEF ClaimWon
<1>3. ASSUME NEW w \in Workers, ClaimLost(w) \/ ClaimRaises(w)
      PROVE  HolderHasRow' /\ SingleFlight' /\ AckAccount'
  BY <1>3 DEF ClaimLost, ClaimRaises
<1>4. ASSUME NEW w \in Workers, FetchOk(w) \/ Retry(w) \/ AttemptRaises(w)
      PROVE  HolderHasRow' /\ SingleFlight' /\ AckAccount'
  <2>1. CASE FetchOk(w)
    BY <2>1 DEF FetchOk
  <2>2. CASE Retry(w)
    BY <2>2 DEF Retry
  <2>3. CASE AttemptRaises(w)
    BY <2>3 DEF AttemptRaises
  <2>4. QED
    BY <1>4, <2>1, <2>2, <2>3
<1>5. ASSUME NEW w \in Workers, PostOk(w)
      PROVE  HolderHasRow' /\ SingleFlight' /\ AckAccount'
  <2> DEFINE s == slot[w]
  <2>1. Holds(w, s) /\ s \in Slots /\ s \in sentLog /\ acked[s] = late[s]
    BY <1>5 DEF PostOk
  <2>2. /\ acked' = [acked EXCEPT ![s] = @ + 1]
        /\ pc' = [pc EXCEPT ![w] = "persist"]
        /\ UNCHANGED <<slot, sentLog, late>>
    BY <1>5 DEF PostOk
  <2>3. HolderHasRow' /\ SingleFlight'
    BY <1>5, <2>1, <2>2 DEF PostOk
  <2>4. AckAccount'
    <3> SUFFICES ASSUME NEW r \in Slots
                 PROVE  /\ acked'[r] <= late'[r] + 1
                        /\ r \notin sentLog' => acked'[r] = late'[r]
                        /\ \A v \in Workers : Holds(v, r)' =>
                             acked'[r] = IF pc'[v] = "persist" THEN late'[r] + 1
                                                             ELSE late'[r]
      BY DEF AckAccount
    <3>1. CASE r = s
      BY <3>1, <2>1, <2>2, <2>3
    <3>2. CASE r # s
      BY <3>2, <2>1, <2>2
    <3>3. QED
      BY <3>1, <3>2
  <2>5. QED
    BY <2>3, <2>4
<1>6. ASSUME NEW w \in Workers, NEW failure, GiveUp(w, failure)
      PROVE  HolderHasRow' /\ SingleFlight' /\ AckAccount'
  BY <1>6 DEF GiveUp
<1>7. ASSUME NEW w \in Workers, PersistOk(w)
      PROVE  HolderHasRow' /\ SingleFlight' /\ AckAccount'
  BY <1>7 DEF PersistOk
<1>8. ASSUME NEW w \in Workers, PersistRaises(w)
      PROVE  HolderHasRow' /\ SingleFlight' /\ AckAccount'
  BY <1>8 DEF PersistRaises
<1>9. ASSUME NEW w \in Workers, Resolve(w) \/ Stamp(w) \/ TailRaises(w)
      PROVE  HolderHasRow' /\ SingleFlight' /\ AckAccount'
  BY <1>9 DEF Resolve, Stamp, TailRaises
<1>10. ASSUME NEW w \in Workers, Release(w) \/ RecoverRelease(w)
      PROVE  HolderHasRow' /\ SingleFlight' /\ AckAccount'
  BY <1>10 DEF Release, RecoverRelease
<1>11. ASSUME NEW w \in Workers, ReleaseRaises(w) \/ Alert(w) \/ AlertRaises(w)
      PROVE  HolderHasRow' /\ SingleFlight' /\ AckAccount'
  BY <1>11 DEF ReleaseRaises, Alert, AlertRaises
<1>12. ASSUME NEW w \in Workers, RecoverAlert(w) \/ RecoverRaises(w)
      PROVE  HolderHasRow' /\ SingleFlight' /\ AckAccount'
  BY <1>12 DEF RecoverAlert, RecoverRaises
<1>13. CASE Sigterm \/ Exit \/ Crash \/ Restart
  BY <1>13 DEF Sigterm, Exit, Crash, Restart
<1>14. CASE UNCHANGED vars
  BY <1>14 DEF vars
<1>15. QED
  BY <1>1, <1>2, <1>3, <1>4, <1>5, <1>6, <1>7, <1>8, <1>9, <1>10, <1>11,
     <1>12, <1>13, <1>14 DEF Next, Step, Attempt

\* Every reachable state satisfies the claim invariant: a holder has its row,
\* it is the only one, and the deliveries of a slot are accounted for.
THEOREM ClaimInvariant == Spec => []ClaimInv
<1>1. Init => ClaimInv
  BY TypeCorrectInit DEF Init, ClaimInv, HolderHasRow, SingleFlight, AckAccount,
                         Holds, HoldingSteps
<1>2. ClaimInv /\ [Next]_vars => ClaimInv'
  BY TypeStep, ClaimStep DEF ClaimInv
<1>3. QED
  BY <1>1, <1>2, PTL DEF Spec

\* Overlapping fires: at most one works on the delivery of a slot.
THEOREM SingleFlightHolds == Spec => []SingleFlight
<1>1. ClaimInv => SingleFlight
  BY DEF ClaimInv
<1>2. QED
  BY <1>1, ClaimInvariant, PTL

\* Delivery is at most once, up to the raises after the 2xx.
THEOREM AtMostOnce == Spec => []AckedAtMostOnce
<1>1. ClaimInv => AckedAtMostOnce
  BY DEF ClaimInv, TypeOK, AckAccount, AckedAtMostOnce
<1>2. QED
  BY <1>1, ClaimInvariant, PTL

\* A delivered slot keeps its row, up to the raises after the 2xx.
THEOREM DeliveredClaimKept == Spec => []DeliveredKeepsClaim
<1>1. ClaimInv => DeliveredKeepsClaim
  BY DEF ClaimInv, TypeOK, AckAccount, DeliveredKeepsClaim
<1>2. QED
  BY <1>1, ClaimInvariant, PTL

-----------------------------------------------------------------------------
(* The lease.  Each lemma turns a change of who holds what into a step of  *)
(* SlotLease under the refinement mapping.                                 *)

\* Same holders and same rows: the lease does not move.
LEMMA LeaseStutters ==
  ASSUME \A v \in Workers, r \in Slots : Holds(v, r)' <=> Holds(v, r),
         sentLog' = sentLog, sentLog \in SUBSET Slots
  PROVE  UNCHANGED Lease!leaseVars
<1>1. \A r \in Slots : HoldersOf(r)' = HoldersOf(r)
  BY DEF HoldersOf
<1>2. Closed' = Closed
  BY <1>1 DEF Closed
<1>3. QED
  BY <1>1, <1>2 DEF Lease!leaseVars

\* A new row with its one holder acquires the lease.
LEMMA LeaseAcquired ==
  ASSUME ClaimInv, NEW w \in Workers, NEW s \in Slots, s \notin sentLog,
         \A v \in Workers, r \in Slots :
           Holds(v, r)' <=> Holds(v, r) \/ (v = w /\ r = s),
         sentLog' = sentLog \cup {s}
  PROVE  Lease!Acquire(w, s)
<1>1. HoldersOf(s) = {}
  BY DEF ClaimInv, HolderHasRow, HoldersOf
<1>2. HoldersOf(s)' = {w}
  BY <1>1 DEF HoldersOf
<1>3. \A r \in Slots \ {s} : HoldersOf(r)' = HoldersOf(r)
  BY DEF HoldersOf
<1>4. Closed' = Closed /\ s \notin Closed
  BY <1>2, <1>3 DEF Closed, ClaimInv, TypeOK
<1>5. QED
  BY <1>1, <1>2, <1>3, <1>4 DEF Lease!Acquire

\* What both ways to end a lease have in common: w was the one holder.
LEMMA LastHolderLeaves ==
  ASSUME ClaimInv, NEW w \in Workers, NEW s \in Slots, Holds(w, s),
         \A v \in Workers, r \in Slots :
           Holds(v, r)' <=> Holds(v, r) /\ ~(v = w /\ r = s)
  PROVE  /\ s \in sentLog
         /\ HoldersOf(s) = {w}
         /\ HoldersOf(s)' = {}
         /\ \A r \in Slots \ {s} : HoldersOf(r)' = HoldersOf(r)
<1>1. s \in sentLog /\ \A v \in Workers : Holds(v, s) => v = w
  BY DEF ClaimInv, HolderHasRow, SingleFlight
<1>2. HoldersOf(s) = {w} /\ HoldersOf(s)' = {}
  BY <1>1 DEF HoldersOf
<1>3. \A r \in Slots \ {s} : HoldersOf(r)' = HoldersOf(r)
  BY DEF HoldersOf
<1>4. QED
  BY <1>1, <1>2, <1>3

\* The holder deletes the row and stops working: the lease is given back.
LEMMA LeaseGivenBack ==
  ASSUME ClaimInv, NEW w \in Workers, NEW s \in Slots, Holds(w, s),
         \A v \in Workers, r \in Slots :
           Holds(v, r)' <=> Holds(v, r) /\ ~(v = w /\ r = s),
         sentLog' = sentLog \ {s}
  PROVE  Lease!GiveBack(w, s)
<1>1. /\ HoldersOf(s) = {w} /\ HoldersOf(s)' = {}
      /\ \A r \in Slots \ {s} : HoldersOf(r)' = HoldersOf(r)
  BY LastHolderLeaves
<1>2. Closed' = Closed
  BY <1>1 DEF Closed, ClaimInv, TypeOK
<1>3. QED
  BY <1>1, <1>2 DEF Lease!GiveBack

\* The holder stops working and leaves the row: the lease is closed.
LEMMA LeaseClosed ==
  ASSUME ClaimInv, NEW w \in Workers, NEW s \in Slots, Holds(w, s),
         \A v \in Workers, r \in Slots :
           Holds(v, r)' <=> Holds(v, r) /\ ~(v = w /\ r = s),
         sentLog' = sentLog
  PROVE  Lease!Close(w, s)
<1>1. /\ s \in sentLog /\ HoldersOf(s) = {w} /\ HoldersOf(s)' = {}
      /\ \A r \in Slots \ {s} : HoldersOf(r)' = HoldersOf(r)
  BY LastHolderLeaves
<1>2. Closed' = Closed \cup {s}
  BY <1>1 DEF Closed, ClaimInv, TypeOK
<1>3. QED
  BY <1>1, <1>2 DEF Lease!Close

\* Nobody works any more: every lease in hand is closed.
LEMMA LeaseDied ==
  ASSUME ClaimInv, \A v \in Workers, r \in Slots : ~Holds(v, r)',
         sentLog' = sentLog
  PROVE  Lease!Die
<1>1. \A r \in Slots : HoldersOf(r)' = {}
  BY DEF HoldersOf
<1>2. \A r \in Slots : HoldersOf(r) # {} => r \in sentLog
  BY DEF HoldersOf, ClaimInv, HolderHasRow
<1>3. Closed' = Closed \cup {r \in Slots : HoldersOf(r) # {}}
  BY <1>1, <1>2 DEF Closed, ClaimInv, TypeOK
<1>4. {r \in Slots : [q \in Slots |-> HoldersOf(q)][r] # {}}
        = {r \in Slots : HoldersOf(r) # {}}
  OBVIOUS
<1>5. QED
  BY <1>1, <1>3, <1>4 DEF Lease!Die

\* Every step of fire_slot is a step of the lease or leaves it alone.
LEMMA LeaseStep ==
  ClaimInv /\ [Next]_vars => [Lease!Next]_(Lease!leaseVars)
<1> SUFFICES ASSUME ClaimInv, [Next]_vars PROVE [Lease!Next]_(Lease!leaseVars)
  OBVIOUS
<1> USE DEF ClaimInv, TypeOK
<1>1. ASSUME NEW w \in Workers, NEW s \in Slots, Trigger(w, s)
      PROVE  UNCHANGED Lease!leaseVars
  BY <1>1, LeaseStutters
     DEF Trigger, Goto, Holds, HoldingSteps, store
<1>2. ASSUME NEW w \in Workers, ClaimWon(w)
      PROVE  Lease!Acquire(w, slot[w])
  BY <1>2, LeaseAcquired DEF ClaimWon, Goto, Holds, HoldingSteps
<1>3. ASSUME NEW w \in Workers,
             \/ ClaimLost(w) \/ ClaimRaises(w) \/ FetchOk(w) \/ Retry(w)
             \/ AttemptRaises(w) \/ PostOk(w)
             \/ \E failure \in {"transient", "auth"} : GiveUp(w, failure)
      PROVE  UNCHANGED Lease!leaseVars
  <2>1. CASE ClaimLost(w) \/ ClaimRaises(w)
    BY <2>1, LeaseStutters
       DEF ClaimLost, ClaimRaises, Goto, Holds, HoldingSteps, store
  <2>2. CASE Retry(w)
    BY <2>2, LeaseStutters DEF Retry, Holds, store
  <2>3. CASE \/ FetchOk(w) \/ AttemptRaises(w) \/ PostOk(w)
             \/ \E failure \in {"transient", "auth"} : GiveUp(w, failure)
    BY <2>3, LeaseStutters
       DEF FetchOk, AttemptRaises, PostOk, GiveUp, Goto, Holds, HoldingSteps, store
  <2>4. QED
    BY <1>3, <2>1, <2>2, <2>3
<1>4. ASSUME NEW w \in Workers, PersistOk(w)
      PROVE  Lease!Close(w, slot[w])
  BY <1>4, LeaseClosed DEF PersistOk, Goto, Holds, HoldingSteps, store
<1>5. ASSUME NEW w \in Workers,
             \/ PersistRaises(w) \/ Resolve(w) \/ Stamp(w) \/ TailRaises(w)
             \/ ReleaseRaises(w) \/ Alert(w) \/ AlertRaises(w) \/ RecoverAlert(w)
      PROVE  UNCHANGED Lease!leaseVars
  BY <1>5, LeaseStutters
     DEF PersistRaises, Resolve, Stamp, TailRaises, ReleaseRaises, Alert,
         AlertRaises, RecoverAlert, Goto, Holds, HoldingSteps, store
<1>6. ASSUME NEW w \in Workers, Release(w) \/ RecoverRelease(w)
      PROVE  Lease!GiveBack(w, slot[w])
  BY <1>6, LeaseGivenBack DEF Release, RecoverRelease, Goto, Holds, HoldingSteps
<1>7. ASSUME NEW w \in Workers, RecoverRaises(w)
      PROVE  Lease!Close(w, slot[w]) \/ UNCHANGED Lease!leaseVars
  <2>1. CASE pc[w] = "recoverRelease"
    BY <1>7, <2>1, LeaseClosed DEF RecoverRaises, Goto, Holds, HoldingSteps, store
  <2>2. CASE pc[w] = "recoverAlert"
    BY <1>7, <2>2, LeaseStutters DEF RecoverRaises, Goto, Holds, HoldingSteps, store
  <2>3. QED
    BY <1>7, <2>1, <2>2 DEF RecoverRaises
<1>8. ASSUME Crash PROVE Lease!Die
  <2>1. \A v \in Workers, r \in Slots : ~Holds(v, r)'
    BY <1>8 DEF Crash, Holds, HoldingSteps
  <2>2. sentLog' = sentLog
    BY <1>8 DEF Crash, store
  <2>3. QED
    BY <2>1, <2>2, LeaseDied
<1>9. CASE Sigterm \/ Exit \/ Restart \/ UNCHANGED vars
  BY <1>9, LeaseStutters DEF Sigterm, Exit, Restart, vars, Holds, store
<1>10. QED
  BY <1>1, <1>2, <1>3, <1>4, <1>5, <1>6, <1>7, <1>8, <1>9
     DEF Next, Step, Attempt, Lease!Next

\* fire_slot implements the lease.
THEOREM Refinement == Spec => ImplementsLease
<1>1. Init => Lease!Init
  <2> SUFFICES ASSUME Init PROVE Lease!Init
    OBVIOUS
  <2>1. \A s \in Slots : HoldersOf(s) = {}
    BY DEF Init, HoldersOf, Holds, HoldingSteps
  <2>2. Closed = {}
    BY DEF Init, Closed
  <2>3. QED
    BY <2>1, <2>2 DEF Lease!Init
<1>2. QED
  BY <1>1, LeaseStep, ClaimInvariant, PTL DEF Spec, Lease!Spec, ImplementsLease

(* What the lease promises by itself, and so every model that implements it: *)
(* one holder at a time, and nothing ever opens a closed slot again.         *)
THEOREM LeasePromise == Lease!Spec => []Lease!Exclusive /\ Lease!ClosedForGood
<1> DEFINE Inv == /\ [s \in Slots |-> HoldersOf(s)] \in [Slots -> SUBSET Workers]
                  /\ Lease!Exclusive
<1>1. Lease!Init => Inv
  BY DEF Lease!Init, Lease!Exclusive
<1>2. Inv /\ [Lease!Next]_(Lease!leaseVars) => Inv'
  <2> SUFFICES ASSUME Inv, [Lease!Next]_(Lease!leaseVars) PROVE Inv'
    OBVIOUS
  <2> USE DEF Lease!Exclusive
  <2>1. ASSUME NEW w \in Workers, NEW s \in Slots, Lease!Acquire(w, s) PROVE Inv'
    BY <2>1 DEF Lease!Acquire
  <2>2. ASSUME NEW w \in Workers, NEW s \in Slots,
               Lease!GiveBack(w, s) \/ Lease!Close(w, s)
        PROVE Inv'
    <3>1. /\ w \in HoldersOf(s) /\ Closed' \subseteq Closed \cup {s}
          /\ \A t \in Slots : HoldersOf(t)' = IF t = s THEN HoldersOf(s) \ {w} ELSE HoldersOf(t)
      BY <2>2 DEF Lease!GiveBack, Lease!Close
    <3>2. \A t \in Slots : /\ \A v, x \in HoldersOf(t) : v = x
                           /\ t \in Closed => HoldersOf(t) = {}
      OBVIOUS
    <3>3. \A t \in Slots : /\ \A v, x \in HoldersOf(t)' : v = x
                           /\ t \in Closed' => HoldersOf(t)' = {}
      BY <3>1, <3>2
    <3>4. [t \in Slots |-> HoldersOf(t)]' \in [Slots -> SUBSET Workers]
      <4>1. \A t \in Slots : HoldersOf(t)' \in SUBSET Workers
        BY <3>1
      <4>2. QED
        BY <4>1
    <3>5. QED
      BY <3>3, <3>4
  <2>3. CASE Lease!Die
    BY <2>3 DEF Lease!Die
  <2>4. CASE UNCHANGED Lease!leaseVars
    BY <2>4 DEF Lease!leaseVars
  <2>5. QED
    BY <2>1, <2>2, <2>3, <2>4 DEF Lease!Next
<1>3. [Lease!Next]_(Lease!leaseVars) => [Closed \subseteq Closed']_(Lease!leaseVars)
  BY DEF Lease!Next, Lease!Acquire, Lease!GiveBack, Lease!Close, Lease!Die, Lease!leaseVars
<1>4. QED
  BY <1>1, <1>2, <1>3, PTL DEF Lease!Spec, Lease!ClosedForGood

\* A claim row is never deleted under a fire that still works on it.
THEOREM NeverReleasedUnderHolds == Spec => NeverReleasedUnder
<1> DEFINE Rows == \A s \in sentLog \ sentLog', w \in Workers : ~Holds(w, s)'
<1>1. ClaimInv /\ [Next]_vars => Rows
  <2> SUFFICES ASSUME ClaimInv, [Next]_vars PROVE Rows
    OBVIOUS
  <2>1. ASSUME NEW w \in Workers, Release(w) \/ RecoverRelease(w) PROVE Rows
    <3>1. sentLog \ sentLog' \subseteq {slot[w]} /\ Holds(w, slot[w])
      BY <2>1 DEF Release, RecoverRelease, Holds, HoldingSteps
    <3>2. \A v \in Workers : Holds(v, slot[w]) => v = w
      BY <3>1 DEF ClaimInv, TypeOK, SingleFlight
    <3>3. \A s \in Slots, v \in Workers : Holds(v, s)' => Holds(v, s) /\ v # w
      BY <2>1 DEF Release, RecoverRelease, Goto, Holds, HoldingSteps, ClaimInv, TypeOK
    <3>4. slot[w] \in Slots
      BY DEF ClaimInv, TypeOK
    <3>5. QED
      BY <3>1, <3>2, <3>3, <3>4
  <2>2. ASSUME NEW w \in Workers, ClaimWon(w) PROVE Rows
    BY <2>2 DEF ClaimWon
  <2>3. ASSUME sentLog' = sentLog PROVE Rows
    BY <2>3
  <2>4. QED
    BY <2>1, <2>2, <2>3
       DEF Next, Step, Attempt, Trigger, ClaimLost, ClaimRaises, FetchOk, Retry,
           GiveUp, AttemptRaises, PostOk, PersistOk, PersistRaises, Resolve,
           Stamp, TailRaises, ReleaseRaises, Alert, AlertRaises, RecoverAlert,
           RecoverRaises, Sigterm, Exit, Crash, Restart, vars, store
<1>2. QED
  BY <1>1, ClaimInvariant, PTL DEF Spec, NeverReleasedUnder

-----------------------------------------------------------------------------
(* The outcome of a fire.  One raise is absorbed because every handler     *)
(* that runs after a raise has already been paid for (RaisePaid), and a    *)
(* row nobody works on any more is a delivery (NoOrphan).                  *)

\* A fire in the broad except has raised.
RaisePaid ==
  \A w \in Workers :
    pc[w] \in {"recoverRelease", "recoverAlert"} => raises[slot[w]] > 0

\* A fire past its 2xx has delivered its slot.
TailDelivered ==
  \A w \in Workers :
    pc[w] \in {"persist", "resolve", "stamp"} => acked[slot[w]] > 0

\* A row nobody works on stands for a delivery.
NoOrphan ==
  \A s \in Slots :
    (/\ s \in sentLog /\ raises[s] <= 1 /\ s \notin crashed
     /\ \A w \in Workers : ~Holds(w, s)) => acked[s] > 0

OutcomeInv == TypeOK /\ RaisePaid /\ TailDelivered /\ NoOrphan

\* The outcome account is kept by every step.
LEMMA OutcomeStep == OutcomeInv /\ [Next]_vars => OutcomeInv'
<1> SUFFICES ASSUME OutcomeInv, [Next]_vars PROVE OutcomeInv'
  OBVIOUS
<1> USE DEF OutcomeInv, TypeOK, RaisePaid, TailDelivered, NoOrphan, Holds,
            HoldingSteps, Steps, Goto, Raises, store, history
<1>0. TypeOK'
  BY TypeStep
<1>1. ASSUME NEW w \in Workers, NEW s \in Slots, Trigger(w, s) PROVE OutcomeInv'
  BY <1>0, <1>1 DEF Trigger
<1>2. ASSUME NEW w \in Workers, ClaimWon(w) PROVE OutcomeInv'
  BY <1>0, <1>2 DEF ClaimWon
<1>3. ASSUME NEW w \in Workers, ClaimLost(w) \/ ClaimRaises(w) PROVE OutcomeInv'
  BY <1>0, <1>3 DEF ClaimLost, ClaimRaises
<1>4. ASSUME NEW w \in Workers, FetchOk(w) \/ Retry(w) \/ AttemptRaises(w)
      PROVE  OutcomeInv'
  BY <1>0, <1>4 DEF FetchOk, Retry, AttemptRaises
<1>5. ASSUME NEW w \in Workers, PostOk(w) PROVE OutcomeInv'
  BY <1>0, <1>5 DEF PostOk
<1>6. ASSUME NEW w \in Workers, NEW failure, GiveUp(w, failure) PROVE OutcomeInv'
  BY <1>0, <1>6 DEF GiveUp
<1>7. ASSUME NEW w \in Workers, PersistOk(w) PROVE OutcomeInv'
  BY <1>0, <1>7 DEF PersistOk
<1>8. ASSUME NEW w \in Workers, PersistRaises(w) PROVE OutcomeInv'
  BY <1>0, <1>8 DEF PersistRaises
<1>9. ASSUME NEW w \in Workers, Resolve(w) \/ Stamp(w) \/ TailRaises(w)
      PROVE  OutcomeInv'
  BY <1>0, <1>9 DEF Resolve, Stamp, TailRaises
<1>10. ASSUME NEW w \in Workers, Release(w) \/ ReleaseRaises(w) PROVE OutcomeInv'
  BY <1>0, <1>10 DEF Release, ReleaseRaises
<1>11. ASSUME NEW w \in Workers, Alert(w) \/ AlertRaises(w) PROVE OutcomeInv'
  BY <1>0, <1>11 DEF Alert, AlertRaises
<1>12. ASSUME NEW w \in Workers, RecoverRelease(w) \/ RecoverAlert(w)
       PROVE  OutcomeInv'
  BY <1>0, <1>12 DEF RecoverRelease, RecoverAlert
<1>13. ASSUME NEW w \in Workers, RecoverRaises(w) PROVE OutcomeInv'
  BY <1>0, <1>13 DEF RecoverRaises
<1>14. CASE Sigterm \/ Exit \/ Restart \/ UNCHANGED vars
  BY <1>0, <1>14 DEF Sigterm, Exit, Restart, vars
<1>15. CASE Crash
  BY <1>0, <1>15 DEF Crash, Busy
<1>16. QED
  BY <1>1, <1>2, <1>3, <1>4, <1>5, <1>6, <1>7, <1>8, <1>9, <1>10, <1>11,
     <1>12, <1>13, <1>14, <1>15 DEF Next, Step, Attempt

\* Every reachable state satisfies the outcome account.
THEOREM OutcomeInvariant == Spec => []OutcomeInv
<1>1. Init => OutcomeInv
  BY TypeCorrectInit DEF Init, OutcomeInv, RaisePaid, TailDelivered, NoOrphan
<1>2. QED
  BY <1>1, OutcomeStep, PTL DEF Spec

\* One raise never leaves an undelivered slot claimed.
THEOREM NoClaimLeakHolds == Spec => []NoClaimLeak
<1>1. OutcomeInv => NoClaimLeak
  BY DEF OutcomeInv, NoOrphan, NoClaimLeak, Busy, Holds, HoldingSteps
<1>2. QED
  BY <1>1, OutcomeInvariant, PTL

\* A fire leaves its slot with an alert or with a delivery.
LEMMA MissStep == OutcomeInv /\ NoSilentMiss /\ [Next]_vars => NoSilentMiss'
<1> SUFFICES ASSUME OutcomeInv, NoSilentMiss, [Next]_vars PROVE NoSilentMiss'
  OBVIOUS
<1> USE DEF OutcomeInv, TypeOK, RaisePaid, TailDelivered, NoOrphan, Holds,
            HoldingSteps, Steps, Goto, Raises, store, history, NoSilentMiss,
            Busy, RecordAlert
<1>1. ASSUME NEW w \in Workers, NEW s \in Slots, Trigger(w, s) PROVE NoSilentMiss'
  BY <1>1 DEF Trigger
<1>2. ASSUME NEW w \in Workers, ClaimWon(w) \/ ClaimRaises(w) PROVE NoSilentMiss'
  BY <1>2 DEF ClaimWon, ClaimRaises
<1>3. ASSUME NEW w \in Workers, ClaimLost(w) PROVE NoSilentMiss'
  BY <1>3 DEF ClaimLost
<1>4. ASSUME NEW w \in Workers, FetchOk(w) \/ Retry(w) \/ AttemptRaises(w)
      PROVE  NoSilentMiss'
  BY <1>4 DEF FetchOk, Retry, AttemptRaises
<1>5. ASSUME NEW w \in Workers, PostOk(w) PROVE NoSilentMiss'
  BY <1>5 DEF PostOk
<1>6. ASSUME NEW w \in Workers, NEW failure, GiveUp(w, failure) PROVE NoSilentMiss'
  BY <1>6 DEF GiveUp
<1>7. ASSUME NEW w \in Workers, PersistOk(w) \/ PersistRaises(w) PROVE NoSilentMiss'
  BY <1>7 DEF PersistOk, PersistRaises
<1>8. ASSUME NEW w \in Workers, Resolve(w) PROVE NoSilentMiss'
  BY <1>8 DEF Resolve
<1>9. ASSUME NEW w \in Workers, Stamp(w) \/ TailRaises(w) PROVE NoSilentMiss'
  BY <1>9 DEF Stamp, TailRaises
<1>10. ASSUME NEW w \in Workers, Release(w) \/ ReleaseRaises(w) PROVE NoSilentMiss'
  BY <1>10 DEF Release, ReleaseRaises
<1>11. ASSUME NEW w \in Workers, Alert(w) \/ AlertRaises(w) PROVE NoSilentMiss'
  BY <1>11 DEF Alert, AlertRaises
<1>12. ASSUME NEW w \in Workers, RecoverRelease(w) \/ RecoverAlert(w)
       PROVE  NoSilentMiss'
  BY <1>12 DEF RecoverRelease, RecoverAlert
<1>13. ASSUME NEW w \in Workers, RecoverRaises(w) PROVE NoSilentMiss'
  BY <1>13 DEF RecoverRaises
<1>14. CASE Sigterm \/ Exit \/ Restart \/ UNCHANGED vars
  BY <1>14 DEF Sigterm, Exit, Restart, vars
<1>15. CASE Crash
  BY <1>15 DEF Crash
<1>16. QED
  BY <1>1, <1>2, <1>3, <1>4, <1>5, <1>6, <1>7, <1>8, <1>9, <1>10, <1>11,
     <1>12, <1>13, <1>14, <1>15 DEF Next, Step, Attempt

\* One raise never hides a missed slot: it is delivered or alerted.
THEOREM NoSilentMissHolds == Spec => []NoSilentMiss
<1>1. Init => NoSilentMiss
  BY DEF Init, NoSilentMiss
<1>2. QED
  BY <1>1, MissStep, OutcomeInvariant, PTL DEF Spec

\* Only the success tail resolves an alert or stamps the heartbeat.
LEMMA SuccessStep == OutcomeInv /\ SuccessIsReal /\ [Next]_vars => SuccessIsReal'
<1> SUFFICES ASSUME OutcomeInv, SuccessIsReal, [Next]_vars PROVE SuccessIsReal'
  OBVIOUS
<1> USE DEF OutcomeInv, TypeOK, TailDelivered, Steps, Goto, Raises, store,
            history, SuccessIsReal, RecordAlert
<1>1. ASSUME NEW w \in Workers, NEW s \in Slots, Trigger(w, s) PROVE SuccessIsReal'
  BY <1>1 DEF Trigger
<1>2. ASSUME NEW w \in Workers, ClaimWon(w) \/ ClaimRaises(w) PROVE SuccessIsReal'
  BY <1>2 DEF ClaimWon, ClaimRaises
<1>3. ASSUME NEW w \in Workers, ClaimLost(w) PROVE SuccessIsReal'
  BY <1>3 DEF ClaimLost
<1>4. ASSUME NEW w \in Workers, FetchOk(w) \/ Retry(w) \/ AttemptRaises(w)
      PROVE  SuccessIsReal'
  BY <1>4 DEF FetchOk, Retry, AttemptRaises
<1>5. ASSUME NEW w \in Workers, PostOk(w) PROVE SuccessIsReal'
  BY <1>5 DEF PostOk
<1>6. ASSUME NEW w \in Workers, NEW failure, GiveUp(w, failure) PROVE SuccessIsReal'
  BY <1>6 DEF GiveUp
<1>7. ASSUME NEW w \in Workers, PersistOk(w) \/ PersistRaises(w) PROVE SuccessIsReal'
  BY <1>7 DEF PersistOk, PersistRaises
<1>8. ASSUME NEW w \in Workers, Resolve(w) PROVE SuccessIsReal'
  BY <1>8 DEF Resolve
<1>9. ASSUME NEW w \in Workers, Stamp(w) \/ TailRaises(w) PROVE SuccessIsReal'
  BY <1>9 DEF Stamp, TailRaises
<1>10. ASSUME NEW w \in Workers, Release(w) \/ ReleaseRaises(w) PROVE SuccessIsReal'
  BY <1>10 DEF Release, ReleaseRaises
<1>11. ASSUME NEW w \in Workers, Alert(w) \/ AlertRaises(w) PROVE SuccessIsReal'
  BY <1>11 DEF Alert, AlertRaises
<1>12. ASSUME NEW w \in Workers, RecoverRelease(w) \/ RecoverAlert(w)
       PROVE  SuccessIsReal'
  BY <1>12 DEF RecoverRelease, RecoverAlert
<1>13. ASSUME NEW w \in Workers, RecoverRaises(w) PROVE SuccessIsReal'
  BY <1>13 DEF RecoverRaises
<1>14. CASE Sigterm \/ Exit \/ Restart \/ UNCHANGED vars
  BY <1>14 DEF Sigterm, Exit, Restart, vars
<1>15. CASE Crash
  BY <1>15 DEF Crash
<1>16. QED
  BY <1>1, <1>2, <1>3, <1>4, <1>5, <1>6, <1>7, <1>8, <1>9, <1>10, <1>11,
     <1>12, <1>13, <1>14, <1>15 DEF Next, Step, Attempt

\* No alert is resolved, no success stamped, without a delivery.
THEOREM SuccessIsRealHolds == Spec => []SuccessIsReal
<1>1. Init => SuccessIsReal
  BY DEF Init, SuccessIsReal
<1>2. QED
  BY <1>1, SuccessStep, OutcomeInvariant, PTL DEF Spec

-----------------------------------------------------------------------------
(* The variant of a fire *)

\* A fire's attempts begin at one, and stay within the retry policy.
Counted == \A w \in Workers : pc[w] # "idle" => tries[w] \in 1..MaxAttempts

LEMMA CountedStep == TypeOK /\ Counted /\ [Next]_vars => Counted'
<1> SUFFICES ASSUME TypeOK, Counted, [Next]_vars, NEW v \in Workers, pc'[v] # "idle"
             PROVE  tries'[v] \in 1..MaxAttempts
  BY DEF Counted
<1> USE AttemptsAssumption DEF Counted, TypeOK, Goto
<1>1. ASSUME NEW w \in Workers, NEW s \in Slots, Trigger(w, s)
      PROVE  tries'[v] \in 1..MaxAttempts
  BY <1>1 DEF Trigger
<1>2. ASSUME NEW w \in Workers, Retry(w) PROVE tries'[v] \in 1..MaxAttempts
  BY <1>2 DEF Retry
<1>3. ASSUME UNCHANGED tries, \A w \in Workers : pc'[w] # "idle" => pc[w] # "idle"
      PROVE  tries'[v] \in 1..MaxAttempts
  BY <1>3
<1>4. ASSUME NEW w \in Workers, Step(w), ~Retry(w) PROVE tries'[v] \in 1..MaxAttempts
  BY <1>3, <1>4
     DEF Step, Attempt, ClaimWon, ClaimLost, ClaimRaises, FetchOk, GiveUp, AttemptRaises, PostOk,
         PersistOk, PersistRaises, Resolve, Stamp, TailRaises, Release, ReleaseRaises,
         Alert, AlertRaises, RecoverRelease, RecoverAlert, RecoverRaises
<1>5. CASE Sigterm \/ Exit \/ Crash \/ Restart \/ UNCHANGED vars
  BY <1>3, <1>5 DEF Sigterm, Exit, Crash, Restart, vars
<1>6. QED
  BY <1>1, <1>2, <1>4, <1>5 DEF Next

\* A step of a fire goes on in the order of its calls, or counts an attempt,
\* and leaves the other fires where they are.
LEMMA StepAhead ==
  ASSUME TypeOK, NEW w \in Workers, Step(w)
  PROVE  /\ CallsLeft(w)' < CallsLeft(w)
         /\ \A v \in Workers \ {w} : CallsLeft(v)' = CallsLeft(v)
<1> USE AttemptsAssumption DEF TypeOK, Goto, CallsLeft, CallsAhead
<1>1. CASE ClaimWon(w) \/ ClaimLost(w) \/ ClaimRaises(w)
  BY <1>1 DEF ClaimWon, ClaimLost, ClaimRaises
<1>2. CASE FetchOk(w) \/ AttemptRaises(w) \/ PostOk(w)
  BY <1>2 DEF FetchOk, AttemptRaises, PostOk
<1>3. CASE Retry(w)
  BY <1>3 DEF Retry
<1>4. ASSUME NEW failure, GiveUp(w, failure)
      PROVE  /\ CallsLeft(w)' < CallsLeft(w)
             /\ \A v \in Workers \ {w} : CallsLeft(v)' = CallsLeft(v)
  BY <1>4 DEF GiveUp
<1>5. CASE PersistOk(w) \/ PersistRaises(w)
  BY <1>5 DEF PersistOk, PersistRaises
<1>6. CASE Resolve(w) \/ Stamp(w) \/ TailRaises(w)
  BY <1>6 DEF Resolve, Stamp, TailRaises
<1>7. CASE Release(w) \/ ReleaseRaises(w) \/ Alert(w) \/ AlertRaises(w)
  BY <1>7 DEF Release, ReleaseRaises, Alert, AlertRaises
<1>8. CASE RecoverRelease(w) \/ RecoverAlert(w) \/ RecoverRaises(w)
  BY <1>8 DEF RecoverRelease, RecoverAlert, RecoverRaises
<1>9. QED
  BY <1>1, <1>2, <1>3, <1>4, <1>5, <1>6, <1>7, <1>8 DEF Step, Attempt

(* Every call of a fire brings it nearer its end, whatever raises and whoever *)
(* else works on its slot: fire_slot has no way round to an earlier call.     *)
THEOREM FiresShortenHolds == Spec => FiresShorten
<1> DEFINE Shorter == \A w \in Workers : pc[w] # "idle" =>
                        /\ CallsLeft(w)' <= CallsLeft(w)
                        /\ Step(w) => CallsLeft(w)' < CallsLeft(w)
<1>1. TypeOK /\ [Next]_vars => [Shorter]_vars
  <2> SUFFICES ASSUME TypeOK, Next PROVE Shorter
    OBVIOUS
  <2>0. \A w \in Workers : CallsLeft(w) \in Int
    BY AttemptsAssumption DEF TypeOK, CallsLeft, CallsAhead, Steps
  <2>a. \A w \in Workers : CallsLeft(w)' \in Int
    <3>1. TypeOK'
      BY TypeStep
    <3>2. QED
      BY <3>1, AttemptsAssumption DEF TypeOK, CallsLeft, CallsAhead, Steps
  <2>1. ASSUME NEW w \in Workers, NEW s \in Slots, Trigger(w, s),
               NEW v \in Workers, pc[v] # "idle"
        PROVE  CallsLeft(v)' = CallsLeft(v) /\ ~Step(v)
    <3>1. v # w /\ pc'[v] = pc[v] /\ tries'[v] = tries[v]
      BY <2>1 DEF Trigger, Goto, TypeOK
    <3>2. CallsLeft(v)' = CallsLeft(v)
      BY <3>1 DEF CallsLeft, CallsAhead
    <3>3. QED
      BY <2>0, <3>2, StepAhead
  <2>2. ASSUME UNCHANGED <<pc, tries>>, NEW v \in Workers
        PROVE  CallsLeft(v)' = CallsLeft(v) /\ ~Step(v)
    <3>1. CallsLeft(v)' = CallsLeft(v)
      BY <2>2 DEF CallsLeft, CallsAhead
    <3>2. QED
      BY <2>0, <3>1, StepAhead
  <2>3. ASSUME Crash, NEW v \in Workers, pc[v] # "idle" PROVE CallsLeft(v)' < CallsLeft(v)
    BY <2>3, AttemptsAssumption DEF Crash, TypeOK, CallsLeft, CallsAhead, Steps
  <2>4. ASSUME NEW w \in Workers, Step(w), NEW v \in Workers
        PROVE  CallsLeft(v)' <= CallsLeft(v) /\ (Step(v) => CallsLeft(v)' < CallsLeft(v))
    <3>1. CASE v = w
      BY <2>0, <2>a, <2>4, <3>1, StepAhead
    <3>2. CASE v # w
      BY <2>0, <2>4, <3>2, StepAhead
    <3>3. QED
      BY <3>1, <3>2
  <2>5. CASE \E w \in Workers, s \in Slots : Trigger(w, s)
    BY <2>0, <2>1, <2>5
  <2>6. CASE \E w \in Workers : Step(w)
    BY <2>4, <2>6
  <2>7. CASE Sigterm \/ Exit \/ Restart
    <3>1. UNCHANGED <<pc, tries>>
      BY <2>7 DEF Sigterm, Exit, Restart
    <3>2. QED
      BY <2>0, <2>2, <3>1
  <2>8. CASE Crash
    BY <2>0, <2>a, <2>3, <2>8
  <2>9. QED
    BY <2>5, <2>6, <2>7, <2>8 DEF Next
<1>2. QED
  BY <1>1, TypeCorrect, PTL DEF Spec, FiresShorten

(* So a fire is over after at most MaxAttempts + 5 of them.                  *)
THEOREM FiresBoundedHolds == Spec => []FiresBounded
<1>1. Init => Counted
  BY DEF Init, Counted
<1>2. TypeOK /\ Counted => FiresBounded
  BY AttemptsAssumption DEF TypeOK, Counted, FiresBounded, CallsLeft, CallsAhead, Steps
<1>3. QED
  BY <1>1, <1>2, CountedStep, TypeCorrect, PTL DEF Spec
=============================================================================
