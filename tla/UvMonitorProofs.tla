--------------------------- MODULE UvMonitorProofs ---------------------------
(* Proofs about UvMonitor: its types, the order of a day's alerts, that no   *)
(* claimed alert vanishes, and that the protect window is whole, for every   *)
(* set of locations and forecasts.                                           *)
EXTENDS UvMonitor, TLAPS, WellFoundedInduction

(* What the rows of the location at hand are, at each call of _decide.       *)
BusyInv ==
  /\ tick.at = "claim" =>
       /\ tick.kind \notin claimed[tick.location]
       /\ tick.kind = "prewarn" => "crossing" \notin claimed[tick.location]
       /\ tick.kind = "allclear" => "crossing" \in claimed[tick.location]
       /\ tick.first => claimed[tick.location] = {}
  /\ tick.at = "moot" => tick.kind = "crossing" /\ claimed[tick.location] = {"crossing"}
  /\ tick.at = "post" =>
       /\ tick.kind \in claimed[tick.location]
       /\ tick.kind # "allclear" => "allclear" \notin claimed[tick.location]
       /\ tick.kind = "prewarn" => "crossing" \notin claimed[tick.location]
       /\ \A i \in DOMAIN posts[tick.location] : posts[tick.location][i] # tick.kind
  /\ tick.at = "moot" =>
       \A i \in DOMAIN posts[tick.location] : posts[tick.location][i] # "crossing"

(* What is posted is claimed, and an all-clear is claimed after a crossing.  *)
RowsInv ==
  \A l \in Locations :
    /\ \A i \in DOMAIN posts[l] : posts[l][i] \in claimed[l]
    /\ "allclear" \in claimed[l] => "crossing" \in claimed[l]

DayInv == BusyInv /\ RowsInv

-----------------------------------------------------------------------------
\* What a tick is, by its step.
LEMMA TickFields ==
  ASSUME TypeOK
  PROVE  /\ tick.at = "next" => tick \in Between
         /\ tick.at \in {"claim", "moot", "post"} => tick \in Busy
         /\ tick \in Between => tick.at = "next"
         /\ tick \in Busy => tick.at \in {"claim", "moot", "post"}
         /\ NoTick.at = "none"
<1>1. tick \in Between => tick.at = "next"
  BY DEF Between
<1>2. tick \in Busy => tick.at \in {"claim", "moot", "post"}
  BY DEF Busy
<1>3. NoTick.at = "none"
  BY DEF NoTick
<1>4. tick \in Between \cup Busy \cup {NoTick}
  BY DEF TypeOK
<1>5. QED
  BY <1>1, <1>2, <1>3, <1>4

\* After a location, the tick is between two.
LEMMA OnwardTick == ASSUME tick \in Busy PROVE Onward \in Between
BY DEF Onward, Between, Busy

\* What a decision makes of the tick.
LEMMA TurnTick ==
  ASSUME tick \in Between, NEW l \in tick.todo, NEW kind \in Kinds, Turn(l, kind)
  PROVE  /\ tick' \in Busy
         /\ tick'.at = "claim" /\ tick'.location = l /\ tick'.kind = kind
         /\ tick'.first = (claimed[l] = {})
BY DEF Turn, Between, Busy

\* Every step keeps the types.
LEMMA TypeStep == TypeOK /\ [Next]_vars => TypeOK'
<1> SUFFICES ASSUME TypeOK, [Next]_vars PROVE TypeOK'
  OBVIOUS
<1> USE TickFields DEF history
<1>1. CASE StartTick
  <2>1. holder \in Configs /\ holder.active \subseteq Locations
    BY ConfigsAssumption DEF TypeOK, Settings
  <2>2. tick' \in Between
    BY <1>1, <2>1 DEF StartTick, Between, TypeOK
  <2>3. QED
    BY <1>1, <2>2 DEF StartTick, TypeOK
<1>2. ASSUME NEW l \in Locations, PassOver(l) PROVE TypeOK'
  <2>1. tick' \in Between
    BY <1>2 DEF PassOver, Between
  <2>2. QED
    BY <1>2, <2>1 DEF PassOver, TypeOK
<1>3. ASSUME NEW l \in tick.todo, NEW index, NEW summary, Evaluate(l, index, summary) PROVE TypeOK'
  <2>1. tick \in Between
    BY <1>3 DEF Evaluate
  <2>2. ASSUME tick' = [tick EXCEPT !.todo = @ \ {l}] PROVE tick' \in Between
    BY <2>1, <2>2 DEF Between
  <2>3. tick' \in Between \cup Busy
    BY <1>3, <2>1, <2>2, TurnTick DEF Evaluate, Decide, Kinds
  <2>4. QED
    BY <1>3, <2>3 DEF Evaluate, TypeOK
<1>4. CASE Claim
  <2>1. tick \in Busy
    BY <1>4 DEF Claim
  <2>2. tick' \in Between \cup Busy
    BY <1>4, <2>1, OnwardTick DEF Claim, Busy
  <2>3. claimed' \in [Locations -> SUBSET Kinds]
    BY <1>4, <2>1 DEF Claim, Busy, TypeOK
  <2>4. QED
    BY <1>4, <2>2, <2>3 DEF Claim, TypeOK
<1>5. CASE ClaimMoot
  <2>1. tick \in Busy
    BY <1>5 DEF ClaimMoot
  <2>2. tick' \in Busy /\ moot' \subseteq Locations
    BY <1>5, <2>1 DEF ClaimMoot, Busy, TypeOK
  <2>3. claimed' \in [Locations -> SUBSET Kinds]
    BY <1>5, <2>1 DEF ClaimMoot, Busy, Kinds, TypeOK
  <2>4. QED
    BY <1>5, <2>2, <2>3 DEF ClaimMoot, TypeOK
<1>6. CASE ClaimRaises
  <2>1. tick \in Busy
    BY <1>6 DEF ClaimRaises
  <2>2. lost' \subseteq Locations \X Kinds
    BY <1>6, <2>1 DEF ClaimRaises, Busy, Kinds, TypeOK
  <2>3. raised' \in 0..MaxRaises
    BY <1>6, RaisesAssumption DEF ClaimRaises, TypeOK
  <2>4. QED
    BY <1>6, <2>1, <2>2, <2>3, OnwardTick DEF ClaimRaises, TypeOK
<1>7. CASE PostOk
  <2>1. tick \in Busy
    BY <1>7 DEF PostOk
  <2>2. posts' \in [Locations -> Seq(Kinds)]
    BY <1>7, <2>1 DEF PostOk, Busy, TypeOK
  <2>3. QED
    BY <1>7, <2>1, <2>2, OnwardTick DEF PostOk, TypeOK
<1>8. CASE PostFails
  <2>1. tick \in Busy
    BY <1>8 DEF PostFails
  <2>2. lost' \subseteq Locations \X Kinds
    BY <1>8, <2>1 DEF PostFails, Busy, TypeOK
  <2>3. QED
    BY <1>8, <2>1, <2>2, OnwardTick DEF PostFails, TypeOK
<1>9. CASE EndTick
  BY <1>9 DEF EndTick, TypeOK
<1>10. CASE Pass
  BY <1>10, TimeAssumption DEF Pass, TypeOK
<1>11. ASSUME NEW c \in Configs, Reload(c) PROVE TypeOK'
  BY <1>11 DEF Reload, TypeOK
<1>12. ASSUME NEW c \in Configs, Restart(c) PROVE TypeOK'
  <2>1. c.enabled \in BOOLEAN
    BY ConfigsAssumption DEF Settings
  <2>2. lost' \subseteq Locations \X Kinds
    BY <1>12 DEF Restart, Interrupted, Busy, TypeOK
  <2>3. QED
    BY <1>12, <2>1, <2>2 DEF Restart, TypeOK
<1>13. CASE UNCHANGED vars
  BY <1>13 DEF vars, TypeOK
<1>14. QED
  BY <1>1, <1>2, <1>3, <1>4, <1>5, <1>6, <1>7, <1>8, <1>9, <1>10, <1>11, <1>12, <1>13 DEF Next

LEMMA TypeInit == Init => TypeOK
<1> SUFFICES ASSUME Init PROVE TypeOK
  OBVIOUS
<1>1. now \in 0..LastTime
  BY TimeAssumption DEF Init
<1>2. job \in BOOLEAN
  BY ConfigsAssumption DEF Init, Settings
<1>3. posts \in [Locations -> Seq(Kinds)]
  BY DEF Init
<1>4. raised \in 0..MaxRaises
  BY RaisesAssumption DEF Init
<1>5. QED
  BY <1>1, <1>2, <1>3, <1>4 DEF Init, TypeOK

(* The types hold for every set of locations, configurations and indices.    *)
THEOREM TypeCorrect == Spec => []TypeOK
BY TypeInit, TypeStep, PTL DEF Spec

-----------------------------------------------------------------------------
\* Every step keeps what the rows are at the location at hand, and in general.
LEMMA DayStep == TypeOK /\ DayInv /\ [Next]_vars => DayInv'
<1> SUFFICES ASSUME TypeOK, DayInv, [Next]_vars PROVE DayInv'
  OBVIOUS
<1> USE TickFields DEF DayInv, history
<1>a. ASSUME UNCHANGED <<claimed, posts>> PROVE RowsInv'
  BY <1>a DEF RowsInv
<1>b. ASSUME tick'.at \in {"none", "next"} PROVE BusyInv'
  BY <1>b DEF BusyInv
<1>o. ASSUME tick \in Busy, tick' = Onward PROVE tick'.at = "next"
  BY <1>o, OnwardTick DEF Between
<1>1. CASE StartTick
  <2>1. tick'.at = "next"
    BY <1>1 DEF StartTick
  <2>2. QED
    BY <1>1, <1>a, <1>b, <2>1 DEF StartTick
<1>2. ASSUME NEW l \in Locations, PassOver(l) PROVE DayInv'
  <2>1. tick'.at = "next"
    BY <1>2 DEF PassOver, Between
  <2>2. QED
    BY <1>2, <1>a, <1>b, <2>1 DEF PassOver
<1>3. ASSUME NEW l \in tick.todo, NEW index, NEW summary, Evaluate(l, index, summary) PROVE DayInv'
  <2>1. tick \in Between
    BY <1>3 DEF Evaluate
  <2>2. UNCHANGED <<claimed, posts>>
    BY <1>3 DEF Evaluate
  <2>3. CASE tick' = [tick EXCEPT !.todo = @ \ {l}]
    <3>1. tick'.at = "next"
      BY <2>1, <2>3 DEF Between
    <3>2. QED
      BY <1>a, <1>b, <2>2, <3>1
  <2>4. CASE CrossingDue(l, index) /\ Turn(l, "crossing")
    BY <1>a, <2>1, <2>2, <2>4, TurnTick DEF CrossingDue, BusyInv, Kinds
  <2>5. CASE PrewarnDue(l, index, summary) /\ Turn(l, "prewarn")
    BY <1>a, <2>1, <2>2, <2>5, TurnTick DEF PrewarnDue, BusyInv, Kinds
  <2>6. CASE AllclearDue(l, index, summary) /\ Turn(l, "allclear")
    BY <1>a, <2>1, <2>2, <2>6, TurnTick DEF AllclearDue, BusyInv, Kinds
  <2>7. QED
    BY <1>3, <2>3, <2>4, <2>5, <2>6 DEF Evaluate, Decide
<1>4. CASE Claim
  <2> DEFINE l == tick.location
  <2>1. tick \in Busy /\ l \in Locations /\ UNCHANGED posts
    BY <1>4 DEF Claim, Busy
  <2>2. claimed' = [claimed EXCEPT ![l] = @ \cup {tick.kind}]
    BY <1>4 DEF Claim
  <2>3. tick.kind \notin claimed[l]
    BY <1>4 DEF Claim, BusyInv
  <2>4. tick.kind = "allclear" => "crossing" \in claimed[l]
    BY <1>4 DEF Claim, BusyInv
  <2>5. RowsInv'
    BY <2>1, <2>2, <2>4 DEF RowsInv, TypeOK
  <2>6. \A i \in DOMAIN posts[l] : posts[l][i] # tick.kind
    BY <2>1, <2>3 DEF RowsInv
  <2>7. claimed'[l] = claimed[l] \cup {tick.kind}
    BY <2>1, <2>2 DEF TypeOK
  <2>8. CASE tick.kind = "crossing" /\ tick.first
    <3>1. tick' = [tick EXCEPT !.at = "moot"]
      BY <1>4, <2>3, <2>8 DEF Claim
    <3>2. tick'.at = "moot" /\ tick'.kind = "crossing" /\ tick'.location = l
      BY <2>1, <2>8, <3>1 DEF Busy
    <3>3. claimed'[l] = {"crossing"}
      BY <1>4, <2>7, <2>8 DEF Claim, BusyInv
    <3>4. BusyInv'
      BY <2>1, <2>6, <2>8, <3>2, <3>3 DEF BusyInv
    <3>5. QED
      BY <2>5, <3>4
  <2>9. CASE ~(tick.kind = "crossing" /\ tick.first)
    <3>1. tick' = [tick EXCEPT !.at = "post"]
      BY <1>4, <2>3, <2>9 DEF Claim
    <3>2. tick'.at = "post" /\ tick'.kind = tick.kind /\ tick'.location = l
      BY <2>1, <3>1 DEF Busy
    <3>3. tick.kind = "prewarn" => "crossing" \notin claimed'[l]
      BY <1>4, <2>7 DEF Claim, BusyInv
    <3>4. tick.kind # "allclear" => "allclear" \notin claimed'[l]
      <4>1. tick.kind \in {"prewarn", "crossing", "allclear"}
        BY <2>1 DEF Busy, Kinds
      <4>2. tick.kind # "allclear" => "crossing" \notin claimed[l]
        BY <1>4, <2>3, <4>1 DEF Claim, BusyInv
      <4>3. QED
        BY <2>1, <2>7, <4>2 DEF RowsInv
    <3>5. BusyInv'
      BY <2>1, <2>6, <2>7, <3>2, <3>3, <3>4 DEF BusyInv
    <3>6. QED
      BY <2>5, <3>5
  <2>10. QED
    BY <2>8, <2>9
<1>5. CASE ClaimMoot
  <2> DEFINE l == tick.location
  <2>1. tick \in Busy /\ l \in Locations /\ UNCHANGED posts
    BY <1>5 DEF ClaimMoot, Busy
  <2>2. tick.kind = "crossing" /\ claimed[l] = {"crossing"}
    BY <1>5 DEF ClaimMoot, BusyInv
  <2>3. claimed'[l] = {"crossing", "prewarn"}
    BY <1>5, <2>1, <2>2 DEF ClaimMoot, TypeOK
  <2>4. RowsInv'
    BY <1>5, <2>1 DEF ClaimMoot, RowsInv, TypeOK
  <2>5. tick'.at = "post" /\ tick'.kind = "crossing" /\ tick'.location = l
    BY <1>5, <2>1, <2>2 DEF ClaimMoot, Busy
  <2>6. \A i \in DOMAIN posts[l] : posts[l][i] # "crossing"
    BY <1>5 DEF ClaimMoot, BusyInv
  <2>7. BusyInv'
    BY <2>1, <2>3, <2>5, <2>6 DEF BusyInv
  <2>8. QED
    BY <2>4, <2>7
<1>6. CASE ClaimRaises
  BY <1>6, <1>a, <1>b, <1>o DEF ClaimRaises
<1>7. CASE PostOk
  <2> DEFINE l == tick.location
  <2>1. tick \in Busy /\ l \in Locations /\ UNCHANGED claimed
    BY <1>7 DEF PostOk, Busy
  <2>2. tick.kind \in claimed[l]
    BY <1>7 DEF PostOk, BusyInv
  <2>3. posts' = [posts EXCEPT ![l] = Append(@, tick.kind)]
    BY <1>7 DEF PostOk
  <2>4. \A m \in Locations : \A i \in DOMAIN posts'[m] : posts'[m][i] \in claimed[m]
    BY <2>1, <2>2, <2>3 DEF RowsInv, TypeOK
  <2>5. RowsInv'
    BY <2>1, <2>4 DEF RowsInv
  <2>6. QED
    BY <1>7, <1>b, <1>o, <2>1, <2>5 DEF PostOk
<1>8. CASE PostFails
  BY <1>8, <1>a, <1>b, <1>o DEF PostFails
<1>9. CASE EndTick
  BY <1>9, <1>a, <1>b DEF EndTick
<1>10. CASE Pass
  BY <1>10, <1>a DEF Pass, BusyInv
<1>11. ASSUME NEW c \in Configs, Reload(c) PROVE DayInv'
  BY <1>11, <1>a DEF Reload, BusyInv
<1>12. ASSUME NEW c \in Configs, Restart(c) PROVE DayInv'
  BY <1>12, <1>a, <1>b DEF Restart
<1>13. CASE UNCHANGED vars
  BY <1>13, <1>a DEF vars, BusyInv
<1>14. QED
  BY <1>1, <1>2, <1>3, <1>4, <1>5, <1>6, <1>7, <1>8, <1>9, <1>10, <1>11, <1>12, <1>13 DEF Next

LEMMA DayInit == Init => DayInv
BY DEF Init, DayInv, BusyInv, RowsInv, NoTick

LEMMA DayCorrect == Spec => [](TypeOK /\ DayInv)
<1>1. TypeOK /\ DayInv /\ [Next]_vars => TypeOK' /\ DayInv'
  BY TypeStep, DayStep
<1>2. QED
  BY <1>1, TypeInit, DayInit, PTL DEF Spec

\* Whatever is posted before the alert at hand ranks below it.
LEMMA PostedBefore ==
  ASSUME TypeOK, DayInv, tick.at = "post"
  PROVE  \A i \in DOMAIN posts[tick.location] : Rank(posts[tick.location][i]) < Rank(tick.kind)
<1> DEFINE l == tick.location
<1>1. tick.kind \in Kinds /\ l \in Locations
  BY TickFields DEF Busy
<1>2. SUFFICES ASSUME NEW i \in DOMAIN posts[l] PROVE Rank(posts[l][i]) < Rank(tick.kind)
  OBVIOUS
<1>3. posts[l][i] \in claimed[l] /\ posts[l][i] # tick.kind
  BY <1>1 DEF DayInv, BusyInv, RowsInv
<1>4. posts[l][i] \in Kinds
  BY <1>1, <1>3 DEF TypeOK
<1>5. tick.kind # "allclear" => posts[l][i] # "allclear"
  BY <1>3 DEF DayInv, BusyInv
<1>6. tick.kind = "prewarn" => posts[l][i] # "crossing"
  BY <1>3 DEF DayInv, BusyInv
<1>7. QED
  BY <1>1, <1>3, <1>4, <1>5, <1>6 DEF Kinds, Rank

\* Only PostOk makes a list of posts longer, by the alert at hand.
LEMMA PostsGrow ==
  ASSUME TypeOK, [Next]_vars, NEW l \in Locations
  PROVE  \/ posts'[l] = posts[l]
         \/ /\ tick.at = "post" /\ tick.location = l
            /\ posts'[l] = Append(posts[l], tick.kind)
<1>1. CASE PostOk
  BY <1>1 DEF PostOk, TypeOK
<1>2. CASE ~PostOk
  BY <1>2 DEF Next, StartTick, PassOver, Evaluate, Claim, ClaimMoot, ClaimRaises, PostFails,
              EndTick, Pass, Reload, Restart, history, vars
<1>3. QED
  BY <1>1, <1>2

LEMMA InOrderStep == TypeOK /\ DayInv /\ InOrder /\ [Next]_vars => InOrder'
<1> SUFFICES ASSUME TypeOK, DayInv, InOrder, [Next]_vars, NEW l \in Locations,
                    NEW i \in DOMAIN posts'[l], NEW j \in DOMAIN posts'[l], i < j
             PROVE  Rank(posts'[l][i]) < Rank(posts'[l][j])
  BY DEF InOrder
<1>1. CASE posts'[l] = posts[l]
  BY <1>1 DEF InOrder
<1>2. CASE /\ tick.at = "post" /\ tick.location = l
           /\ posts'[l] = Append(posts[l], tick.kind)
  <2>1. posts[l] \in Seq(Kinds) /\ tick.kind \in Kinds
    BY <1>2, TickFields DEF TypeOK, Busy
  <2>2. i \in DOMAIN posts[l] /\ posts'[l][i] = posts[l][i]
    BY <1>2, <2>1
  <2>3. CASE j \in DOMAIN posts[l]
    <3>1. posts'[l][j] = posts[l][j]
      BY <1>2, <2>1, <2>3
    <3>2. QED
      BY <2>2, <2>3, <3>1 DEF InOrder
  <2>4. CASE j \notin DOMAIN posts[l]
    <3>1. posts'[l][j] = tick.kind
      BY <1>2, <2>1, <2>4
    <3>2. QED
      BY <1>2, <2>2, <3>1, PostedBefore
  <2>5. QED
    BY <2>3, <2>4
<1>3. QED
  BY <1>1, <1>2, PostsGrow

(* The alerts of a day are posted in its order, each at most once, for any   *)
(* number of locations, ticks, reloads and restarts.                         *)
THEOREM InOrderHolds == Spec => []InOrder
<1>1. Init => InOrder
  BY DEF Init, InOrder
<1>2. QED
  BY <1>1, InOrderStep, DayCorrect, PTL DEF Spec

-----------------------------------------------------------------------------
\* Rows, posts and the record of losses only grow.
LEMMA RecordsGrow ==
  ASSUME TypeOK, [Next]_vars, NEW l \in Locations
  PROVE  /\ claimed[l] \subseteq claimed'[l]
         /\ lost \subseteq lost'
         /\ moot \subseteq moot'
         /\ \A i \in DOMAIN posts[l] : i \in DOMAIN posts'[l] /\ posts'[l][i] = posts[l][i]
<1>1. claimed[l] \subseteq claimed'[l]
  <2>1. CASE Claim
    BY <2>1 DEF Claim, TypeOK
  <2>2. CASE ClaimMoot
    BY <2>2 DEF ClaimMoot, TypeOK
  <2>3. CASE ~Claim /\ ~ClaimMoot
    BY <2>3 DEF Next, StartTick, PassOver, Evaluate, ClaimRaises, PostOk, PostFails,
                EndTick, Pass, Reload, Restart, history, vars
  <2>4. QED
    BY <2>1, <2>2, <2>3
<1>2. lost \subseteq lost' /\ moot \subseteq moot'
  BY DEF Next, StartTick, PassOver, Evaluate, Claim, ClaimMoot, ClaimRaises, PostOk, PostFails,
         EndTick, Pass, Reload, Restart, history, vars
<1>3. \A i \in DOMAIN posts[l] : i \in DOMAIN posts'[l] /\ posts'[l][i] = posts[l][i]
  <2>1. CASE posts'[l] = posts[l]
    BY <2>1
  <2>2. CASE tick.at = "post" /\ posts'[l] = Append(posts[l], tick.kind)
    <3>1. posts[l] \in Seq(Kinds)
      BY DEF TypeOK
    <3>2. QED
      BY <2>2, <3>1
  <2>3. QED
    BY <2>1, <2>2, PostsGrow
<1>4. QED
  BY <1>1, <1>2, <1>3

\* An alert whose row is there and that is about to be posted stays so, is posted, or is lost.
LEMMA AtHandStep ==
  ASSUME TypeOK, DayInv, [Next]_vars, tick.at \in {"moot", "post"},
         NEW l, NEW kind, tick.location = l, tick.kind = kind
  PROVE  \/ \E i \in DOMAIN posts'[l] : posts'[l][i] = kind
         \/ tick'.at \in {"moot", "post"} /\ tick'.location = l /\ tick'.kind = kind
         \/ <<l, kind>> \in lost'
<1>1. tick \in Busy /\ l \in Locations /\ kind \in Kinds
  BY TickFields DEF Busy
<1>2. CASE ClaimMoot
  BY <1>1, <1>2 DEF ClaimMoot, Busy
<1>3. CASE ClaimRaises
  <2>1. tick.at = "moot"
    BY <1>3 DEF ClaimRaises
  <2>2. kind = "crossing"
    BY <2>1 DEF DayInv, BusyInv
  <2>3. QED
    BY <1>3, <2>1, <2>2 DEF ClaimRaises
<1>4. CASE PostOk
  <2>1. posts[l] \in Seq(Kinds)
    BY <1>1 DEF TypeOK
  <2>2. posts'[l] = Append(posts[l], kind)
    BY <1>1, <1>4 DEF PostOk, TypeOK
  <2>3. Len(posts[l]) + 1 \in DOMAIN posts'[l] /\ posts'[l][Len(posts[l]) + 1] = kind
    BY <1>1, <2>1, <2>2
  <2>4. QED
    BY <2>3
<1>5. CASE PostFails
  BY <1>5 DEF PostFails
<1>6. ASSUME NEW c \in Configs, Restart(c) PROVE <<l, kind>> \in lost'
  BY <1>6 DEF Restart, Interrupted
<1>7. CASE UNCHANGED tick
  BY <1>7
<1>8. QED
  BY <1>2, <1>3, <1>4, <1>5, <1>6, <1>7
  DEF Next, StartTick, PassOver, Evaluate, Claim, EndTick, Pass, Reload, history, vars

\* A row that is new is of the alert at hand, or of a moot pre-warning.
LEMMA NewRow ==
  ASSUME TypeOK, DayInv, [Next]_vars, NEW l \in Locations, NEW kind \in claimed'[l] \ claimed[l]
  PROVE  \/ tick'.at \in {"moot", "post"} /\ tick'.location = l /\ tick'.kind = kind
         \/ kind = "prewarn" /\ l \in moot' /\ "crossing" \in claimed'[l]
<1>1. CASE Claim
  <2>1. tick \in Busy
    BY <1>1, TickFields DEF Claim
  <2>2. l = tick.location /\ kind = tick.kind
    BY <1>1, <2>1 DEF Claim, TypeOK
  <2>3. tick' = [tick EXCEPT !.at = IF tick.kind = "crossing" /\ tick.first THEN "moot" ELSE "post"]
    BY <1>1, <2>2 DEF Claim
  <2>4. QED
    BY <2>1, <2>2, <2>3 DEF Busy
<1>2. CASE ClaimMoot
  <2>1. tick \in Busy
    BY <1>2, TickFields DEF ClaimMoot
  <2>2. l = tick.location /\ kind = "prewarn"
    BY <1>2, <2>1 DEF ClaimMoot, TypeOK
  <2>3. "crossing" \in claimed[l]
    BY <1>2, <2>2 DEF ClaimMoot, DayInv, BusyInv
  <2>4. QED
    BY <1>2, <2>2, <2>3, RecordsGrow DEF ClaimMoot
<1>3. CASE ~Claim /\ ~ClaimMoot
  BY <1>3 DEF Next, StartTick, PassOver, Evaluate, ClaimRaises, PostOk, PostFails,
              EndTick, Pass, Reload, Restart, history, vars
<1>4. QED
  BY <1>1, <1>2, <1>3

LEMMA NoAlertVanishesStep ==
  TypeOK /\ DayInv /\ NoAlertVanishes /\ [Next]_vars => NoAlertVanishes'
<1> SUFFICES ASSUME TypeOK, DayInv, NoAlertVanishes, [Next]_vars,
                    NEW l \in Locations, NEW kind \in claimed'[l]
             PROVE  \/ \E i \in DOMAIN posts'[l] : posts'[l][i] = kind
                    \/ tick'.at \in {"moot", "post"} /\ tick'.location = l /\ tick'.kind = kind
                    \/ <<l, kind>> \in lost'
                    \/ kind = "prewarn" /\ l \in moot' /\ "crossing" \in claimed'[l]
  BY DEF NoAlertVanishes
<1>1. CASE kind \notin claimed[l]
  BY <1>1, NewRow
<1>2. CASE kind \in claimed[l]
  <2>1. CASE \E i \in DOMAIN posts[l] : posts[l][i] = kind
    BY <2>1, RecordsGrow
  <2>2. CASE tick.at \in {"moot", "post"} /\ tick.location = l /\ tick.kind = kind
    BY <2>2, AtHandStep
  <2>3. CASE <<l, kind>> \in lost
    BY <2>3, RecordsGrow
  <2>4. CASE kind = "prewarn" /\ l \in moot /\ "crossing" \in claimed[l]
    BY <2>4, RecordsGrow
  <2>5. QED
    BY <1>2, <2>1, <2>2, <2>3, <2>4 DEF NoAlertVanishes
<1>3. QED
  BY <1>1, <1>2

(* A claimed alert is posted, about to be, lost to a named failure, or moot. *)
THEOREM NoAlertVanishesHolds == Spec => []NoAlertVanishes
<1>1. Init => NoAlertVanishes
  BY DEF Init, NoAlertVanishes
<1>2. QED
  BY <1>1, NoAlertVanishesStep, DayCorrect, PTL DEF Spec

-----------------------------------------------------------------------------
\* When the all-clear is posted its crossing has been, or was lost.
LEMMA CrossingBefore ==
  ASSUME TypeOK, DayInv, NoAlertVanishes, tick.at = "post", tick.kind = "allclear"
  PROVE  \/ \E i \in DOMAIN posts[tick.location] : posts[tick.location][i] = "crossing"
         \/ <<tick.location, "crossing">> \in lost
<1>1. tick.location \in Locations
  BY TickFields DEF Busy
<1>2. "crossing" \in claimed[tick.location]
  BY <1>1 DEF DayInv, BusyInv, RowsInv
<1>3. QED
  BY <1>1, <1>2 DEF NoAlertVanishes

LEMMA AllclearExplainedStep ==
  TypeOK /\ DayInv /\ NoAlertVanishes /\ AllclearExplained /\ [Next]_vars => AllclearExplained'
<1> SUFFICES ASSUME TypeOK, DayInv, NoAlertVanishes, AllclearExplained, [Next]_vars,
                    NEW l \in Locations, NEW i \in DOMAIN posts'[l], posts'[l][i] = "allclear"
             PROVE  \/ \E j \in 1..(i - 1) : posts'[l][j] = "crossing"
                    \/ <<l, "crossing">> \in lost'
  BY DEF AllclearExplained
<1>1. posts[l] \in Seq(Kinds)
  BY DEF TypeOK
<1>2. CASE i \in DOMAIN posts[l]
  <2>1. posts[l][i] = "allclear" /\ 1..(i - 1) \subseteq DOMAIN posts[l]
    BY <1>1, <1>2, RecordsGrow
  <2>2. \/ \E j \in 1..(i - 1) : posts[l][j] = "crossing"
        \/ <<l, "crossing">> \in lost
    BY <1>2, <2>1 DEF AllclearExplained
  <2>3. QED
    BY <2>1, <2>2, RecordsGrow
<1>3. CASE i \notin DOMAIN posts[l]
  <2>1. /\ tick.at = "post" /\ tick.location = l
        /\ posts'[l] = Append(posts[l], tick.kind)
    BY <1>3, PostsGrow
  <2>2. tick.kind \in Kinds
    BY <2>1, TickFields DEF Busy
  <2>3. tick.kind = "allclear" /\ DOMAIN posts[l] = 1..(i - 1)
    BY <1>1, <1>3, <2>1, <2>2
  <2>4. \/ \E j \in 1..(i - 1) : posts[l][j] = "crossing"
        \/ <<l, "crossing">> \in lost
    BY <2>1, <2>3, CrossingBefore
  <2>5. QED
    BY <2>3, <2>4, RecordsGrow
<1>4. QED
  BY <1>2, <1>3

(* An all-clear follows its crossing, unless the post of that one was lost.  *)
THEOREM AllclearExplainedHolds == Spec => []AllclearExplained
<1>1. Init => AllclearExplained
  BY DEF Init, AllclearExplained
<1>2. QED
  BY <1>1, AllclearExplainedStep, NoAlertVanishesHolds, DayCorrect, PTL DEF Spec

-----------------------------------------------------------------------------
\* A set of instants has an earliest.
LEMMA HasEarliest ==
  ASSUME NEW S, S \subseteq Nat, S # {}
  PROVE  Earliest(S) \in S /\ \A x \in S : Earliest(S) <= x
<1> DEFINE R == OpToRel(<, Nat)
<1>1. PICK t \in S : \A x \in S : ~ (<<x, t>> \in R)
  <2>1. IsWellFoundedOn(R, Nat)
    BY NatLessThanWellFounded
  <2>2. QED
    BY ONLY <2>1, WFMin, S \subseteq Nat, S # {}, Zenon
<1>2. \A x \in S : t <= x
  <2>1. ASSUME NEW x \in S, x < t PROVE FALSE
    <3>1. <<x, t>> \in Nat \X Nat
      OBVIOUS
    <3>2. <<x, t>> \in R
      BY <2>1, <3>1 DEF OpToRel
    <3>3. QED
      BY <1>1, <3>2
  <2>2. QED
    BY <2>1
<1>3. QED
  BY <1>2 DEF Earliest

\* The quotient by which a crossing is away from a point.
LEMMA DivBound ==
  ASSUME NEW d \in Nat, d > 0, NEW k \in Nat, NEW m \in Nat, k < m
  PROVE  (d * k) \div m \in Int /\ 0 <= (d * k) \div m /\ (d * k) \div m < d
<1>1. d * k \in Nat /\ d * k < d * m
  OBVIOUS
<1> DEFINE x == d * k
<1>2. \A y \in Nat : y \div m \in Nat /\ m * (y \div m) <= y
  OBVIOUS
<1> DEFINE q == x \div m
<1>3. q \in Nat /\ m * q < d * m
  BY <1>1, <1>2
<1>4. q < d
  <2> HIDE DEF q
  <2>1. ASSUME q >= d PROVE FALSE
    <3>1. m * q >= m * d
       BY <1>3, <2>1
    <3>2. QED
      BY <1>3, <3>1
  <2> QED BY <2>1, <1>3
<1> QED BY <1>3, <1>4

\* A bounded set of instants has a latest.
LEMMA HasLatest ==
  ASSUME NEW N \in Nat, NEW S, S \subseteq 0..N, S # {}
  PROVE  Latest(S) \in S /\ \A x \in S : x <= Latest(S)
<1> DEFINE T == {N - x : x \in S}
<1>1. T \subseteq Nat /\ T # {}
  <2>1. \A x \in S : x \in 0..N /\ N - x \in Nat
    OBVIOUS
  <2>2. T \subseteq Nat
    BY <2>1
  <2>3. PICK x \in S : TRUE
    OBVIOUS
  <2>4. N - x \in T
    OBVIOUS
  <2>5. QED
    BY <2>2, <2>4
<1>2. PICK x \in S : Earliest(T) = N - x
  BY <1>1, HasEarliest
<1>3. \A y \in S : N - x <= N - y
  BY <1>1, <1>2, HasEarliest
<1>4. \A y \in S : y <= x
  BY <1>3
<1>5. QED
  BY <1>4 DEF Latest

\* Between a point outside A and a later one in A, two neighbours enter A.
LEMMA PairBetween ==
  ASSUME NEW N \in Nat, NEW p, DOMAIN p \subseteq 0..N,
         NEW A, NEW a \in DOMAIN p, NEW b \in DOMAIN p, a < b, a \notin A, b \in A
  PROVE  \E w \in Pairs(p) : a <= w[1] /\ w[2] <= b /\ w[1] \notin A /\ w[2] \in A
<1> DEFINE Entries == {t \in DOMAIN p : a < t /\ t \in A}
           u == Earliest(Entries)
           Before == {t \in DOMAIN p : t < u}
           v == Latest(Before)
<1>1. Entries \subseteq Nat /\ b \in Entries
  OBVIOUS
<1>2. u \in Entries /\ \A t \in Entries : u <= t
  BY <1>1, HasEarliest
<1>3. Before \subseteq 0..N /\ a \in Before
  BY <1>2
<1>4. v \in Before /\ \A t \in Before : t <= v
  BY <1>3, HasLatest
<1> HIDE DEF u, v
<1>5. u <= b /\ a <= v /\ v < u /\ u \in A
  BY <1>1, <1>2, <1>3, <1>4
<1>6. v \notin A
  <2>1. CASE v = a
    BY <2>1
  <2>2. CASE v # a
    <3>1. ASSUME v \in A PROVE FALSE
      <4>1. a < v /\ v \in DOMAIN p
        BY <1>4, <1>5, <2>2
      <4>2. v \in Entries
        BY <4>1, <3>1
      <4>3. u <= v
        BY <1>2, <4>2
      <4>4. QED
        BY <4>1, <4>3, <1>2, <1>5
    <3>2. QED
      BY <3>1
  <2>3. QED
    BY <2>1, <2>2
<1>7. \A t \in DOMAIN p : t <= v \/ u <= t
  <2>1. SUFFICES ASSUME NEW t \in DOMAIN p, ~ (u <= t) PROVE t <= v
    OBVIOUS
  <2>2. t < u
    BY <1>2, <2>1
  <2>3. QED
    BY <2>2, <1>4
<1>8. <<v, u>> \in Pairs(p)
  BY <1>2, <1>4, <1>5, <1>7 DEF Pairs
<1>9. QED
  BY <1>5, <1>6, <1>8

\* Two neighbours, and their indices.
LEMMA PairParts ==
  ASSUME NEW N \in Nat, NEW hours \in SUBSET (0..N), NEW p \in [hours -> Nat],
         NEW w \in Pairs(p)
  PROVE  /\ w[1] \in hours /\ w[2] \in hours
         /\ w[1] \in Nat /\ w[2] \in Nat /\ w[1] < w[2]
         /\ p[w[1]] \in Nat /\ p[w[2]] \in Nat
         /\ \A t \in hours : t <= w[1] \/ w[2] <= t
<1>1. DOMAIN p = hours
  OBVIOUS
<1>2. w \in hours \X hours /\ w[1] < w[2] /\ \A t \in hours : t <= w[1] \/ w[2] <= t
  BY <1>1 DEF Pairs
<1>3. w[1] \in hours /\ w[2] \in hours
  BY <1>2
<1>4. w[1] \in Nat /\ w[2] \in Nat /\ p[w[1]] \in Nat /\ p[w[2]] \in Nat
  <2>1. \A t \in hours : t \in Nat /\ p[t] \in Nat
    OBVIOUS
  <2>2. QED
    BY <1>3, <2>1, Zenon
<1>5. QED
  BY <1>2, <1>3, <1>4

\* What a crossing between two points lies between.
LEMMA CrossBounds ==
  ASSUME NEW N \in Nat, NEW hours \in SUBSET (0..N), NEW p \in [hours -> Nat],
         NEW threshold \in Nat
  PROVE  /\ \A w \in Rises(p, threshold) :
              /\ UpAt(p, w, threshold) \in Nat
              /\ w[1] < UpAt(p, w, threshold) /\ UpAt(p, w, threshold) <= w[2]
         /\ \A w \in Falls(p, threshold) :
              /\ DownAt(p, w, threshold) \in Nat
              /\ w[1] <= DownAt(p, w, threshold) /\ DownAt(p, w, threshold) < w[2]
<1>1. ASSUME NEW w \in Rises(p, threshold)
      PROVE  /\ UpAt(p, w, threshold) \in Nat
             /\ w[1] < UpAt(p, w, threshold) /\ UpAt(p, w, threshold) <= w[2]
  <2> DEFINE d == w[2] - w[1]
             k == p[w[2]] - threshold
             m == p[w[2]] - p[w[1]]
  <2>1. w[1] \in Nat /\ w[2] \in Nat /\ w[1] < w[2]
    BY PairParts DEF Rises
  <2>2. p[w[1]] \in Nat /\ p[w[2]] \in Nat /\ p[w[1]] < threshold /\ threshold <= p[w[2]]
    BY PairParts DEF Rises
  <2>3. d \in Nat /\ d > 0 /\ k \in Nat /\ m \in Nat /\ k < m
    BY <2>1, <2>2
  <2>4. UpAt(p, w, threshold) = w[2] - (d * k) \div m
    BY DEF UpAt
  <2> HIDE DEF k, m
  <2>5. (d * k) \div m \in Int /\ 0 <= (d * k) \div m /\ (d * k) \div m < d
    BY <2>3, DivBound
  <2>6. QED
    BY <2>1, <2>4, <2>5
<1>2. ASSUME NEW w \in Falls(p, threshold)
      PROVE  /\ DownAt(p, w, threshold) \in Nat
             /\ w[1] <= DownAt(p, w, threshold) /\ DownAt(p, w, threshold) < w[2]
  <2> DEFINE d == w[2] - w[1]
             k == p[w[1]] - threshold
             m == p[w[1]] - p[w[2]]
  <2>1. w[1] \in Nat /\ w[2] \in Nat /\ w[1] < w[2]
    BY PairParts DEF Falls
  <2>2. p[w[1]] \in Nat /\ p[w[2]] \in Nat /\ p[w[2]] < threshold /\ threshold <= p[w[1]]
    BY PairParts DEF Falls
  <2>3. d \in Nat /\ d > 0 /\ k \in Nat /\ m \in Nat /\ k < m
    BY <2>1, <2>2
  <2>4. DownAt(p, w, threshold) = w[1] + (d * k) \div m
    BY DEF DownAt
  <2> HIDE DEF k, m
  <2>5. (d * k) \div m \in Int /\ 0 <= (d * k) \div m /\ (d * k) \div m < d
    BY <2>3, DivBound
  <2>6. QED
    BY <2>1, <2>4, <2>5
<1>3. QED
  BY <1>1, <1>2

\* A window begins where some point at the threshold is the next one.
LEMMA WindowFrom ==
  ASSUME NEW N \in Nat, NEW hours \in SUBSET (0..N), NEW p \in [hours -> Nat],
         NEW threshold \in Nat, NEW start \in Nat,
         NEW z \in hours, start <= z, p[z] >= threshold,
         \A t \in hours : start <= t => z <= t
  PROVE  LET end == WindowEnd(p, threshold, start) IN
         /\ start <= end /\ end <= Latest(hours)
         /\ \A t \in hours : start <= t /\ t <= end => p[t] >= threshold
<1> DEFINE late == {w \in Falls(p, threshold) : start <= w[2] /\ start <= DownAt(p, w, threshold)}
           Ends == {DownAt(p, w, threshold) : w \in late}
           end == WindowEnd(p, threshold, start)
<1>1. /\ DOMAIN p = hours /\ hours \subseteq Nat
      /\ Latest(hours) \in hours /\ \A t \in hours : t <= Latest(hours)
  <2>1. DOMAIN p = hours /\ hours \subseteq 0..N /\ hours # {}
    OBVIOUS
  <2>2. hours \subseteq Nat
    BY <2>1
  <2>3. QED
    BY <2>1, <2>2, HasLatest
<1> HIDE DEF end
<1>2. ASSUME NEW t \in hours, start <= t, p[t] < threshold
      PROVE  \E w \in late : DownAt(p, w, threshold) < t
  <2> DEFINE A == {x \in hours : p[x] < threshold}
  <2>1. z < t /\ z \notin A /\ t \in A
    BY <1>2
  <2>2. PICK w \in Pairs(p) : z <= w[1] /\ w[2] <= t /\ w[1] \notin A /\ w[2] \in A
    BY <1>1, <2>1, PairBetween
  <2>3. w \in Falls(p, threshold) /\ w[1] \in Nat /\ w[2] \in Nat
    <3>1. /\ w[1] \in hours /\ w[2] \in hours /\ w[1] \in Nat /\ w[2] \in Nat
          /\ p[w[1]] \in Nat /\ p[w[2]] \in Nat
      BY PairParts
    <3>2. p[w[1]] >= threshold /\ threshold > p[w[2]]
      BY <2>2, <3>1
    <3>3. QED
      BY <3>1, <3>2 DEF Falls
  <2>4. /\ DownAt(p, w, threshold) \in Nat
        /\ w[1] <= DownAt(p, w, threshold) /\ DownAt(p, w, threshold) < w[2]
    BY <2>3, CrossBounds
  <2>5. QED
    BY <2>2, <2>3, <2>4
<1>3. CASE late = {}
  <2>1. end = Latest(hours)
    BY <1>1, <1>3 DEF end, WindowEnd, FirstDownCrossAfter
  <2>2. \A t \in hours : start <= t => p[t] >= threshold
    BY <1>2, <1>3
  <2>3. start <= Latest(hours)
    <3>1. z <= Latest(hours) /\ z \in Nat /\ Latest(hours) \in Nat
      BY <1>1
    <3>2. QED
      BY <3>1
  <2>4. QED
    <3>1. Latest(hours) <= Latest(hours)
      BY <1>1
    <3>2. QED
      BY <2>1, <2>2, <2>3, <3>1 DEF end
<1>4. CASE late # {}
  <2>1. Ends \subseteq Nat /\ Ends # {}
    BY <1>4, CrossBounds
  <2>2. Earliest(Ends) \in Ends /\ \A e \in Ends : Earliest(Ends) <= e
    BY <2>1, HasEarliest
  <2>3. PICK w \in late : Earliest(Ends) = DownAt(p, w, threshold)
    BY <2>2
  <2>4. FirstDownCrossAfter(p, threshold, start) = Earliest(Ends)
    BY <1>4 DEF FirstDownCrossAfter
  <2>5. start <= Earliest(Ends) /\ Earliest(Ends) \in Nat
    BY <2>1, <2>2, <2>3
  <2>6. end = Earliest(Ends)
    BY <2>4, <2>5, NoneAssumption DEF end, WindowEnd
  <2>7. end <= Latest(hours)
    <3>1. DownAt(p, w, threshold) < w[2] /\ w[2] \in hours
      BY CrossBounds, PairParts DEF Falls
    <3>2. w[2] <= Latest(hours) /\ w[2] \in Nat /\ Latest(hours) \in Nat
      BY <1>1, <3>1
    <3>3. QED
      BY <2>3, <2>5, <2>6, <3>1, <3>2
  <2>8. ASSUME NEW t \in hours, start <= t, t <= end, p[t] < threshold PROVE FALSE
    <3>1. PICK x \in late : DownAt(p, x, threshold) < t
      BY <1>2, <2>8
    <3>2. Earliest(Ends) <= DownAt(p, x, threshold) /\ DownAt(p, x, threshold) \in Nat
      BY <2>1, <2>2
    <3>3. t \in Nat
      BY <1>1
    <3>4. QED
      BY <2>5, <2>6, <2>8, <3>1, <3>2, <3>3
  <2>9. \A t \in hours : start <= t /\ t <= end => p[t] >= threshold
    BY <2>8
  <2>10. QED
    BY <2>5, <2>6, <2>7, <2>9 DEF end
<1>5. QED
  BY <1>3, <1>4

(* compute_uv's window is whole, for any hourly points and threshold.        *)
THEOREM ProtectWholeHolds ==
  ASSUME NEW N \in Nat, NEW hours \in SUBSET (0..N), NEW p \in [hours -> Nat],
         NEW threshold \in Nat
  PROVE  ProtectWhole(p, threshold)
<1> DEFINE start == FirstUpCross(p, threshold)
           Crosses == {UpAt(p, w, threshold) : w \in Rises(p, threshold)}
           s == Summary(p, threshold)
<1>1. DOMAIN p = hours /\ hours \subseteq Nat
  OBVIOUS
<1>2. ASSUME start \in Nat, NEW z \in hours, start <= z, p[z] >= threshold,
             \A t \in hours : start <= t => z <= t
      PROVE  ProtectWhole(p, threshold)
  <2>1. start # None
    BY <1>2, NoneAssumption
  <2>2. s.crossing = start /\ s.end = WindowEnd(p, threshold, start)
    BY <2>1 DEF Summary
  <2> HIDE DEF start, s
  <2>3. LET end == WindowEnd(p, threshold, start) IN
         /\ start <= end /\ end <= Latest(hours)
         /\ \A t \in hours : start <= t /\ t <= end => p[t] >= threshold
    BY <1>2, WindowFrom
  <2>4. QED
    BY <1>1, <2>1, <2>2, <2>3 DEF ProtectWhole, s
<1>3. CASE Rises(p, threshold) # {}
  <2>1. Crosses \subseteq Nat /\ Crosses # {}
    BY <1>3, CrossBounds
  <2>2. start = Earliest(Crosses)
    BY <1>3 DEF FirstUpCross
  <2>3. PICK w \in Rises(p, threshold) : start = UpAt(p, w, threshold)
    BY <2>1, <2>2, HasEarliest
  <2>4. start \in Nat /\ w[1] < start /\ start <= w[2]
    BY <2>3, CrossBounds
  <2>5. /\ w[1] \in hours /\ w[2] \in hours /\ p[w[2]] >= threshold
        /\ \A t \in hours : t <= w[1] \/ w[2] <= t
    BY PairParts DEF Rises
  <2> HIDE DEF start
  <2>6. ASSUME NEW t \in hours, start <= t PROVE w[2] <= t
    <3>1. t \in Nat /\ w[1] \in Nat /\ (t <= w[1] \/ w[2] <= t)
      BY <1>1, <2>5
    <3>2. QED
      BY <2>4, <2>6, <3>1
  <2>7. QED
    BY <1>2, <2>4, <2>5, <2>6
<1>4. CASE Rises(p, threshold) = {}
  <2>1. ASSUME hours # {} PROVE Earliest(hours) \in hours /\ \A t \in hours : Earliest(hours) <= t
    BY <1>1, <2>1, HasEarliest
  <2>2. CASE hours # {} /\ p[Earliest(hours)] >= threshold
    <3>1. start = Earliest(hours)
      BY <1>1, <1>4, <2>2 DEF FirstUpCross
    <3> HIDE DEF start
    <3>2. QED
      BY <1>1, <1>2, <2>1, <2>2, <3>1
  <2>3. CASE ~ (hours # {} /\ p[Earliest(hours)] >= threshold)
    <3>1. start = None
      BY <1>1, <1>4, <2>3 DEF FirstUpCross
    <3>2. ASSUME NEW t \in hours, p[t] >= threshold PROVE FALSE
      <4> DEFINE A == {x \in hours : p[x] >= threshold}
                 first == Earliest(hours)
      <4>1. first \in hours /\ first <= t
        BY <2>1, <3>2
      <4>2. first \notin A /\ t \in A /\ first < t
        <5>1. ~ (p[first] >= threshold)
          BY <2>3, <3>2
        <5> HIDE DEF first
        <5>2. first # t /\ first \in Nat /\ t \in Nat
          BY <1>1, <3>2, <4>1, <5>1
        <5>3. QED
          BY <3>2, <4>1, <5>1, <5>2
      <4> HIDE DEF first
      <4>3. PICK w \in Pairs(p) : w[1] \notin A /\ w[2] \in A
        BY <1>1, <4>1, <4>2, PairBetween
      <4>4. w \in Rises(p, threshold)
        <5>1. /\ w[1] \in hours /\ w[2] \in hours
              /\ p[w[1]] \in Nat /\ p[w[2]] \in Nat
          BY PairParts
        <5>2. p[w[1]] < threshold /\ threshold <= p[w[2]]
          BY <4>3, <5>1
        <5>3. QED
          BY <5>2 DEF Rises
      <4>5. QED
        BY <1>4, <4>4
    <3>3. \A t \in hours : p[t] < threshold
      BY <3>2
    <3>4. QED
      BY <1>1, <3>1, <3>3 DEF ProtectWhole, Summary
  <2>4. QED
    BY <2>2, <2>3
<1>5. QED
  BY <1>3, <1>4

(* Whatever hourly points a payload brings and whatever threshold is in      *)
(* force, compute_uv's window is not reversed and protects no hour below it. *)
THEOREM WindowWholeHolds == Spec => []WindowWhole
<1>1. ASSUME NEW threshold \in Thresholds PROVE WholeFor[threshold]
  <2>1. threshold \in Nat
    BY ConfigsAssumption DEF Thresholds, Settings
  <2>2. ASSUME NEW hours \in SUBSET Hours, NEW p \in [hours -> Indices]
        PROVE  ProtectWhole(p, threshold)
    <3>1. hours \in SUBSET (0..LastTime) /\ p \in [hours -> Nat] /\ LastTime \in Nat
      BY TimeAssumption
    <3>2. QED
      BY <2>1, <3>1, ProtectWholeHolds
  <2>3. QED
    BY <2>2 DEF WholeFor
<1>2. TypeOK => WindowWhole
  BY <1>1 DEF TypeOK, WindowWhole, Thresholds
<1>3. QED
  BY <1>2, TypeCorrect, PTL
-----------------------------------------------------------------------------
(* The lease of the uv_alerts rows *)

\* What a tick holds is a row; what it claims next is none yet.
LEMMA HeldRow ==
  ASSUME TypeOK, DayInv
  PROVE  /\ Interrupted \subseteq Rows
         /\ \A a \in Interrupted : Interrupted = {a}
         /\ tick.at = "claim" => /\ <<tick.location, tick.kind>> \in Alerts \ Rows
                                 /\ Interrupted = {}
         /\ tick.at \in {"moot", "post"} =>
              /\ <<tick.location, tick.kind>> \in Alerts
              /\ Interrupted = {<<tick.location, tick.kind>>}
<1>1. tick.at \in {"claim", "moot", "post"} =>
        <<tick.location, tick.kind>> \in Alerts /\ tick.location \in Locations
  BY TickFields DEF Busy, Alerts
<1>2. QED
  BY <1>1 DEF Interrupted, Rows, DayInv, BusyInv

\* A tick takes a row, works on it and leaves it there, or dies over it.
LEMMA LeaseStep == TypeOK /\ DayInv /\ [Next]_vars => [Lease!OnceNext]_(Lease!leaseVars)
<1> SUFFICES ASSUME TypeOK, DayInv, [Next]_vars PROVE [Lease!OnceNext]_(Lease!leaseVars)
  OBVIOUS
<1> USE TickFields DEF history
<1> DEFINE alert == <<tick.location, tick.kind>>
<1>a. ASSUME UNCHANGED <<claimed, Interrupted>> PROVE UNCHANGED Lease!leaseVars
  BY <1>a DEF Lease!leaseVars, Holders, Rows
<1>b. ASSUME UNCHANGED claimed, tick.at \notin {"moot", "post"}, tick'.at \notin {"moot", "post"}
      PROVE  UNCHANGED Lease!leaseVars
  BY <1>a, <1>b DEF Interrupted
<1>c. ASSUME UNCHANGED claimed, tick.at \in {"moot", "post"}, tick'.at \notin {"moot", "post"}
      PROVE  Lease!OnceNext
  <2>1. alert \in Alerts /\ Interrupted = {alert} /\ alert \in Rows /\ Interrupted' = {}
    BY <1>c, HeldRow DEF Interrupted
  <2>2. Rows' = Rows
    BY <1>c DEF Rows
  <2>3. "tick" \in Holders[alert] /\ Holders' = [Holders EXCEPT ![alert] = @ \ {"tick"}]
    BY <2>1 DEF Holders
  <2>4. (Rows \ Interrupted)' = (Rows \ Interrupted) \cup {alert}
    BY <2>1, <2>2
  <2>5. Lease!Close("tick", alert)
    BY <2>3, <2>4 DEF Lease!Close
  <2>6. QED
    BY <2>1, <2>5 DEF Lease!OnceNext
<1>1. CASE StartTick \/ EndTick
  BY <1>1, <1>b DEF StartTick, EndTick, NoTick
<1>2. ASSUME NEW l \in Locations, PassOver(l) PROVE UNCHANGED Lease!leaseVars
  <2>1. tick'.at = "next"
    BY <1>2 DEF PassOver, Between
  <2>2. QED
    BY <1>2, <1>b, <2>1 DEF PassOver
<1>3. ASSUME NEW l \in tick.todo, NEW index, NEW summary, Evaluate(l, index, summary)
      PROVE  UNCHANGED Lease!leaseVars
  <2>1. tick \in Between /\ tick.at = "next" /\ UNCHANGED claimed
    BY <1>3 DEF Evaluate
  <2>2. tick'.at \in {"next", "claim"}
    BY <1>3, <2>1, TurnTick DEF Evaluate, Decide, Between, Kinds
  <2>3. QED
    BY <1>b, <2>1, <2>2
<1>4. CASE Claim
  <2>1. tick \in Busy /\ tick.at = "claim" /\ tick.kind \notin claimed[tick.location]
    BY <1>4 DEF Claim, DayInv, BusyInv
  <2>2. tick'.at \in {"moot", "post"} /\ tick'.location = tick.location /\ tick'.kind = tick.kind
    BY <1>4, <2>1 DEF Claim, Busy
  <2>3. /\ alert \in Alerts /\ alert \notin Rows /\ Interrupted = {} /\ Interrupted' = {alert}
    BY <2>1, <2>2, HeldRow DEF Interrupted
  <2>4. Rows' = Rows \cup {alert}
    <3>1. claimed' = [claimed EXCEPT ![tick.location] = @ \cup {tick.kind}]
      BY <1>4 DEF Claim
    <3>2. tick.location \in Locations /\ tick.kind \in Kinds
      BY <2>1 DEF Busy
    <3>3. QED
      BY <3>1, <3>2 DEF Rows, Alerts, TypeOK
  <2>5. Holders[alert] = {} /\ Holders' = [Holders EXCEPT ![alert] = {"tick"}]
    BY <2>3 DEF Holders
  <2>6. alert \notin Rows \ Interrupted /\ (Rows \ Interrupted)' = Rows \ Interrupted
    BY <2>3, <2>4
  <2>7. Lease!Acquire("tick", alert)
    BY <2>5, <2>6 DEF Lease!Acquire
  <2>8. QED
    BY <2>3, <2>7 DEF Lease!OnceNext
<1>5. CASE ClaimMoot
  <2> DEFINE moot_alert == <<tick.location, "prewarn">>
  <2>1. /\ tick \in Busy /\ tick.at = "moot" /\ tick.location \in Locations
        /\ tick.kind = "crossing" /\ claimed[tick.location] = {"crossing"}
    BY <1>5 DEF ClaimMoot, DayInv, BusyInv, Busy
  <2>2. tick'.at = "post" /\ tick'.location = tick.location /\ tick'.kind = tick.kind
    BY <1>5, <2>1 DEF ClaimMoot, Busy
  <2>3. Interrupted = {alert} /\ Interrupted' = {alert} /\ moot_alert # alert
    BY <2>1, <2>2 DEF Interrupted
  <2>4. moot_alert \in Alerts /\ moot_alert \notin Rows /\ Rows' = Rows \cup {moot_alert}
    BY <1>5, <2>1 DEF ClaimMoot, Rows, Alerts, Kinds, TypeOK
  <2>5. Holders[moot_alert] = {} /\ Holders' = Holders
    BY <2>3, <2>4 DEF Holders
  <2>6. Lease!Forgo(moot_alert)
    BY <2>3, <2>4, <2>5 DEF Lease!Forgo
  <2>7. QED
    BY <2>4, <2>6 DEF Lease!OnceNext
<1>6. CASE ClaimRaises \/ PostOk \/ PostFails
  <2>1. tick \in Busy /\ tick' = Onward /\ UNCHANGED claimed
    BY <1>6 DEF ClaimRaises, PostOk, PostFails
  <2>2. tick'.at = "next"
    BY <2>1, OnwardTick DEF Between
  <2>3. QED
    BY <1>b, <1>c, <2>1, <2>2
<1>7. CASE Pass \/ \E c \in Configs : Reload(c)
  BY <1>7, <1>a DEF Pass, Reload, Interrupted
<1>8. ASSUME NEW c \in Configs, Restart(c) PROVE Lease!OnceNext
  <2>1. Interrupted' = {} /\ Rows' = Rows /\ Interrupted \subseteq Rows
    BY <1>8, HeldRow DEF Restart, Interrupted, NoTick, Rows
  <2>2. {a \in Alerts : Holders[a] # {}} = Interrupted
    BY <2>1 DEF Holders, Rows
  <2>3. Holders' = [a \in Alerts |-> {}]
    BY <2>1 DEF Holders
  <2>4. (Rows \ Interrupted)' = (Rows \ Interrupted) \cup Interrupted
    BY <2>1
  <2>5. Lease!Die
    BY <2>2, <2>3, <2>4 DEF Lease!Die
  <2>6. QED
    BY <2>5 DEF Lease!OnceNext
<1>9. CASE UNCHANGED vars
  BY <1>9, <1>a DEF vars, Interrupted
<1>10. QED
  BY <1>1, <1>2, <1>3, <1>4, <1>5, <1>6, <1>7, <1>8, <1>9 DEF Next

(* The uv_alerts rows are leases that are never given back: over reloads,    *)
(* failing posts and restarts every alert of a location is worked on once.   *)
THEOREM LeaseKept == Spec => ImplementsLease
<1>1. Init => Lease!Init
  BY DEF Init, NoTick, Lease!Init, Holders, Interrupted, Rows, Alerts
<1>2. QED
  BY <1>1, LeaseStep, DayCorrect, PTL DEF Spec, Lease!OnceSpec, ImplementsLease

(* What such a lease promises by itself: one holder, closed for good, and    *)
(* nothing that was taken is ever free again.                                *)
THEOREM OncePromise ==
  Lease!OnceSpec => []Lease!Exclusive /\ Lease!ClosedForGood /\ Lease!NeverFreed
<1> DEFINE Inv == /\ Holders \in [Alerts -> SUBSET {"tick"}]
                  /\ Lease!Exclusive
<1> USE DEF Lease!Exclusive
<1>1. Lease!Init => Inv
  BY DEF Lease!Init
<1>2. Inv /\ [Lease!OnceNext]_(Lease!leaseVars) => Inv'
  <2> SUFFICES ASSUME Inv, [Lease!OnceNext]_(Lease!leaseVars) PROVE Inv'
    OBVIOUS
  <2>1. ASSUME NEW a \in Alerts, Lease!Forgo(a) PROVE Inv'
    BY <2>1 DEF Lease!Forgo
  <2>2. ASSUME NEW a \in Alerts, Lease!Acquire("tick", a) PROVE Inv'
    BY <2>2 DEF Lease!Acquire
  <2>3. ASSUME NEW a \in Alerts, Lease!Close("tick", a) PROVE Inv'
    BY <2>3 DEF Lease!Close
  <2>4. CASE Lease!Die
    BY <2>4 DEF Lease!Die
  <2>5. CASE UNCHANGED Lease!leaseVars
    BY <2>5 DEF Lease!leaseVars
  <2>6. QED
    BY <2>1, <2>2, <2>3, <2>4, <2>5 DEF Lease!OnceNext
<1>3. Inv /\ [Lease!OnceNext]_(Lease!leaseVars) =>
        [Rows \ Interrupted \subseteq (Rows \ Interrupted)']_(Lease!leaseVars)
  BY DEF Lease!OnceNext, Lease!Acquire, Lease!Forgo, Lease!Close, Lease!Die, Lease!leaseVars
<1>4. Inv /\ [Lease!OnceNext]_(Lease!leaseVars) =>
        [Lease!Taken \subseteq Lease!Taken']_(Lease!leaseVars)
  BY DEF Lease!Taken, Lease!OnceNext, Lease!Acquire, Lease!Forgo, Lease!Close, Lease!Die,
         Lease!leaseVars
<1>5. QED
  BY <1>1, <1>2, <1>3, <1>4, PTL DEF Lease!OnceSpec, Lease!ClosedForGood, Lease!NeverFreed
=============================================================================
