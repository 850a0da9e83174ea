------------------------------ MODULE UvWindow ------------------------------
(***************************************************************************)
(* The protect window of a day: compute_uv (weather/uv.py) over the hourly *)
(* points a payload has of today's daylight.  Points are a function from   *)
(* instants to UV indices.  Instants are whole numbers; a crossing between *)
(* two points is rounded up to one, and a fall is rounded down.            *)
(***************************************************************************)
EXTENDS Integers, FiniteSets

CONSTANT None
ASSUME NoneAssumption == None \notin Int

Earliest(S) == CHOOSE t \in S : \A x \in S : t <= x
Latest(S) == CHOOSE t \in S : \A x \in S : x <= t

\* Neighbours in time: zip(points, points[1:]).
Pairs(p) == {w \in (DOMAIN p) \X (DOMAIN p) :
               /\ w[1] < w[2]
               /\ \A t \in DOMAIN p : t <= w[1] \/ w[2] <= t}

\* Where the line between two points reaches the threshold on its way up, or down.
UpAt(p, w, threshold) ==
  w[2] - ((w[2] - w[1]) * (p[w[2]] - threshold)) \div (p[w[2]] - p[w[1]])
DownAt(p, w, threshold) ==
  w[1] + ((w[2] - w[1]) * (p[w[1]] - threshold)) \div (p[w[1]] - p[w[2]])

Rises(p, threshold) == {w \in Pairs(p) : p[w[1]] < threshold /\ threshold <= p[w[2]]}
Falls(p, threshold) == {w \in Pairs(p) : p[w[1]] >= threshold /\ threshold > p[w[2]]}

\* _first_up_cross: the first rise; a first point above it counts if there is none.
FirstUpCross(p, threshold) ==
  IF Rises(p, threshold) # {}
    THEN Earliest({UpAt(p, w, threshold) : w \in Rises(p, threshold)})
  ELSE IF DOMAIN p # {} /\ p[Earliest(DOMAIN p)] >= threshold
    THEN Earliest(DOMAIN p)
  ELSE None

\* Mutant of FirstDownCrossAfter: the first fall of the day.
FirstDownCross(p, threshold, start) ==
  LET crosses == {DownAt(p, w, threshold) : w \in Falls(p, threshold)}
  IN IF crosses = {} THEN None ELSE Earliest(crosses)

\* _first_down_cross_after: the first fall that is not before start.
FirstDownCrossAfter(p, threshold, start) ==
  LET late == {w \in Falls(p, threshold) : start <= w[2] /\ start <= DownAt(p, w, threshold)}
  IN IF late = {} THEN None ELSE Earliest({DownAt(p, w, threshold) : w \in late})

\* The first fall after start, or else the last point.
WindowEnd(p, threshold, start) ==
  LET down == FirstDownCrossAfter(p, threshold, start)
  IN IF down = None \/ down < start THEN Latest(DOMAIN p) ELSE down

\* max(points, key=uvi): the first of the highest.
PeakTime(p) == Earliest({t \in DOMAIN p : \A x \in DOMAIN p : p[x] <= p[t]})

\* compute_uv, of which the monitor reads these three.
Summary(p, threshold) ==
  LET start == FirstUpCross(p, threshold) IN
  [crossing |-> start,
   end |-> IF start = None THEN None ELSE WindowEnd(p, threshold, start),
   peak |-> IF DOMAIN p = {} THEN None ELSE PeakTime(p)]

(* The window is not reversed, lies among the points, and every point in it *)
(* is at or above the threshold; without a window every point is below it.  *)
ProtectWhole(p, threshold) ==
  LET s == Summary(p, threshold) IN
  IF s.crossing = None
    THEN \A t \in DOMAIN p : p[t] < threshold
    ELSE /\ s.crossing <= s.end
         /\ s.end <= Latest(DOMAIN p)
         /\ \A t \in DOMAIN p : s.crossing <= t /\ t <= s.end => p[t] >= threshold
=============================================================================
