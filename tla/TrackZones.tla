----------------------------- MODULE TrackZones -----------------------------
(***************************************************************************)
(* A lap cut into zones (Trajectory::computeTrackZones), and the start     *)
(* offsets of a fleet on it (Simulation::start, packZoneOffsets).  A lap   *)
(* is a ring of ticks; a car's place on it is the tick plus its offset.    *)
(***************************************************************************)
EXTENDS Integers, SequencesExt, FiniteSetsExt

\* ZoneParams.  Curvatures and thresholds are integers.
ZoneParams == [sharp : Nat, laneFf1 : Nat, laneDelta : Nat, half : Nat, pad : Nat, bridge : Nat]

\* The references of one lap.
Lap(n) == 0 .. n - 1
Track(n, Ff0, Ff1) == [lap : {n}, ff0 : [Lap(n) -> Ff0], ff1 : [Lap(n) -> Ff1]]

Wrap(i, n) == i % n
Magnitude(x) == IF x < 0 THEN -x ELSE x

\* A window or a range is never longer than half a lap.
Capped(ticks, n) == Min({ticks, n \div 2})

\* trackZoneFromFf0
ZoneFromFf0(ff0, p) == IF ff0 = 0 THEN 0 ELSE IF Magnitude(ff0) < p.sharp THEN 1 ELSE 2

\* trackZoneFromRefs
IsLaneSeed(ff1, delta, p) == Magnitude(ff1) >= p.laneFf1 \/ delta >= p.laneDelta

-----------------------------------------------------------------------------
(* Zones *)

\* Pop the back of a queue while it is dead, the front while it is.
PopBack(q, Dead(_)) == SubSeq(q, 1, Max({0} \cup {i \in DOMAIN q : ~Dead(q[i])}))
PopFront(q, Dead(_)) == SubSeq(q, Min({Len(q) + 1} \cup {i \in DOMAIN q : ~Dead(q[i])}), Len(q))

\* The sliding window's extremes: two queues of places, monotone in the curvature.  The lap
\* is extended by half a window at both ends.
CurvatureDelta(t, p) ==
  LET half == Capped(p.half, t.lap)
      ext(i) == t.ff0[Wrap(i - half, t.lap)]
      queues[right \in 0 .. t.lap + 2 * half - 1] ==
        LET before == IF right = 0 THEN [hi |-> <<>>, lo |-> <<>>] ELSE queues[right - 1]
            old(i) == i < right - 2 * half
            pushed(q, Beaten(_)) == PopFront(Append(PopBack(q, Beaten), right), old)
        IN [hi |-> pushed(before.hi, LAMBDA i : ext(i) <= ext(right)),
            lo |-> pushed(before.lo, LAMBDA i : ext(i) >= ext(right))]
  IN [center \in Lap(t.lap) |->
        LET q == queues[center + 2 * half] IN ext(Head(q.hi)) - ext(Head(q.lo))]

\* Fault: a range stops at the lap's ends.
ClippedRange(lo, hi, n) == Max({lo, 0}) .. Min({hi, n - 1})

\* addCircular
CircularRange(lo, hi, n) ==
  LET l == Wrap(lo, n)  r == Wrap(hi, n)
  IN IF hi - lo + 1 >= n THEN Lap(n)
     ELSE IF l <= r THEN l .. r ELSE (l .. n - 1) \cup (0 .. r)

\* Lane-change seeds, widened on both sides.
Padded(t, p) ==
  LET delta == CurvatureDelta(t, p)
      pad == Capped(p.pad, t.lap)
  IN UNION {CircularRange(i - pad, i + pad, t.lap) :
              i \in {j \in Lap(t.lap) : IsLaneSeed(t.ff1[j], delta[j], p)}}

\* The quiet ticks from i up to the next tick of lane.
QuietFrom(i, lane, n) ==
  LET len == Min({k \in 1 .. n : Wrap(i + k, n) \in lane})
  IN {Wrap(i + k, n) : k \in 0 .. len - 1}

\* Short quiet gaps are filled.  The walk begins at the first tick of a lane change; a gap
\* that runs into that tick again is left alone.
Bridged(lane, p, n) ==
  IF lane = {} \/ lane = Lap(n) THEN lane
  ELSE LET starts == {i \in Lap(n) \ lane : Wrap(i - 1, n) \in lane}
           runsInto(i) == Wrap(i + Cardinality(QuietFrom(i, lane, n)), n)
           filled == {i \in starts : /\ runsInto(i) # Min(lane)
                                     /\ Cardinality(QuietFrom(i, lane, n)) <= Capped(p.bridge, n)}
       IN lane \cup UNION {QuietFrom(i, lane, n) : i \in filled}

\* computeTrackZones: the zone of every tick of the lap.
ZonesOf(t, p) ==
  LET lane == Bridged(Padded(t, p), p, t.lap)
  IN [i \in Lap(t.lap) |-> IF i \in lane THEN 3 ELSE ZoneFromFf0(t.ff0[i], p)]

-----------------------------------------------------------------------------
(* Start offsets *)

\* The shorter way round between two places.
Apart(i, j, n) == LET d == Magnitude(i - j) IN Min({d, n - d})

\* packZoneOffsets, pass 1 at tick i: a zone tick, far enough from the zone car before it.
FillZone(s, i, zones, target, cars, spacing) ==
  IF Len(s.placed) = cars THEN s
  ELSE IF zones[i] = target /\ s.sinceZone >= spacing
         THEN [placed |-> Append(s.placed, i), sinceZone |-> 0]
         ELSE [s EXCEPT !.sinceZone = @ + 1]

\* Pass 1, over the ticks of the lap.
PlaceInZone(zones, target, cars, spacing) ==
  LET n == Cardinality(DOMAIN zones)
      walk[k \in 0 .. n] ==
        IF k = 0 THEN [placed |-> <<>>, sinceZone |-> spacing]
        ELSE FillZone(walk[k - 1], k - 1, zones, target, cars, spacing)
  IN walk[n].placed

\* Fault: pass 2 keeps its distance only from its own cars.
FillRestApartFromItself(s, i, zones, target, cars, spacing) ==
  IF /\ Len(s) < cars /\ zones[i] # target
     /\ \A k \in DOMAIN s : zones[s[k]] # target
                            => Apart(i, s[k], Cardinality(DOMAIN zones)) >= spacing
    THEN Append(s, i) ELSE s

\* Pass 2 at tick i: outside the zone, far enough from every car placed so far.
FillRest(s, i, zones, target, cars, spacing) ==
  IF /\ Len(s) < cars /\ zones[i] # target
     /\ \A k \in DOMAIN s : Apart(i, s[k], Cardinality(DOMAIN zones)) >= spacing
    THEN Append(s, i) ELSE s

\* Pass 2: the others on the rest of the lap.
PlaceOutside(zones, target, cars, spacing, placed) ==
  LET n == Cardinality(DOMAIN zones)
      walk[k \in 0 .. n] ==
        IF k = 0 THEN placed ELSE FillRest(walk[k - 1], k - 1, zones, target, cars, spacing)
  IN walk[n]

EvenSpread(cars, n) == [v \in 1 .. cars |-> ((v - 1) * n) \div cars]

\* A car for which there is no room keeps its place of the even spread.
PackZoneOffsets(zones, target, cars, ms) ==
  LET n == Cardinality(DOMAIN zones)
      spacing == Max({1, ms})
      packed == PlaceOutside(zones, target, cars, spacing,
                             PlaceInZone(zones, target, cars, spacing))
  IN IF \A i \in Lap(n) : zones[i] # target THEN EvenSpread(cars, n)
     ELSE [v \in 1 .. cars |-> IF v <= Len(packed) THEN packed[v] ELSE EvenSpread(cars, n)[v]]

\* A seeded draw: cars sorted points in the slack that the spacing leaves, or unspaced ones.
DrawnOffsets(cars, n, ms) ==
  IF ms > 0 /\ cars * ms < n
    THEN {[v \in 1 .. cars |-> pts[v] + (v - 1) * ms] :
            pts \in {q \in [1 .. cars -> 0 .. n - cars * ms - 1] :
                       \A v \in 1 .. cars - 1 : q[v] <= q[v + 1]}}
    ELSE [1 .. cars -> Lap(n)]

\* The even spread, drawn together by align percent.
AlignedSpread(cars, n, align) ==
  [v \in 1 .. cars |-> ((100 - align) * (v - 1) * n) \div (100 * cars)]

\* Simulation::start: the offsets that a configuration may start with.
Offsets(c, zones) ==
  LET n == Cardinality(DOMAIN zones)
  IN IF Len(c.startOffsets) = c.cars THEN {c.startOffsets}
     ELSE IF c.packZone \in 0 .. 3 THEN {PackZoneOffsets(zones, c.packZone, c.cars, c.minSpacing)}
     ELSE IF c.seeded THEN DrawnOffsets(c.cars, n, c.minSpacing)
     ELSE {AlignedSpread(c.cars, n, c.align)}
=============================================================================
