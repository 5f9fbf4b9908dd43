---------------------------- MODULE FleetOnTrack ----------------------------
(***************************************************************************)
(* A fleet driving round a lap: what Simulation::buildViews tells the      *)
(* scheduler about every car from the zones around it and from the ages of *)
(* its recent commands.  The tick step is the one about to be simulated; a *)
(* command may be latched in it, and is seen from the next tick on.        *)
(***************************************************************************)
EXTENDS TrackZones, LatchAge

CONSTANT Config  \* the configurations of a run, by name

\* SimParams, as far as the track is concerned; times in ticks.  A dose is a publication
\* hold gated by a zone, -1 for every zone.
Dose == [target : -1 .. 3, hold : Nat, lead : Nat]

FleetConfiguration ==
  [lap : Nat \ {0}, ff0 : {s \in SUBSET Int : s # {}}, ff1 : {s \in SUBSET Int : s # {}},
   zoneParams : ZoneParams,
   cars : Nat \ {0}, startOffsets : Seq(Nat), packZone : -1 .. 3, minSpacing : Nat,
   seeded : BOOLEAN, align : 0 .. 100, duration : Nat, flagTicks : Nat,
   extraVec : Seq(Nat), flagWindow : Nat, extraTarget : -1 .. 3, extra : Nat,
   fzone : Dose, bzone : Dose, fPeriod : Nat \ {0}, ages : SUBSET Nat]

ASSUME FleetConfigAssumption == \A c \in DOMAIN Config : Config[c] \in FleetConfiguration

VARIABLES
  conf,     \* the name of the run's configuration
  track,    \* the references of the lap
  zones,    \* zone_: the zone of every tick of the lap
  offsets,  \* startOffset, per car
  step,     \* the tick about to be simulated
  window,   \* the latch-age window of the chain, per car
  latches   \* history: the latches [at, age] of the last two buckets' length, per car

trackVars == <<conf, track, zones, offsets>>
fleetTrackVars == <<trackVars, step, window, latches>>

This == Config[conf]
Car == 1 .. This.cars
P == This.zoneParams

\* Trajectory::zoneAt, for a car some ticks ahead of where it is.
ZoneNear(v, ahead) == zones[Wrap(step + offsets[v] + ahead, This.lap)]
ZoneOf(v) == ZoneNear(v, 0)

-----------------------------------------------------------------------------
(* buildViews *)

\* Fault: the window is tested at its ends only.
AtWindowEnds(v, w) == \E ahead \in {-w, w} : ZoneNear(v, ahead) = 3

\* The three-point test: here, and a window behind and ahead.
NearLaneChange(v, w) == \E ahead \in {0, -w, w} : ZoneNear(v, ahead) = 3

ZoneFlagged(v) == NearLaneChange(v, This.flagTicks)

\* Extra delay of the command packets: per zone with an optional window around z3, or in
\* one zone only.
ExtraNetDelay(v) ==
  IF Len(This.extraVec) = 4
    THEN This.extraVec[IF This.flagWindow > 0 /\ NearLaneChange(v, This.flagWindow)
                         THEN 4 ELSE ZoneOf(v) + 1]
    ELSE IF This.extraTarget >= 0 /\ ZoneOf(v) = This.extraTarget THEN This.extra ELSE 0

InDose(v, dose) ==
  /\ dose.hold > 0
  /\ \/ dose.target \in {-1, ZoneOf(v)}
     \/ dose.lead > 0 /\ dose.target >= 0 /\ ZoneNear(v, dose.lead) = dose.target

\* Feedforward's hold: whole periods as a hold, the rest as a delay; a dose below one
\* period still marks the hold active.
FDose(v) ==
  IF ~InDose(v, This.fzone) THEN [hold |-> 0, delta |-> 0]
  ELSE LET periods == (This.fzone.hold \div This.fPeriod) * This.fPeriod
       IN [hold |-> IF periods = 0 THEN 1 ELSE periods,
           delta |-> This.fzone.hold % This.fPeriod]

\* The Controller's hold has no lead.
BDose(v) == IF InDose(v, [This.bzone EXCEPT !.lead = 0]) THEN This.bzone.hold ELSE 0

ViewOf(v) ==
  [zoneFlagged |-> ZoneFlagged(v), extraNetDelay |-> ExtraNetDelay(v),
   fzHold |-> FDose(v).hold, fzDelta |-> FDose(v).delta, bzHold |-> BDose(v),
   ageRecent |-> RecentLatchAge(window[v], step)]

-----------------------------------------------------------------------------
(* One tick *)

\* Trajectory::load, then Simulation::start.
Init ==
  /\ conf \in DOMAIN Config
  /\ track \in Track(This.lap, This.ff0, This.ff1)
  /\ zones = ZonesOf(track, P)
  /\ offsets \in Offsets(This, zones)
  /\ step = 0
  /\ window = [v \in Car |-> EmptyWindow]
  /\ latches = [v \in Car |-> {}]

StillRecent(set, now) == {l \in set : now - l.at < 2 * LatchBucket}

\* The ages a car's chain may latch a command with in one tick; no latch is the empty set.
Latched == {{}} \cup {{age} : age \in This.ages}

Tick ==
  /\ step < This.duration
  /\ step' = step + 1
  /\ \E latched \in [Car -> Latched] :
       /\ window' = [v \in Car |->
                       IF latched[v] = {} THEN window[v]
                       ELSE Latch(window[v], step, CHOOSE age \in latched[v] : TRUE)]
       /\ latches' = [v \in Car |->
                        StillRecent(latches[v] \cup [at : {step}, age : latched[v]], step')]
  /\ UNCHANGED trackVars

-----------------------------------------------------------------------------
(* Properties *)

\* The ticks around i, as far as ticks away on either side.
Around(i, ticks) == {Wrap(i + k, This.lap) : k \in -ticks .. ticks}

LaneChange == {i \in Lap(This.lap) : zones[i] = 3}

Variation(s) == Max({track.ff0[i] : i \in s}) - Min({track.ff0[i] : i \in s})

\* Where the references move like a lane change.
Seed(i) == \/ Magnitude(track.ff1[i]) >= P.laneFf1
           \/ Variation(Around(i, Capped(P.half, This.lap))) >= P.laneDelta

\* The length of the arc of set that starts at i.
ArcFrom(i, set) == Min({k \in 1 .. This.lap : Wrap(i + k, This.lap) \notin set})
ArcStarts(set) == {i \in set : Wrap(i - 1, This.lap) \notin set}

\* computeTrackZones, against the curvature itself: all of the lap within the padding of a
\* lane-change seed is z3, so no z3 arc is shorter than twice the padding; what else is z3
\* fills short gaps; a gap that is short enough to be filled is left only where it runs into
\* the first z3 tick of the lap.
ZonesCoverManeuvers ==
  step = 0 =>
    LET n == This.lap
        pad == Capped(P.pad, n)
    IN /\ \A i \in Lap(n) : Seed(i) => Around(i, pad) \subseteq LaneChange
       /\ \A i \in ArcStarts(LaneChange) : ArcFrom(i, LaneChange) >= 2 * pad + 1
       /\ LET filler == {i \in LaneChange : ~ \E j \in Around(i, pad) : Seed(j)}
          IN \A i \in ArcStarts(filler) : ArcFrom(i, filler) <= Capped(P.bridge, n)
       /\ LET quiet == Lap(n) \ LaneChange
          IN \A i \in ArcStarts(quiet) :
               \/ ArcFrom(i, quiet) > Capped(P.bridge, n)
               \/ Wrap(i + ArcFrom(i, quiet), n) = Min(LaneChange)

\* A whole manoeuvre is one z3 segment (Trajectory.cpp:186-188): no quiet gap that is short
\* enough to be bridged is left.
ManeuverIsOneSegment ==
  LET quiet == Lap(This.lap) \ LaneChange
  IN LaneChange # {} =>
       \A i \in ArcStarts(quiet) : ArcFrom(i, quiet) > Capped(P.bridge, This.lap)

\* The shorter gap between two cars.
Gap(u, v) == Apart(offsets[u], offsets[v], This.lap)

Packed == This.packZone >= 0 /\ Len(This.startOffsets) # This.cars
Drawn == This.seeded /\ This.packZone = -1 /\ Len(This.startOffsets) # This.cars

\* Each car may claim its spacing on both sides: then pass 2 finds a place for every car.
RoomToPack == 2 * This.cars * This.minSpacing <= This.lap

StartsInZone(v) == zones[offsets[v]] = This.packZone

\* Every draw with a spacing belongs to the spaced class of fleets, over the lap seam too.
\* So do packed cars if there is room, but for two zone cars on either side of the seam.
OffsetsSpaced ==
  step = 0 =>
    \A u, v \in Car : u # v =>
      /\ (Drawn /\ This.cars * This.minSpacing < This.lap) => Gap(u, v) >= This.minSpacing
      /\ (Packed /\ RoomToPack) =>
           /\ Magnitude(offsets[u] - offsets[v]) >= This.minSpacing
           /\ Gap(u, v) < This.minSpacing => StartsInZone(u) /\ StartsInZone(v)

\* A packed fleet keeps the minimum gap all round the lap (Simulation.cpp:38-44, :105-106).
PackedSpaced ==
  Packed /\ RoomToPack => \A u, v \in Car : u # v => Gap(u, v) >= This.minSpacing

\* The three-point test of the zone flag is exact, a car is flagged when and only when a z3
\* tick lies within the window, as long as no z3 arc is shorter than the window: then every
\* car is flagged for the whole window before it enters.
FlagExact ==
  (\A i \in ArcStarts(LaneChange) : ArcFrom(i, LaneChange) >= This.flagTicks) =>
    \A v \in Car :
      ZoneFlagged(v) <=> Around(step + offsets[v], This.flagTicks) \cap LaneChange # {}

\* recentLatchAgeTicks never hides a latch of the last bucket length, and never shows a
\* stale one: what a policy adapts to is at least the age of every command latched since
\* then, and it is "no latch" or the age of a command latched less than two bucket lengths
\* ago (latches holds no others).
RecentLatchWindow ==
  \A v \in Car :
    LET shown == ViewOf(v).ageRecent IN
      /\ \A l \in latches[v] : step - l.at <= LatchBucket => shown >= l.age
      /\ shown # -1 => \E l \in latches[v] : l.age = shown
=============================================================================
