--------------------------- MODULE CorePolicies -----------------------------
(***************************************************************************)
(* The arbitration policies (sched/policies): which of the fleet's ready   *)
(* cloud jobs get a core in a tick.  A policy is the sort key it gives a   *)
(* job; keys are compared lexicographically and end in the strict static   *)
(* order (period, vehicle, kind), so they are unique.                      *)
(*                                                                         *)
(* A job is a ReadyJob record.  ctx[v] holds what a policy reads of the    *)
(* view of vehicle v; for scores that have an oracle and an honest twin it *)
(* is the twin that the policy's InfoSet selects.                          *)
(***************************************************************************)
EXTENDS Integers, Sequences, FiniteSets

CONSTANTS
  Triage,        \* --triage: give up on cars past their point of no return
  GuardMs,       \* --guard: Hybrid's fixed emergency threshold
  FloorMs,       \* --floor: what the adaptive guard adds to the round trip
  MinTripMs,     \* round trip assumed before one is measured (60 in the code)
  GuardCapMs,    \* --guard-cap: largest adaptive guard
  FHeartbeat,    \* Frontier: Feedforward's heartbeat, in ticks
  FHeartbeatCrit,\* the same in critical sections
  RmAlloc,       \* Frontier: CPS_FRONTIER_RM_ALLOC
  SkipFactor     \* EskipProbe: k, every k-th Estimator release is served

KindRank == [Estimator |-> 1, Controller |-> 2, Feedforward |-> 3, Merger |-> 4]
CloudKind == DOMAIN KindRank

ASSUME PolicyAssumption ==
  /\ {Triage, RmAlloc} \subseteq BOOLEAN
  /\ {GuardMs, FloorMs, MinTripMs, GuardCapMs, FHeartbeat, FHeartbeatCrit} \subseteq Nat
  /\ SkipFactor \in Nat \ {0}

\* What the policies read of a VehicleView (times in ms, clearance in steps of the
\* predictor's grid, urgency as comfortUrgency ranks the cars).
Scores == [zoneFlagged : BOOLEAN, critical : BOOLEAN, urgency : Int,
           ttpnr : Nat, ttv : Nat, clearance : Int, ageRecent : Int]

Lesser(a, b) == IF a < b THEN a ELSE b
Greater(a, b) == IF a > b THEN a ELSE b

\* Lexicographic order on keys of equal length.
Precedes(x, y) ==
  \E i \in DOMAIN x : x[i] < y[i] /\ \A j \in 1 .. (i - 1) : x[j] = y[j]

\* std::sort by key, then the first min(nCores, n): the jobs that fewer than nCores
\* others precede.
Foremost(nCores, key) ==
  {r \in DOMAIN key :
     Cardinality({q \in DOMAIN key : Precedes(key[q], key[r])}) < nCores}

\* Fault: ties between vehicles are left to the order of the ready list's kinds.
KindBeforeVehicle(r) == <<r.period, KindRank[r.kind], r.vehicle>>

StaticOrder(r) == <<r.period, r.vehicle, KindRank[r.kind]>>

-----------------------------------------------------------------------------
(* Policies without context *)

RateMonotonic(ready, nCores) == Foremost(nCores, [r \in ready |-> StaticOrder(r)])

\* Fault: the newest job is served first.
LatestDeadlineFirst(ready, nCores) ==
  Foremost(nCores, [r \in ready |-> <<-r.deadlineStep, r.vehicle, KindRank[r.kind]>>])

Edf(ready, nCores) ==
  Foremost(nCores, [r \in ready |-> <<r.deadlineStep, r.vehicle, KindRank[r.kind]>>])

\* One core per partition of the vehicles; a core whose partition has no ready job idles.
PartitionedRM(ready, nCores) ==
  {r \in ready : \A q \in ready \ {r} :
     q.vehicle % nCores = r.vehicle % nCores => Precedes(StaticOrder(r), StaticOrder(q))}

\* Fault: bands are ignored.
ZoneBandless(ready, nCores) == Foremost(nCores, [r \in ready |-> StaticOrder(r)])

ZoneBand(ready, nCores) == Foremost(nCores, [r \in ready |-> <<r.band>> \o StaticOrder(r)])

\* Fault: the release index is taken from the deadline.
AllowedNextE(r) == (r.deadlineStep \div r.period) % SkipFactor = 0

AllowedE(r) == (r.releaseStep \div r.period) % SkipFactor = 0

EskipProbe(ready, nCores) ==
  Foremost(nCores, [r \in {q \in ready : q.kind = "Estimator" => AllowedE(q)} |-> StaticOrder(r)])

-----------------------------------------------------------------------------
(* Policies that read the views *)

ContextAware(ready, nCores, ctx) ==
  Foremost(nCores, [r \in ready |-> <<-ctx[r.vehicle].urgency>> \o StaticOrder(r)])

Unsavable(v, ctx) == Triage /\ ctx[v].ttpnr = 0

\* Unsavable cars get the key 1e18, beyond every prediction.
TimeToUnsafe(ready, nCores, ctx) ==
  Foremost(nCores, [r \in ready |->
    LET v == r.vehicle IN
      <<IF Unsavable(v, ctx) THEN 1 ELSE 0, ctx[v].ttpnr, ctx[v].ttv>> \o StaticOrder(r)])

\* Fault: the calmest car comes first.
ComfortReversed(v, ctx) == <<1, ctx[v].urgency, 0, 0>>

Comfort(v, ctx) == <<1, -ctx[v].urgency, 0, 0>>
Hopeless == <<2, 0, 0, 0>>

Hybrid(ready, nCores, ctx) ==
  Foremost(nCores, [r \in ready |->
    LET v == r.vehicle IN
      (CASE Unsavable(v, ctx) -> Hopeless
         [] ~Unsavable(v, ctx) /\ ctx[v].ttpnr < GuardMs -> <<0, ctx[v].ttpnr, ctx[v].ttv, 0>>
         [] OTHER -> Comfort(v, ctx)) \o StaticOrder(r)])

\* The guard covers the car's own measured command round trip.
Theta(v, ctx) == Lesser(GuardCapMs, FloorMs + Greater(MinTripMs, ctx[v].ageRecent))

Endangered(v, ctx) == ctx[v].ttpnr < Theta(v, ctx)

Emergency(v, ctx) == <<0, ctx[v].ttpnr, ctx[v].clearance, ctx[v].ttv>>

AdaptiveGuard(ready, nCores, ctx) ==
  Foremost(nCores, [r \in ready |->
    LET v == r.vehicle IN
      (CASE Unsavable(v, ctx) -> Hopeless
         [] ~Unsavable(v, ctx) /\ Endangered(v, ctx) -> Emergency(v, ctx)
         [] OTHER -> Comfort(v, ctx)) \o StaticOrder(r)])

-----------------------------------------------------------------------------
(* Frontier: the adaptive guard with Feedforward demoted, and a heartbeat; fDemote is
   unset by CPS_FRONTIER_NO_FDEMOTE *)

\* The tick as Frontier estimates it: the latest release among the ready jobs.
NowEst(ready) ==
  IF ready = {} THEN 0
  ELSE CHOOSE t \in {r.releaseStep : r \in ready} :
         \A r \in ready : r.releaseStep <= t

\* Fault: Feedforward is demoted in the zones too (the policy's ninth version).
DemotedEverywhere(r, ctx, fDemote) == r.kind = "Feedforward" /\ fDemote

\* Fault: the ablation toggle is ignored.
DemotedAlways(r, ctx, fDemote) == r.kind = "Feedforward" /\ ~ctx[r.vehicle].zoneFlagged

Demoted(r, ctx, fDemote) ==
  r.kind = "Feedforward" /\ fDemote /\ ~ctx[r.vehicle].zoneFlagged

\* Fault: the heartbeat counts from the job's own release.
StarveFromRelease(r, ready, lastFDone) == NowEst(ready) - r.releaseStep

\* lastFDone[v]: when Frontier last saw v's Feedforward complete.
Starve(r, ready, lastFDone) == NowEst(ready) - lastFDone[r.vehicle]

Starved(r, ready, ctx, lastFDone, fDemote) ==
  /\ Demoted(r, ctx, fDemote)
  /\ Starve(r, ready, lastFDone) >
       IF ctx[r.vehicle].critical THEN FHeartbeatCrit ELSE FHeartbeat

\* A starved job leads the comfort tier, the longest starved first (k1 = -1e6 - starve
\* lies below every comfort key); the second component stands for that offset.
FrontierKey(r, ready, ctx, lastFDone, fDemote) ==
  LET v == r.vehicle
      frank == IF Demoted(r, ctx, fDemote) THEN 1 ELSE 0
  IN CASE Starved(r, ready, ctx, lastFDone, fDemote) ->
            <<1, 0, -Starve(r, ready, lastFDone), 0, 0, 1>>
       [] RmAlloc /\ ~Starved(r, ready, ctx, lastFDone, fDemote) -> <<1, 1, 0, 0, 0, frank>>
       [] ~RmAlloc /\ ~Demoted(r, ctx, fDemote) /\ Endangered(v, ctx) ->
            <<0, 1, ctx[v].ttpnr, ctx[v].clearance, ctx[v].ttv, 0>>
       [] OTHER -> <<1, 1, -ctx[v].urgency, 0, 0, frank>>

Frontier(ready, nCores, ctx, lastFDone, fDemote) ==
  Foremost(nCores,
    [r \in ready |-> FrontierKey(r, ready, ctx, lastFDone, fDemote) \o StaticOrder(r)])

\* Fault: a grant counts as a completion.
FDoneWhenGranted(chosen, ready, lastFDone) ==
  [v \in DOMAIN lastFDone |->
     IF \E r \in chosen : r.vehicle = v /\ r.kind = "Feedforward"
       THEN NowEst(ready) ELSE lastFDone[v]]

\* A granted Feedforward job with one tick left finishes now.
FDone(chosen, ready, lastFDone) ==
  [v \in DOMAIN lastFDone |->
     IF \E r \in chosen : r.vehicle = v /\ r.kind = "Feedforward" /\ r.remainingTicks <= 1
       THEN NowEst(ready) ELSE lastFDone[v]]
=============================================================================
