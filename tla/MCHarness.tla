----------------------------- MODULE MCHarness ------------------------------
(***************************************************************************)
(* Short laps, every track of a few curvatures, a plant that integrates    *)
(* its command twice; one configuration per question.                      *)
(***************************************************************************)
EXTENDS Instruments

NoDose == [target |-> -1, hold |-> 0, lead |-> 0]

\* A lane change is a step of the curvature; the first reference plays no part.
Params(half, pad, bridge) ==
  [sharp |-> 2, laneFf1 |-> 1, laneDelta |-> 2, half |-> half, pad |-> pad, bridge |-> bridge]

Quiet ==
  [lap |-> 8, ff0 |-> {0}, ff1 |-> {0}, zoneParams |-> Params(1, 1, 2),
   cars |-> 1, startOffsets |-> <<0>>, packZone |-> -1, minSpacing |-> 0, seeded |-> FALSE,
   align |-> 0, duration |-> 0, flagTicks |-> 2, extraVec |-> <<>>, flagWindow |-> 0,
   extraTarget |-> -1, extra |-> 0, fzone |-> NoDose, bzone |-> NoDose, fPeriod |-> 2,
   ages |-> {}]

\* Zones: every track of three curvatures.
Curvature == [Quiet EXCEPT !.lap = 7, !.ff0 = {-1, 0, 1}, !.zoneParams = Params(2, 1, 2)]

\* Seeds in any place, a longer lap.
Seeds == [Quiet EXCEPT !.lap = 9, !.ff1 = {0, -1}, !.zoneParams = Params(0, 1, 3),
                       !.flagTicks = 3, !.duration = 2]

\* Packed fleets, with and without room for all.
Packing(cars, spacing) ==
  [Seeds EXCEPT !.zoneParams = Params(0, 0, 0), !.cars = cars, !.packZone = 3,
                !.minSpacing = spacing, !.duration = 0]

\* Random draws, spaced and unspaced.
Draw(cars, spacing) ==
  [Quiet EXCEPT !.lap = 11, !.cars = cars, !.startOffsets = <<>>, !.seeded = TRUE,
                !.minSpacing = spacing]

\* One car whose commands latch with ages 0 to 2.
Latching == [Quiet EXCEPT !.duration = 9, !.ages = {0, 1, 2}]

\* A car on a bend, and poles that are shoved.
Driven(lap, ff0, ticks) == [Quiet EXCEPT !.lap = lap, !.ff0 = ff0, !.duration = ticks]

\* Two cars through zones, measured.
Measured == [Packing(2, 1) EXCEPT !.lap = 4, !.ff0 = {1}, !.duration = 3]

HarnessConfigs ==
  [curvature |-> Curvature, seeds |-> Seeds, pack3 |-> [Packing(3, 2) EXCEPT !.lap = 12],
   pack4 |-> Packing(4, 2), draw3 |-> Draw(3, 3), draw2 |-> Draw(2, 6), latching |-> Latching,
   car |-> Driven(2, {0, 1}, 6), coarse |-> Driven(2, {0, 1}, 5), pole |-> Driven(2, {0}, 6),
   measured |-> Measured]

-----------------------------------------------------------------------------
(* The plant: error and rate, integers; the command works against the error. *)

Pushed(x, u, r) == <<x[1] + x[2] - u + r, x[2] - u + r>>
Lateral(x) == x[1]
Lead(x) == x[1] + x[2]
Still == <<0, 0>>

PredictorParams ==
  [horizon |-> 6, latency |-> 1, window |-> 6, grid |-> 1, authority |-> 2, block |-> 1,
   post |-> 2, settle |-> 2, computePnr |-> TRUE]

\* A plant nobody asks about.
Idle ==
  [plant |-> "lateral", shovePeriod |-> 5, shoveDur |-> 1, shoveForce |-> 1,
   params |-> [PredictorParams EXCEPT !.horizon = 1], refresh |-> 99, pnrRefresh |-> 99,
   staleness |-> 0, honest |-> FALSE, validate |-> FALSE, gateHorizon |-> 1, commands |-> {}]

CarPredicting ==
  [Idle EXCEPT !.params = PredictorParams, !.refresh = 2, !.pnrRefresh = 4, !.staleness = 2,
               !.honest = TRUE, !.validate = TRUE, !.gateHorizon = 5, !.commands = {-1, 1}]

\* Rollout steps of two ticks, in which a bend's or a shove's reference is held.
CoarsePredicting ==
  [CarPredicting EXCEPT !.params.horizon = 12, !.params.block = 2, !.params.grid = 4,
                        !.pnrRefresh = 2, !.honest = FALSE]

PolePredicting == [CarPredicting EXCEPT !.plant = "pole", !.validate = FALSE, !.shoveForce = -1,
                                        !.shovePeriod = 9, !.params.authority = 1,
                                        !.params.block = 2, !.params.horizon = 8]

HarnessPredicting ==
  [c \in DOMAIN HarnessConfigs |->
     CASE c = "car" -> CarPredicting [] c = "coarse" -> CoarsePredicting
       [] c = "pole" -> PolePredicting
       [] c = "measured" -> [CarPredicting EXCEPT !.honest = FALSE, !.refresh = 1, !.commands = {},
                                              !.params.horizon = 3]
       [] OTHER -> Idle]

NoMeasure ==
  [tauCrit |-> 2, budgets |-> [z \in 0 .. 3 |-> 2], tau |-> <<100>>, dataAges |-> {-1},
   ffAges |-> {-1}, ladder |-> <<>>]

HarnessMeasuring ==
  [c \in DOMAIN HarnessConfigs |->
     IF c = "measured"
       THEN [tauCrit |-> 3, budgets |-> [z \in 0 .. 3 |-> 5 - z], tau |-> <<100, 50, 150>>,
             dataAges |-> {-1, 3}, ffAges |-> {-1, 3}, ladder |-> <<0, 2>>]
     ELSE NoMeasure]
=============================================================================
