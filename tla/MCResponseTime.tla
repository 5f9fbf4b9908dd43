--------------------------- MODULE MCResponseTime ---------------------------
(***************************************************************************)
(* Fleets at the edge of what the analysis admits.                         *)
(***************************************************************************)
EXTENDS BandResponse

Kinds(e, b, f, m) ==
  [k \in CloudKind |-> CASE k = "Estimator" -> e   [] k = "Controller" -> b
                         [] k = "Feedforward" -> f [] k = "Merger" -> m]

Never == 999

Calm == [zoneFlagged |-> FALSE, critical |-> FALSE, urgency |-> 0,
         ttpnr |-> 500, ttv |-> 500, clearance |-> 0, ageRecent |-> 0]
Flagged == [Calm EXCEPT !.zoneFlagged = TRUE]

\* One vehicle, every phasing of its releases.  The Controller is delayed beyond what
\* an analysis without carry-in admits.
PhasedConfig ==
  [policy |-> "rm", nCores |-> 2, overrun |-> "KillAndHold", duration |-> 44,
   period |-> Kinds(4, 16, 5, 8), execTicks |-> Kinds({2}, {2}, {2}, {4}),
   offsets |-> {[t \in Task |-> IF t[1] = 0 THEN Kinds(e, b, f, m)[t[2]] ELSE Never] :
                  e \in 0 .. 3, b \in 0 .. 15, f \in 0 .. 4, m \in 0 .. 7},
   views |-> [Vehicle -> {Calm}]]

\* The harness's configuration in small: equal task sets, all released at tick 0.  The
\* fleet is overloaded, so that its last vehicles are killed.
FleetConfig ==
  [policy |-> "rm", nCores |-> 2, overrun |-> "KillAndHold", duration |-> 60,
   period |-> Kinds(10, 20, 20, 20), execTicks |-> Kinds({2}, {2}, {2, 6}, {2}),
   offsets |-> {[t \in Task |-> 0]}, views |-> [Vehicle -> {Calm}]]

\* Three cars of which any one may be flagged, one after the other; all are admitted but
\* for the last Mergers.
BandConfig ==
  [FleetConfig EXCEPT
     !.policy = "zband", !.duration = 62, !.execTicks = Kinds({2}, {2}, {4}, {4}),
     !.offsets = {[t \in Task |-> Kinds(0, Never, 0, 0)[t[2]]]},
     !.views = [Vehicle -> {Calm, Flagged}]]

ResponseConfigs == [phased |-> PhasedConfig, fleet |-> FleetConfig, band |-> BandConfig]

OneBand == [topK |-> 0, demoteF |-> FALSE]
OneElevated == [topK |-> 1, demoteF |-> TRUE]
ResponseAnalysis == [phased |-> OneBand, fleet |-> OneBand, band |-> OneElevated]

\* Two cars on one core, all admitted.
SmallBandConfigs ==
  [small |-> [BandConfig EXCEPT !.nCores = 1, !.execTicks = Kinds({2}, {2}, {2}, {2})]]
SmallBandAnalysis == [small |-> OneElevated]
=============================================================================
