------------------------------ MODULE MCFleet -------------------------------
(***************************************************************************)
(* Small fleets, one configuration per question.                           *)
(***************************************************************************)
EXTENDS FrontierFleet

Kinds(e, b, f, m) ==
  [k \in CloudKind |-> CASE k = "Estimator" -> e   [] k = "Controller" -> b
                         [] k = "Feedforward" -> f [] k = "Merger" -> m]

Never == 999
Table(e, b, f) == [t \in Task |-> Kinds(e, b, f, Never)[t[2]]]
Vehicle0(e, b, f) == [t \in Task |-> IF t[1] = 0 THEN Kinds(e, b, f, Never)[t[2]] ELSE Never]
Vehicles01(e, b) == [t \in Task |-> IF t[1] <= 1 THEN Kinds(e, b, Never, Never)[t[2]] ELSE Never]

Calm == [zoneFlagged |-> FALSE, critical |-> FALSE, urgency |-> 0,
         ttpnr |-> 500, ttv |-> 500, clearance |-> 0, ageRecent |-> 0]
Scored(pnr, viol, urg) == [Calm EXCEPT !.ttpnr = pnr, !.ttv = viol, !.urgency = urg]

\* Vehicle 2 releases nothing, and its view is of no use.
Views01(scores) == {[v \in Vehicle |-> IF v <= 1 THEN views[v] ELSE Calm] :
                      views \in [{0, 1} -> scores]}

\* EDF: one vehicle at utilisation 2/4 + 2/8 + 3/12 = 1, every phasing.
EdfConfig ==
  [policy |-> "edf", nCores |-> 1, overrun |-> "KillAndHold", duration |-> 48,
   period |-> Kinds(4, 8, 12, 12), execTicks |-> Kinds({2}, {2}, {2, 3}, {2}),
   offsets |-> {Vehicle0(e, b, f) : e \in 0 .. 3, b \in 0 .. 7, f \in 0 .. 11},
   views |-> [Vehicle -> {Calm}]]

\* Partitions: vehicle 1 has a core to itself and fills it, vehicles 0 and 2 share one and
\* overload it.
PartitionConfig ==
  [policy |-> "prm", nCores |-> 2, overrun |-> "KillAndHold", duration |-> 24,
   period |-> Kinds(4, 8, 8, 8), execTicks |-> Kinds({2}, {2, 4}, {2}, {2}),
   offsets |-> {Table(e, b, Never) : e \in 0 .. 3, b \in 0 .. 7},
   views |-> [Vehicle -> {Calm}]]

\* Estimator decimation: the Controller delays the Estimator jobs that are served.
EskipConfig ==
  [policy |-> "eskip", nCores |-> 1, overrun |-> "KillAndHold", duration |-> 48,
   period |-> Kinds(4, 3, 8, 8), execTicks |-> Kinds({2, 3}, {2}, {2}, {2}),
   offsets |-> {Vehicle0(e, b, Never) : e \in 0 .. 3, b \in 0 .. 2},
   views |-> [Vehicle -> {Calm}]]

\* Two cars whose danger and comfort change from tick to tick.
HybridConfig ==
  [policy |-> "hybrid", nCores |-> 1, overrun |-> "KillAndHold", duration |-> 13,
   period |-> Kinds(3, 4, 4, 4), execTicks |-> Kinds({2}, {2}, {2}, {2}),
   offsets |-> {Vehicles01(0, 0)},
   views |-> Views01({Scored(0, 0, 3), Scored(100, 160, 0), Scored(100, 200, 2),
                      Scored(200, 260, 1), Scored(500, 500, 0), Scored(500, 500, 2)})]

\* Frontier: two cars on one core that Estimator and Feedforward overload.
Pair(e, f) == [t \in Task |-> IF t[1] <= 1 THEN Kinds(e, Never, f, Never)[t[2]] ELSE Never]

Seen(flagged, crit, urg, pnr) ==
  [Calm EXCEPT !.zoneFlagged = flagged, !.critical = crit, !.urgency = urg, !.ttpnr = pnr,
               !.ttv = pnr, !.ageRecent = -1]

\* Nobody is endangered; cars enter and leave critical sections and change in urgency.
CalmConfig ==
  [policy |-> "frontier", nCores |-> 1, overrun |-> "KillAndHold", duration |-> 26,
   period |-> Kinds(4, 8, 6, 8), execTicks |-> Kinds({2}, {2}, {2, 3}, {2}),
   offsets |-> {Pair(0, 0), Pair(0, 1)},
   views |-> Views01({Seen(FALSE, FALSE, 1, 500), Seen(FALSE, TRUE, 0, 500)})]

\* Cars are endangered, and flagged, for a while.
EndangeredConfig ==
  [CalmConfig EXCEPT
     !.duration = 10,
     !.views = Views01({Seen(FALSE, FALSE, 0, 500), Seen(FALSE, TRUE, 2, 40),
                        Seen(TRUE, TRUE, 2, 30), Seen(TRUE, TRUE, 1, 500)})]

PolicyConfigs == [edf |-> EdfConfig, partition |-> PartitionConfig, eskip |-> EskipConfig,
                  hybrid |-> HybridConfig, calm |-> CalmConfig, endangered |-> EndangeredConfig]

\* A round trip beyond the cap; one car has a prediction between cap and horizon.
Slow(view) == [view EXCEPT !.ageRecent = 900]
SaturatedConfigs ==
  [aguard |-> [HybridConfig EXCEPT !.policy = "aguard",
     !.views = Views01({Slow(Scored(460, 480, 0)), Slow(Scored(500, 500, 2)),
                        Slow(Scored(300, 400, 1))})]]
=============================================================================
