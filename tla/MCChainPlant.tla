---------------------------- MODULE MCChainPlant ----------------------------
(* Small task sets for the chain composed with its plants. *)
EXTENDS ChainPlant

Kinds(s, e, b, f, m, a) ==
  [k \in TaskKind |->
     CASE k = "Sensor" -> s      [] k = "Estimator" -> e [] k = "Controller" -> b
       [] k = "Feedforward" -> f [] k = "Merger" -> m    [] k = "Actuator" -> a]

Never == 99
Exec2 == Kinds({2}, {2}, {2}, {2}, {2}, {2})

NoZone == [zoneFlagged |-> FALSE, extraNetDelay |-> 0,
           fzHold |-> 0, fzDelta |-> 0, bzHold |-> 0]
OnlyNoZone == {NoZone}

\* The age path: Sensor, Estimator, Controller, Merger, Actuator.
PathPeriod == Kinds(2, 4, 4, 4, 4, 2)
PathOffset == Kinds(0, 0, 0, Never, 0, 0)
OneTick == {1}

\* Two sensor packets in flight; the stages start when the first one arrives.
FlightPeriod == Kinds(2, 2, 4, 4, 2, 2)
FlightOffset == Kinds(0, 4, 6, Never, 8, 8)
ThreeTicks == {3}

\* A zone that delays commands by more than a Merger period.
DelayViews == {NoZone, [NoZone EXCEPT !.extraNetDelay = 6]}

\* Feedforward and Controller under publication holds.
HoldPeriod == Kinds(2, 4, 4, 4, 4, 2)
HoldOffset == Kinds(Never, Never, 1, 0, Never, Never)
HoldExec == Kinds({2}, {2}, {2}, {2, 3}, {2}, {2})
DoseViews == {NoZone, [NoZone EXCEPT !.fzHold = 8, !.fzDelta = 1, !.bzHold = 5]}
=============================================================================
