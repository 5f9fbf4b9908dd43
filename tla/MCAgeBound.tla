----------------------------- MODULE MCAgeBound -----------------------------
(***************************************************************************)
(* A task set whose bound is reached within the run: each cloud stage is   *)
(* released in the last tick in which the register it reads is still old,  *)
(* and the in-vehicle tasks drift against the cloud's four ticks.          *)
(***************************************************************************)
EXTENDS AgeBound

Kinds(s, e, b, f, m, a) ==
  [k \in TaskKind |->
     CASE k = "Sensor" -> s      [] k = "Estimator" -> e [] k = "Controller" -> b
       [] k = "Feedforward" -> f [] k = "Merger" -> m    [] k = "Actuator" -> a]

Never == 999
MCPeriod == Kinds(3, 4, 4, 4, 4, 4)
MCOffset == Kinds(0, 0, 1, Never, 10, 4)
MCC == Kinds(2, 2, 2, 2, 2, 2)
MCExec == [k \in TaskKind |-> {2}]
MCResponse == Kinds(2, 3, 3, 4, 3, 2)
OneTick == {1}
NoZone == [zoneFlagged |-> FALSE, extraNetDelay |-> 0,
           fzHold |-> 0, fzDelta |-> 0, bzHold |-> 0]
OnlyNoZone == {NoZone}
=============================================================================
