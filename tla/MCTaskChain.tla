---------------------------- MODULE MCTaskChain -----------------------------
(***************************************************************************)
(* Small task sets for TaskChain.  A kind that a run does not ask about is *)
(* given a first release beyond the end of the run.                        *)
(***************************************************************************)
EXTENDS TaskChain

Kinds(s, e, b, f, m, a) ==
  [k \in TaskKind |->
     CASE k = "Sensor" -> s      [] k = "Estimator" -> e [] k = "Controller" -> b
       [] k = "Feedforward" -> f [] k = "Merger" -> m    [] k = "Actuator" -> a]

Never == 99

NoZone == [zoneFlagged |-> FALSE, extraNetDelay |-> 0,
           fzHold |-> 0, fzDelta |-> 0, bzHold |-> 0]
OnlyNoZone == {NoZone}

Exec2 == Kinds({2}, {2}, {2}, {2}, {2}, {2})
OneTick == {1}

\* Overrunning jobs, and packets on both links that their successors overtake: the delays
\* differ by more than the Sensor's and the Merger's period.  The Actuator starts when a
\* late command can already have been overtaken.
ReorderDelays == {1, 6}
ReorderPeriod == Kinds(4, 4, 6, 4, 4, 2)
ReorderOffset == Kinds(0, 2, 4, Never, 4, 10)

\* Controller and Feedforward under the zone's publication holds.
HoldPeriod == Kinds(3, 3, 4, 4, 4, 5)
HoldOffset == Kinds(Never, Never, 1, 0, Never, Never)
HoldExec == Kinds({2}, {2}, {2}, {2, 3}, {2}, {2})
DoseZone == [NoZone EXCEPT !.zoneFlagged = TRUE,
                           !.fzHold = 8, !.fzDelta = 1, !.bzHold = 5]
DoseViews == {NoZone, DoseZone}
=============================================================================
