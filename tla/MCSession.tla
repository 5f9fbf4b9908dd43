----------------------------- MODULE MCSession ------------------------------
(***************************************************************************)
(* Runs of a few ticks, recordings of a few frames; one invocation of the  *)
(* program per question.                                                   *)
(***************************************************************************)
EXTENDS Session

In(ff0, velocity) == [ff0 |-> ff0, ff1 |-> 0, velocity |-> velocity]

\* What an earlier program has saved: two cars, three frames.
OldFrame(v, i) ==
  [t |-> 2 * i - 2, ref |-> (2 * i + v) % 3, error |-> i % 3, rolling |-> i,
   flags |-> {"soft"}, phys |-> 2 * i - 2]
OldSummary == [violations |-> 1, softPct |-> 40, hard |-> 1, maxRolling |-> 3, oldest |-> 7,
               closest |-> 4]
OldRecording(kind) ==
  [version |-> 5, plant |-> [kind |-> kind, bounds |-> TRUE], offsets |-> <<2, 0>>,
   meta |-> [cars |-> 2, decimation |-> 2, duration |-> 5],
   summary |-> <<OldSummary, [OldSummary EXCEPT !.hard = 0]>>,
   frames |-> [v \in 1 .. 2 |-> [i \in 1 .. 3 |-> OldFrame(v, i)]]]

Headless ==
  [mode |-> "headless", cars |-> 1, duration |-> 5, decimation |-> 2, refresh |-> 2,
   reference |-> <<In(0, 12), In(1, 13), In(1, 15)>>, offsets |-> <<1>>, fails |-> TRUE,
   pulses |-> SUBSET {"act_start", "act_fin"}, errors |-> {0, 1}, oldest |-> 5, closest |-> 3,
   was |-> OldRecording("lateral"), version |-> 5, save |-> TRUE, csv |-> TRUE, again |-> TRUE,
   kill |-> FALSE, keys |-> {}, select |-> 0, screenshotAt |-> 0, maxTicks |-> 1,
   maxAdvance |-> 1]

\* Pulses and references, nothing else.
Driving == [Headless EXCEPT !.csv = FALSE, !.again = FALSE, !.save = FALSE, !.errors = {0},
                            !.decimation = 5, !.fails = FALSE]
DrivingTwo == [Driving EXCEPT !.cars = 2, !.offsets = <<0, 2>>, !.duration = 3]

\* Errors of two cars; a file that may be cut off, and is replayed.
Erring == [Headless EXCEPT !.cars = 2, !.offsets = <<1, 0>>, !.pulses = {{}}, !.errors = {0, 2},
                           !.duration = 3, !.decimation = 1, !.again = FALSE, !.fails = FALSE]
CutOff == [Erring EXCEPT !.errors = {2}, !.again = TRUE, !.kill = TRUE, !.csv = FALSE,
                         !.keys = {"bracket"}]
LongErring == [Headless EXCEPT !.pulses = {{}}, !.errors = {0, 1, 2}, !.save = FALSE,
                               !.again = FALSE]

\* A window on a run that is still simulated, and on the run when it is over.
Watched == [Headless EXCEPT !.mode = "live", !.cars = 2, !.offsets = <<1, 0>>, !.csv = FALSE,
              !.pulses = {{}}, !.errors = {0}, !.keys = {"space", "bracket", "arrows"},
              !.maxTicks = 2, !.duration = 4]

\* Files of every format, and of the next one.
Replayed(version) ==
  [Headless EXCEPT !.mode = "replay", !.version = version, !.kill = TRUE, !.save = FALSE,
                   !.csv = FALSE, !.again = FALSE, !.keys = {"bracket"}, !.maxAdvance = 2,
                   !.reference = <<In(0, 12)>>]
Pole == [Replayed(5) EXCEPT !.kill = FALSE, !.was = OldRecording("pole"),
           !.keys = {"space", "bracket", "arrows", "drag"}, !.maxAdvance = 3]
Pictured == [Replayed(5) EXCEPT !.screenshotAt = 2, !.kill = FALSE]
Misselected == [Pictured EXCEPT !.select = 2]

SessionConfigs ==
  [driving |-> Driving, driving2 |-> DrivingTwo, erring |-> Erring, longErring |-> LongErring,
   cutOff |-> CutOff, watched |-> Watched,
   v1 |-> Replayed(1), v2 |-> Replayed(2), v3 |-> Replayed(3), v4 |-> Replayed(4),
   v5 |-> Replayed(5), v6 |-> Replayed(6), pole |-> Pole, pictured |-> Pictured,
   misselected |-> Misselected]
=============================================================================
