------------------------- MODULE SessionProofs -------------------------
(***************************************************************************)
(* The run of the program from main() to its exit, for every number of     *)
(* cars, every lap, every duration, every schedule of pulses and whatever  *)
(* keys are pressed.                                                       *)
(*                                                                         *)
(* The pulses.  A run implements PulsedPlant: every tick every plant is    *)
(* driven once with the pulses and the references of that tick, since the  *)
(* wrapper's memory and the component's inputs agree between two calls.    *)
(*                                                                         *)
(* The file.  What save() writes and load() reads: the layout is a         *)
(* flattened sequence of pieces, each at an offset that is known, and a    *)
(* prefix of it yields nothing but the recording's own items.              *)
(*                                                                         *)
(* The window.  The frame in view exists, and the cached overlay is that   *)
(* of the car and of the frame it was computed for.                        *)
(*                                                                         *)
(* The metrics.  The ring holds the costs of the latest samples, whose     *)
(* sums do not depend on an order, and the summary is that of all frames.  *)
(***************************************************************************)
EXTENDS Session, Lemmas, TLAPS

\* A component and a run have the fields they start with; metrics and counts are of no
\* concern here.
ComponentLike(f) ==
  /\ f = [time |-> f.time, inputs |-> f.inputs, triggers |-> f.triggers, gains |-> f.gains,
          metrics |-> f.metrics]
  /\ f.time \in Nat /\ f.inputs \in Inputs /\ f.triggers \in SUBSET Trigger

RunLike(s) ==
  /\ s = [step |-> s.step, finalized |-> s.finalized, left |-> s.left, hard |-> s.hard,
          maxRolling |-> s.maxRolling]
  /\ s.step \in Nat

Wrapper == [inputsInitialized : BOOLEAN, inputs : Inputs,
            triggersInitialized : BOOLEAN, triggers : SUBSET Trigger]

\* What the plant has and what it was told, up to the velocity that the FMU ignores.
Close(has, told) ==
  /\ has["ff0"] = told["ff0"] /\ has["ff1"] = told["ff1"]
  /\ told["velocity"] - has["velocity"] \in -Tol .. Tol

\* The component of a car is where its wrapper believes it is.
Synced(f, w) ==
  /\ f.gains = "documented"
  /\ w.triggersInitialized => f.triggers = w.triggers
  /\ w.inputsInitialized => Close(f.inputs, w.inputs)

Told(v) ==
  /\ wrapper[v].inputsInitialized
  /\ wrapper[v].inputs = asked[v].inputs
  /\ asked[v].at = sim.step
  /\ asked[v].triggers \in SUBSET Trigger

DriveInv ==
  /\ conf \in DOMAIN Config
  /\ RunLike(sim)
  /\ DOMAIN fmu = Car /\ wrapper \in [Car -> Wrapper]
  /\ \A v \in Car : /\ ComponentLike(fmu[v])
                    /\ fmu[v].time = sim.step
                    /\ Synced(fmu[v], wrapper[v])
                    /\ pc = "advance" => Told(v)

-----------------------------------------------------------------------------
(* The component and its wrapper *)

\* A component that has just been initialised agrees with a new wrapper: the
\* wrapper claims to know nothing (FmuInstance::initialize).
LEMMA FreshPair ==
  /\ ComponentLike(Initialized)
  /\ Initialized.time = 0 /\ Initialized.gains = "documented"
  /\ NewWrapper \in Wrapper
  /\ ~NewWrapper.inputsInitialized /\ ~NewWrapper.triggersInitialized
<1>1. /\ ComponentLike(NewComponent) /\ NewComponent.time = 0
  BY DEF ComponentLike, NewComponent, Inputs
<1>2. ASSUME NEW f, ComponentLike(f)
      PROVE  LET g == [f EXCEPT !.gains = "documented"]
             IN ComponentLike(g) /\ g.time = f.time /\ g.gains = "documented"
  BY <1>2 DEF ComponentLike
<1>3. ASSUME NEW f, ComponentLike(f)
      PROVE  LET g == ExitInitialization(f)
             IN ComponentLike(g) /\ g.time = f.time /\ g.gains = f.gains
  <2> DEFINE reset == [n \in Input |-> IF n = "velocity" THEN f.inputs[n] ELSE 0]
  <2>1. reset \in Inputs
    BY <1>3 DEF ComponentLike, Inputs
  <2>2. ExitInitialization(f) = [f EXCEPT !.inputs = reset, !.triggers = {}, !.metrics = NewMetrics]
    BY DEF ExitInitialization
  <2> HIDE DEF reset
  <2> QED BY <1>3, <2>1, <2>2 DEF ComponentLike
<1>4. ComponentLike(Initialized) /\ Initialized.time = 0 /\ Initialized.gains = "documented"
  BY <1>1, <1>2, <1>3 DEF Initialized
<1>5. NewWrapper \in Wrapper
  BY DEF NewWrapper, Wrapper, Inputs
<1> QED BY <1>4, <1>5 DEF NewWrapper

\* setInputs writes what has changed, and fmi2SetReal ignores a small change of the
\* velocity against what it has, not against the last call: small changes do not add up.
LEMMA InputsArrive ==
  ASSUME NEW f, ComponentLike(f), NEW w \in Wrapper, NEW in \in Inputs,
         w.inputsInitialized => Close(f.inputs, w.inputs)
  PROVE  LET g == SetReal(f, ChangedInputs(w, in))
         IN /\ ComponentLike(g) /\ Close(g.inputs, in)
            /\ g.time = f.time /\ g.gains = f.gains /\ g.triggers = f.triggers
<1> DEFINE written == ChangedInputs(w, in)
           g == SetReal(f, written)
           level(n) == IF n \notin DOMAIN written THEN f.inputs[n]
                       ELSE IF n = "velocity" /\ Distance(f.inputs[n], written[n]) <= Tol
                              THEN f.inputs[n]
                       ELSE written[n]
<1>1. /\ DOMAIN written = {n \in Input : ~w.inputsInitialized \/ in[n] # w.inputs[n]}
      /\ \A n \in DOMAIN written : written[n] = in[n]
  BY DEF ChangedInputs
<1>2. f.inputs \in Inputs /\ w.inputs \in Inputs /\ Tol \in Nat
  BY FmuAssumption DEF ComponentLike, Wrapper
<1>3. g = [f EXCEPT !.inputs = [n \in Input |-> level(n)]]
  BY DEF SetReal
<1> HIDE DEF written
<1>4. \A n \in Input : level(n) \in Int
  BY <1>1, <1>2 DEF Inputs
<1>5. /\ g.inputs = [n \in Input |-> level(n)]
      /\ g.time = f.time /\ g.gains = f.gains /\ g.triggers = f.triggers
      /\ ComponentLike(g)
  BY <1>3, <1>4 DEF ComponentLike, Inputs
<1>6. Close(g.inputs, in)
  <2>1. level("ff0") = in["ff0"] /\ level("ff1") = in["ff1"]
    BY <1>1, <1>2 DEF Input, Inputs, Close
  <2>2. in["velocity"] - level("velocity") \in -Tol .. Tol
    BY <1>1, <1>2 DEF Input, Inputs, Close, Distance
  <2> QED BY <1>5, <2>1, <2>2 DEF Close, Input
<1> QED BY <1>5, <1>6 DEF g, written

\* applyTriggers writes what has changed, which leaves the component with the pulses of the
\* tick and with nothing else.
LEMMA PulsesArrive ==
  ASSUME NEW f, ComponentLike(f), NEW w \in Wrapper, NEW t \in SUBSET Trigger,
         w.triggersInitialized => f.triggers = w.triggers
  PROVE  LET g == SetBoolean(f, ChangedTriggers(w, t))
         IN /\ ComponentLike(g) /\ g.triggers = t
            /\ g.time = f.time /\ g.gains = f.gains /\ g.inputs = f.inputs
<1> DEFINE written == ChangedTriggers(w, t)
           g == SetBoolean(f, written)
           raised == {i \in Trigger : IF i \in DOMAIN written THEN written[i]
                                      ELSE i \in f.triggers}
<1>1. /\ DOMAIN written =
           {i \in Trigger : ~w.triggersInitialized \/ (i \in t) # (i \in w.triggers)}
      /\ \A i \in DOMAIN written : written[i] = (i \in t)
  BY DEF ChangedTriggers
<1>2. g = [f EXCEPT !.triggers = raised]
  BY DEF SetBoolean
<1> HIDE DEF written
<1>3. raised = t
  BY <1>1 DEF ComponentLike, Wrapper
<1>4. QED
  BY <1>2, <1>3 DEF ComponentLike, written

\* fmi2DoStep at the component's own time advances it by the tick and leaves the inputs.
LEMMA StepAdvances ==
  ASSUME NEW f, ComponentLike(f), NEW error
  PROVE  LET g == DoStep(f, f.time, error)
         IN /\ ComponentLike(g) /\ g.time = f.time + 1
            /\ g.inputs = f.inputs /\ g.triggers = f.triggers /\ g.gains = f.gains
<1> DEFINE m == IF f.time % MetricPeriod = 0
                  THEN Measured(f.metrics, error, f.inputs["ff0"]) ELSE f.metrics
           next == f.time + 1
           g == DoStep(f, f.time, error)
<1>1. g = [f EXCEPT !.time = next, !.metrics = m]
  BY DEF DoStep, ComponentLike
<1>2. next \in Nat
  BY DEF ComponentLike
<1> HIDE DEF m, next
<1>3. /\ ComponentLike(g) /\ g.time = next
      /\ g.inputs = f.inputs /\ g.triggers = f.triggers /\ g.gains = f.gains
  BY <1>1, <1>2 DEF ComponentLike
<1> QED BY <1>3 DEF g, next

\* Counting, recording and finishing leave the tick alone (recordFrame, finalizeSummary).
LEMMA RunAdvances ==
  ASSUME NEW s, RunLike(s), NEW r, NEW errors
  PROVE  LET recorded == Recorded(s, r, errors)
             stepped == [recorded[1] EXCEPT !.step = @ + 1, !.left = @ - 1]
             t == Finalized(stepped, recorded[2])[1]
         IN RunLike(t) /\ t.step = s.step + 1
<1> DEFINE recorded == Recorded(s, r, errors)
           counted == recorded[1]
           stepped == [counted EXCEPT !.step = @ + 1, !.left = @ - 1]
           t == Finalized(stepped, recorded[2])[1]
<1>1. RunLike(counted) /\ counted.step = s.step
  <2>1. CASE s.step % C.decimation # 0
    BY <2>1 DEF Recorded
  <2>2. CASE s.step % C.decimation = 0
    <3> DEFINE h == [v \in Car |-> IF errors[v] > 1 THEN s.hard[v] + 1 ELSE s.hard[v]]
               x == [v \in Car |-> IF Rolling(fmu'[v].metrics) > s.maxRolling[v]
                                     THEN Rolling(fmu'[v].metrics) ELSE s.maxRolling[v]]
    <3>1. counted = [s EXCEPT !.hard = h, !.maxRolling = x]
      BY <2>2 DEF Recorded
    <3> HIDE DEF h, x
    <3> QED BY <3>1 DEF RunLike
  <2> QED BY <2>1, <2>2
<1> HIDE DEF counted
<1>2. RunLike(stepped) /\ stepped.step = s.step + 1
  <2> DEFINE next == counted.step + 1
             left == counted.left - 1
  <2>1. stepped = [counted EXCEPT !.step = next, !.left = left]
    OBVIOUS
  <2>2. next \in Nat /\ next = s.step + 1
    BY <1>1 DEF RunLike
  <2> HIDE DEF next, left, stepped
  <2> QED BY <1>1, <2>1, <2>2 DEF RunLike
<1>3. t \in {stepped, [stepped EXCEPT !.finalized = TRUE]}
  BY DEF Finalized
<1> HIDE DEF stepped
<1>4. RunLike(t) /\ t.step = s.step + 1
  BY <1>2, <1>3 DEF RunLike
<1> QED BY <1>4 DEF t, stepped, counted, recorded

-----------------------------------------------------------------------------
(* The program *)

ConfigInputs == \A v \in Car : \A i \in Nat : C.reference[RefStep(v, i) + 1] \in Inputs

\* The references of a lap are defined at every tick of every car, over the seam too.
LEMMA LapCloses ==
  ASSUME conf \in DOMAIN Config
  PROVE  ConfigInputs
<1>1. /\ C.reference \in Seq(Inputs) /\ C.reference # <<>>
      /\ C.offsets \in [Car -> Nat]
  BY RunAssumption DEF RunConfiguration, C, Car
<1>2. Lap \in Nat \ {0}
  BY <1>1 DEF Lap
<1>3. ASSUME NEW v \in Car, NEW i \in Nat
      PROVE  RefStep(v, i) + 1 \in 1 .. Lap
  <2>1. i + C.offsets[v] \in Nat
    BY <1>1
  <2> QED BY <1>2, <2>1 DEF RefStep
<1>4. ASSUME NEW v \in Car, NEW i \in Nat
      PROVE  C.reference[RefStep(v, i) + 1] \in Inputs
  <2>1. PICK k \in 1 .. Len(C.reference) : k = RefStep(v, i) + 1
    BY <1>3 DEF Lap
  <2>2. C.reference[k] \in Inputs
    BY <1>1
  <2> QED BY <2>1, <2>2
<1> QED BY <1>4 DEF ConfigInputs

LEMMA DriveInvInit == Init => DriveInv
<1> SUFFICES ASSUME Init PROVE DriveInv
  OBVIOUS
<1>1. RunLike(sim) /\ sim.step = 0
  BY DEF Init, RunLike, NewSim
<1>2. pc # "advance"
  BY DEF Init
<1>3. \A v \in Car : fmu[v] = Initialized /\ wrapper[v] = NewWrapper
  BY DEF Init
<1>4. \A v \in Car : ComponentLike(fmu[v]) /\ fmu[v].time = sim.step /\ Synced(fmu[v], wrapper[v])
  BY <1>1, <1>3, FreshPair DEF Synced
<1>5. DOMAIN fmu = Car /\ wrapper \in [Car -> Wrapper]
  BY FreshPair DEF Init
<1> QED BY <1>1, <1>2, <1>4, <1>5 DEF Init, DriveInv

\* Between two ticks nothing else writes to a plant or to the tick counter.
Untouched ==
  /\ UNCHANGED <<conf, fmu, wrapper, asked, served>>
  /\ sim' = sim \/ \E ticks : sim' = [sim EXCEPT !.left = ticks]
  /\ pc # "advance" /\ pc' # "advance"

LEMMA UntouchedKeepsDriveInv == DriveInv /\ Untouched => DriveInv'
<1> SUFFICES ASSUME DriveInv, Untouched PROVE DriveInv'
  OBVIOUS
<1>1. RunLike(sim)' /\ sim'.step = sim.step
  BY DEF DriveInv, Untouched, RunLike
<1>2. Car' = Car
  BY DEF Untouched, Car, C
<1> QED BY <1>1, <1>2 DEF DriveInv, Untouched

\* The steps of the program that are not of the simulation's: the file, the CSV, the window.
Around == \/ LoadFile \/ Stepped \/ AppendCsv \/ Open \/ Save \/ Closed \/ HandleInput
          \/ UpdateLive \/ UpdateLiveCursor \/ Draw \/ DrawBeyondEnd
          \/ \E by \in 0 .. C.maxAdvance : UpdateCursor(by)
          \/ Kill \/ Relaunch \/ CloseWindow

LEMMA AroundIsUntouched == Around => Untouched
<1> SUFFICES ASSUME Around PROVE Untouched
  OBVIOUS
<1> USE DEF Untouched, simVars, driveVars
<1>1. ASSUME NEW status, Quit(status), pc # "advance" PROVE Untouched
  BY <1>1 DEF Quit
<1>2. CASE LoadFile
  BY <1>1, <1>2 DEF LoadFile
<1>3. CASE Stepped
  BY <1>3 DEF Stepped, NoneButWindow
<1>4. CASE AppendCsv
  BY <1>4 DEF AppendCsv
<1>5. CASE Open
  BY <1>1, <1>5 DEF Open
<1>6. CASE Save
  BY <1>1, <1>6 DEF Save
<1>7. CASE Closed
  BY <1>1, <1>7 DEF Closed
<1>8. CASE HandleInput
  BY <1>8 DEF HandleInput, NoneButWindow
<1>9. CASE UpdateLive
  BY <1>9 DEF UpdateLive
<1>10. CASE UpdateLiveCursor
  BY <1>10 DEF UpdateLiveCursor, NoneButWindow
<1>11. CASE Draw
  BY <1>11 DEF Draw, NoneButWindow, AfterWindow
<1>12. CASE DrawBeyondEnd
  BY <1>12 DEF DrawBeyondEnd, NoneButWindow
<1>13. CASE \E by \in 0 .. C.maxAdvance : UpdateCursor(by)
  BY <1>13 DEF UpdateCursor, NoneButWindow
<1>14. CASE Kill
  BY <1>1, <1>14 DEF Kill
<1>15. CASE Relaunch
  BY <1>15 DEF Relaunch
<1>16. CASE CloseWindow
  BY <1>16 DEF CloseWindow, NoneButWindow, AfterWindow
<1> QED
  BY <1>2, <1>3, <1>4, <1>5, <1>6, <1>7, <1>8, <1>9, <1>10, <1>11, <1>12, <1>13, <1>14, <1>15,
     <1>16 DEF Around

\* start() leaves fresh plants and tick 0, or nothing at all.
LEMMA StartKeepsDriveInv ==
  ASSUME DriveInv, NEW next \in {"tick", "input"}, Start(next), pc = "launch"
  PROVE  DriveInv'
<1>1. CASE UNCHANGED <<simVars, conf>> /\ pc' = "done"
  BY <1>1, UntouchedKeepsDriveInv DEF Untouched, simVars, driveVars
<1>2. CASE /\ pc' = next /\ UNCHANGED conf /\ sim' = NewSim
           /\ fmu' = [v \in Car |-> Initialized] /\ wrapper' = [v \in Car |-> NewWrapper]
  <2>1. Car' = Car
    BY <1>2 DEF Car, C
  <2>2. RunLike(sim)' /\ sim'.step = 0
    BY <1>2 DEF RunLike, NewSim
  <2>3. \A v \in Car : fmu'[v] = Initialized /\ wrapper'[v] = NewWrapper
    BY <1>2
  <2>4. \A v \in Car : /\ ComponentLike(fmu[v])' /\ fmu'[v].time = sim'.step
                       /\ Synced(fmu'[v], wrapper'[v])
    BY <2>2, <2>3, FreshPair DEF Synced, ComponentLike
  <2>5. DOMAIN fmu' = Car /\ wrapper' \in [Car -> Wrapper]
    BY <1>2, FreshPair
  <2> QED BY <1>2, <2>1, <2>2, <2>4, <2>5 DEF DriveInv
<1> QED BY <1>1, <1>2 DEF Start

\* After setInputs every plant has the references of the tick, up to TOL.
LEMMA SetInputsKeepsDriveInv ==
  ASSUME DriveInv, SetInputs
  PROVE  DriveInv'
<1> DEFINE in(v) == C.reference[RefStep(v, sim.step) + 1]
<1>1. PICK pulses \in [Car -> C.pulses] :
        /\ fmu' = [v \in Car |-> SetReal(fmu[v], ChangedInputs(wrapper[v], in(v)))]
        /\ wrapper' = [v \in Car |->
             [wrapper[v] EXCEPT !.inputs = in(v), !.inputsInitialized = TRUE]]
        /\ asked' = [v \in Car |-> [at |-> sim.step, inputs |-> in(v), triggers |-> pulses[v]]]
  BY DEF SetInputs
<1>2. Car' = Car /\ UNCHANGED <<conf, sim>> /\ pc' = "advance"
  BY DEF SetInputs, Car, C
<1>3. \A v \in Car : in(v) \in Inputs
  BY LapCloses DEF DriveInv, ConfigInputs, RunLike
<1>4. C.pulses \subseteq SUBSET Trigger
  BY RunAssumption DEF DriveInv, RunConfiguration, C
<1> HIDE DEF in
<1>5. ASSUME NEW v \in Car
      PROVE  /\ ComponentLike(fmu'[v]) /\ fmu'[v].time = sim.step
             /\ Synced(fmu'[v], wrapper'[v]) /\ wrapper'[v] \in Wrapper
             /\ Told(v)'
  <2>1. /\ ComponentLike(fmu[v]) /\ fmu[v].time = sim.step /\ wrapper[v] \in Wrapper
        /\ Synced(fmu[v], wrapper[v])
    BY DEF DriveInv
  <2>2. fmu'[v] = SetReal(fmu[v], ChangedInputs(wrapper[v], in(v)))
    BY <1>1
  <2>3. /\ ComponentLike(fmu'[v]) /\ Close(fmu'[v].inputs, in(v))
        /\ fmu'[v].time = fmu[v].time /\ fmu'[v].gains = fmu[v].gains
        /\ fmu'[v].triggers = fmu[v].triggers
    BY <1>3, <2>1, <2>2, InputsArrive DEF Synced
  <2>4. /\ wrapper'[v] \in Wrapper
        /\ wrapper'[v].inputs = in(v) /\ wrapper'[v].inputsInitialized
        /\ wrapper'[v].triggersInitialized = wrapper[v].triggersInitialized
        /\ wrapper'[v].triggers = wrapper[v].triggers
    BY <1>1, <1>3, <2>1 DEF Wrapper
  <2>5. Synced(fmu'[v], wrapper'[v])
    BY <2>1, <2>3, <2>4 DEF Synced
  <2>6. Told(v)'
    BY <1>1, <1>2, <1>4, <2>4 DEF Told
  <2> QED BY <2>1, <2>3, <2>4, <2>5, <2>6
<1>6. DOMAIN fmu' = Car /\ wrapper' \in [Car -> Wrapper]
  <2>1. wrapper' = [v \in Car |-> wrapper'[v]]
    BY <1>1
  <2> QED BY <1>1, <1>5, <2>1
<1>7. RunLike(sim)'
  BY <1>2 DEF DriveInv, RunLike
<1> QED BY <1>2, <1>5, <1>6, <1>7 DEF DriveInv, ComponentLike

\* The rest of a tick: what the plants are driven with, and what that leaves.
LEMMA AdvanceServes ==
  ASSUME DriveInv, Advance
  PROVE  DriveInv' /\ \A v \in Car : Pulsed!Faithful(asked[v], served'[v])
<1> DEFINE pulsed(v) == SetBoolean(fmu[v], ChangedTriggers(wrapper[v], asked[v].triggers))
<1>1. PICK errors \in [Car -> C.errors] :
        /\ fmu' = [v \in Car |-> DoStep(pulsed(v), sim.step, errors[v])]
        /\ wrapper' = [v \in Car |-> [wrapper[v] EXCEPT !.triggers = asked[v].triggers,
                                                        !.triggersInitialized = TRUE]]
        /\ served' = [v \in Car |->
             [at |-> pulsed(v).time, inputs |-> pulsed(v).inputs,
              triggers |-> pulsed(v).triggers, gains |-> pulsed(v).gains]]
        /\ LET recorded == Recorded(sim, rec, errors)
               stepped == [recorded[1] EXCEPT !.step = @ + 1, !.left = @ - 1]
               done == Finalized(stepped, recorded[2])
           IN sim' = done[1] /\ rec' = done[2]
  BY DEF Advance
<1>2. Car' = Car /\ UNCHANGED <<conf, asked>> /\ pc = "advance" /\ pc' = "tick"
  BY DEF Advance, Car, C
<1>3. RunLike(sim') /\ sim'.step = sim.step + 1
  BY <1>1, RunAdvances DEF DriveInv
<1>4. ASSUME NEW v \in Car
      PROVE  /\ ComponentLike(pulsed(v)) /\ pulsed(v).time = sim.step
             /\ pulsed(v).triggers = asked[v].triggers
             /\ pulsed(v).inputs = fmu[v].inputs /\ pulsed(v).gains = fmu[v].gains
  <2>1. /\ ComponentLike(fmu[v]) /\ fmu[v].time = sim.step /\ wrapper[v] \in Wrapper
        /\ Synced(fmu[v], wrapper[v]) /\ asked[v].triggers \in SUBSET Trigger
    BY <1>2 DEF DriveInv, Told
  <2> QED BY <2>1, PulsesArrive DEF Synced
<1> HIDE DEF pulsed
<1>5. ASSUME NEW v \in Car
      PROVE  /\ ComponentLike(fmu'[v]) /\ fmu'[v].time = sim'.step
             /\ wrapper'[v] \in Wrapper /\ Synced(fmu'[v], wrapper'[v])
  <2>1. /\ ComponentLike(fmu[v]) /\ wrapper[v] \in Wrapper
        /\ Synced(fmu[v], wrapper[v]) /\ asked[v].triggers \in SUBSET Trigger
    BY <1>2 DEF DriveInv, Told
  <2>2. fmu'[v] = DoStep(pulsed(v), pulsed(v).time, errors[v])
    BY <1>1, <1>4
  <2>3. /\ ComponentLike(fmu'[v]) /\ fmu'[v].time = sim.step + 1
        /\ fmu'[v].inputs = fmu[v].inputs /\ fmu'[v].gains = fmu[v].gains
        /\ fmu'[v].triggers = asked[v].triggers
    BY <1>4, <2>2, StepAdvances
  <2>4. /\ wrapper'[v] \in Wrapper /\ wrapper'[v].triggers = asked[v].triggers
        /\ wrapper'[v].inputs = wrapper[v].inputs
        /\ wrapper'[v].inputsInitialized = wrapper[v].inputsInitialized
    BY <1>1, <2>1 DEF Wrapper
  <2> QED BY <1>3, <2>1, <2>3, <2>4 DEF Synced
<1>6. DOMAIN fmu' = Car /\ wrapper' \in [Car -> Wrapper]
  <2>1. wrapper' = [v \in Car |-> wrapper'[v]]
    BY <1>1
  <2> QED BY <1>1, <1>5, <2>1
<1>7. DriveInv'
  BY <1>2, <1>3, <1>5, <1>6 DEF DriveInv, ComponentLike, RunLike
<1>8. ASSUME NEW v \in Car PROVE Pulsed!Faithful(asked[v], served'[v])
  <2>1. Synced(fmu[v], wrapper[v]) /\ Told(v)
    BY <1>2 DEF DriveInv
  <2>2. /\ served'[v].at = sim.step /\ served'[v].triggers = asked[v].triggers
        /\ served'[v].inputs = fmu[v].inputs /\ served'[v].gains = fmu[v].gains
    BY <1>1, <1>4
  <2> QED BY <2>1, <2>2 DEF Pulsed!Faithful, Synced, Told, Close
<1> QED BY <1>7, <1>8

LEMMA StepCounts ==
  ASSUME DriveInv, Advance
  PROVE  sim.step \in Nat /\ sim'.step = sim.step + 1
<1>1. RunLike(sim)
  BY DEF DriveInv
<1>2. \A r, errors :
        LET recorded == Recorded(sim, r, errors)
            stepped == [recorded[1] EXCEPT !.step = @ + 1, !.left = @ - 1]
        IN Finalized(stepped, recorded[2])[1].step = sim.step + 1
  BY <1>1, RunAdvances
<1>3. PICK errors :
        LET recorded == Recorded(sim, rec, errors)
            stepped == [recorded[1] EXCEPT !.step = @ + 1, !.left = @ - 1]
        IN sim' = Finalized(stepped, recorded[2])[1]
  BY Zenon DEF Advance
<1>4. sim'.step = sim.step + 1
  BY <1>2, <1>3, Zenon
<1> QED
  BY <1>1, <1>4 DEF RunLike

LEMMA DriveInvNext == DriveInv /\ [Next]_sessionVars => DriveInv'
<1> SUFFICES ASSUME DriveInv, [Next]_sessionVars PROVE DriveInv'
  OBVIOUS
<1>1. CASE StartHeadless
  BY <1>1, StartKeepsDriveInv DEF StartHeadless
<1>2. CASE StartLive
  BY <1>2, StartKeepsDriveInv DEF StartLive
<1>3. CASE Step
  BY <1>3, SetInputsKeepsDriveInv, AdvanceServes DEF Step
<1>4. CASE Around
  BY <1>4, AroundIsUntouched, UntouchedKeepsDriveInv
<1>5. CASE UNCHANGED sessionVars
  <2>1. UNCHANGED <<conf, pc, sim, fmu, wrapper, asked>>
    BY <1>5 DEF sessionVars, simVars, driveVars
  <2> QED BY <2>1 DEF DriveInv, Car, C, ComponentLike, RunLike, Synced, Told
<1> QED BY <1>1, <1>2, <1>3, <1>4, <1>5 DEF Next, Program, Around

\* Between two calls the component of every car agrees with what its wrapper remembers.
THEOREM SyncedAlways == Spec => []DriveInv
<1> QED BY DriveInvInit, DriveInvNext, PTL DEF Spec

\* A step of the program asks, serves, or is none of the plants' business.
LEMMA StepIsPulsed ==
  DriveInv /\ [Next]_sessionVars => [Pulsed!Next]_<<conf, pc = "advance", asked, served>>
<1> SUFFICES ASSUME DriveInv, [Next]_sessionVars
             PROVE  [Pulsed!Next]_<<conf, pc = "advance", asked, served>>
  OBVIOUS
<1>1. CASE Untouched
  BY <1>1 DEF Untouched
<1>2. CASE SetInputs
  BY <1>2 DEF SetInputs, Pulsed!Next, Pulsed!Ask
<1>3. CASE Advance
  <2>1. \A v \in CarsOf(conf) : Pulsed!Faithful(asked[v], served'[v])
    BY <1>3, AdvanceServes DEF CarsOf, Car, C
  <2> QED BY <1>3, <2>1 DEF Advance, Pulsed!Next, Pulsed!Serve
<1>4. ASSUME NEW next \in {"tick", "input"}, Start(next), pc = "launch"
      PROVE  UNCHANGED <<conf, asked, served>> /\ pc' # "advance"
  BY <1>4 DEF Start, simVars, driveVars
<1>5. CASE StartHeadless
  BY <1>4, <1>5 DEF StartHeadless
<1>6. CASE StartLive
  BY <1>4, <1>6 DEF StartLive
<1>7. CASE UNCHANGED sessionVars
  BY <1>7 DEF sessionVars, simVars, driveVars
<1> QED
  BY <1>1, <1>2, <1>3, <1>5, <1>6, <1>7, AroundIsUntouched DEF Next, Program, Around, Step

\* The program drives every plant once per tick, with the pulses of that tick and with its
\* references up to the tolerance of the velocity (Simulation::step, FmuInstance).
THEOREM ProgramPulses == Spec => PulsedSpec
<1>1. Init => Pulsed!Init
  BY DEF Init, Pulsed!Init
<1> QED BY <1>1, SyncedAlways, StepIsPulsed, PTL DEF Spec, PulsedSpec, Pulsed!Spec

-----------------------------------------------------------------------------
(* The file *)

LEMMA SequenceOver ==
  ASSUME NEW s, IsSequence(s), NEW S, \A i \in 1 .. Len(s) : s[i] \in S
  PROVE  s \in Seq(S)
<1>1. PICK n \in Nat : n = Len(s)
  BY DEF IsSequence
<1>2. s = [i \in 1 .. n |-> s[i]] /\ \A i \in 1 .. n : s[i] \in S
  BY <1>1 DEF IsSequence
<1>3. s \in [1 .. n -> S]
  BY <1>2
<1> QED
  BY <1>1, <1>3

\* What a file holds from the place behind k on.
LiesFrom(s, k, p) == \A i \in 1 .. Len(p) : s[k + i] = p[i]
Begins(s, w) == Len(s) <= Len(w) /\ \A i \in 1 .. Len(s) : w[i] = s[i]

LEMMA ConcatLays ==
  ASSUME NEW S, NEW s \in Seq(S), NEW p \in Seq(S)
  PROVE  /\ s \o p \in Seq(S)
         /\ Len(s \o p) = Len(s) + Len(p)
         /\ Begins(s, s \o p)
         /\ LiesFrom(s \o p, Len(s), p)
<1>1. /\ s \o p \in Seq(S)
      /\ Len(s \o p) = Len(s) + Len(p)
      /\ \A i \in 1 .. Len(s) + Len(p) : (s \o p)[i] = IF i <= Len(s) THEN s[i] ELSE p[i - Len(s)]
  BY ConcatProperties, Zenon
<1>2. PICK n \in Nat : n = Len(s)
  BY LenProperties
<1>3. PICK l \in Nat : l = Len(p)
  BY LenProperties
<1>4. \A i \in 1 .. n : i \in 1 .. n + l /\ i <= n
  OBVIOUS
<1>5. \A i \in 1 .. l : n + i \in 1 .. n + l /\ ~(n + i <= n) /\ (n + i) - n = i
  OBVIOUS
<1>6. n <= n + l
  OBVIOUS
<1> DEFINE w == s \o p
<1> HIDE DEF w
<1>7. /\ Len(w) = n + l
      /\ \A i \in 1 .. n + l : w[i] = IF i <= n THEN s[i] ELSE p[i - n]
  BY <1>1, <1>2, <1>3 DEF w
<1>8. Begins(s, w)
  BY <1>2, <1>4, <1>6, <1>7 DEF Begins
<1>9. LiesFrom(w, n, p)
  <2> SUFFICES ASSUME NEW i \in 1 .. l PROVE w[n + i] = p[i]
    BY <1>3 DEF LiesFrom
  <2> QED
    BY <1>5, <1>7
<1> QED
  BY <1>1, <1>2, <1>8, <1>9 DEF w

LEMMA BeginsBegins ==
  ASSUME NEW s, NEW w, NEW x, Len(s) \in Nat, Len(w) \in Nat, Len(x) \in Nat,
         Begins(s, w), Begins(w, x)
  PROVE  Begins(s, x)
BY DEF Begins

LEMMA LiesOn ==
  ASSUME NEW w, NEW x, NEW k \in Nat, NEW p, Len(w) \in Nat, Len(p) \in Nat,
         Begins(w, x), LiesFrom(w, k, p), k + Len(p) <= Len(w)
  PROVE  LiesFrom(x, k, p)
<1> SUFFICES ASSUME NEW i \in 1 .. Len(p) PROVE x[k + i] = p[i]
  BY DEF LiesFrom
<1>1. PICK l \in Nat : l = Len(p)
  OBVIOUS
<1>2. PICK m \in Nat : m = Len(w)
  OBVIOUS
<1>3. i \in 1 .. l /\ k + l <= m
  BY <1>1, <1>2
<1>4. k + i \in 1 .. m
  BY <1>3
<1> QED
  BY <1>2, <1>4 DEF LiesFrom, Begins

-----------------------------------------------------------------------------
\* What save() is given: sequences.
Savable(r) ==
  /\ IsSequence(r.offsets) /\ IsSequence(r.summary) /\ IsSequence(r.frames)
  /\ \A v \in 1 .. Len(r.frames) : IsSequence(r.frames[v])

\* Where the offsets, the summaries, the frames and the cars begin.
OffsetsAt(version) == IF version >= 5 THEN 5 ELSE 4
SummaryAt(r, version) == OffsetsAt(version) + Len(r.offsets) + 1
FramesAt(r, version) == SummaryAt(r, version) + Len(r.summary) + 1
CarsAt(e, r) ==
  /\ e \in [0 .. Len(r.frames) -> Nat] /\ e[0] = 0
  /\ \A v \in 1 .. Len(r.frames) : e[v] = e[v - 1] + (1 + Len(r.frames[v]))

\* The whole of a file, place by place.
LaidOut(w, r, version, e) ==
  /\ Len(w) = FramesAt(r, version) + e[Len(r.frames)]
  /\ w[1] = "CPSR" /\ w[2] = version /\ w[3] = r.meta
  /\ version >= 5 => w[4] = r.plant
  /\ w[OffsetsAt(version)] = Len(r.offsets)
  /\ \A i \in 1 .. Len(r.offsets) : w[OffsetsAt(version) + i] = r.offsets[i]
  /\ w[SummaryAt(r, version)] = Len(r.summary)
  /\ \A i \in 1 .. Len(r.summary) :
       w[SummaryAt(r, version) + i] = SummaryIn(version, r.summary[i])
  /\ w[FramesAt(r, version)] = Len(r.frames)
  /\ \A v \in 1 .. Len(r.frames) :
       /\ w[FramesAt(r, version) + e[v - 1] + 1] = Len(r.frames[v])
       /\ \A i \in 1 .. Len(r.frames[v]) :
            w[FramesAt(r, version) + e[v - 1] + 1 + i] = FrameIn(version, r.frames[v][i])

\* Everything that a file may hold.
ItemsOf(r, version) ==
  {"CPSR", version, r.meta, r.plant} \cup Nat
    \cup {r.offsets[i] : i \in 1 .. Len(r.offsets)}
    \cup {SummaryIn(version, r.summary[i]) : i \in 1 .. Len(r.summary)}
    \cup UNION {{FrameIn(version, r.frames[v][i]) : i \in 1 .. Len(r.frames[v])} :
                v \in 1 .. Len(r.frames)}

Lists(t, n) == t = [i \in 1 .. n |-> t[i]]
AllIn(t, n, S) == \A i \in 1 .. n : t[i] \in S

LEMMA Mapped ==
  ASSUME NEW n \in Nat, NEW t, Lists(t, n), NEW S, AllIn(t, n, S)
  PROVE  t \in Seq(S) /\ Len(t) = n
<1>3. t \in [1 .. n -> S]
  BY DEF Lists, AllIn
<1> QED
  BY <1>3

LEMMA CarsGrow ==
  ASSUME NEW r, Savable(r), NEW e, CarsAt(e, r), NEW v \in 1 .. Len(r.frames)
  PROVE  e[v] <= e[Len(r.frames)]
<1> DEFINE nF == Len(r.frames)
           Good == {k \in Nat : v + k <= nF => e[v] <= e[v + k]}
<1>1. nF \in Nat /\ \A u \in 1 .. nF : Len(r.frames[u]) \in Nat
  BY DEF Savable, IsSequence
<1>2. e \in [0 .. nF -> Nat] /\ \A u \in 1 .. nF : e[u] = e[u - 1] + (1 + Len(r.frames[u]))
  BY DEF CarsAt
<1>3. e[v] \in Nat
  BY <1>1, <1>2
<1>4. 0 \in Good
  BY <1>3
<1>5. ASSUME NEW k \in Nat, k \in Good PROVE k + 1 \in Good
  <2> SUFFICES ASSUME v + (k + 1) <= nF PROVE e[v] <= e[v + (k + 1)]
    OBVIOUS
  <2>1. PICK u \in 1 .. nF : u = v + (k + 1) /\ u - 1 = v + k /\ u - 1 \in 0 .. nF
    BY <1>1
  <2>2. PICK p \in Nat : p = e[u - 1]
    BY <1>2, <2>1
  <2>3. PICK q \in Nat : q = Len(r.frames[u])
    BY <1>1
  <2>4. PICK a \in Nat : a = e[v]
    BY <1>3
  <2>5. e[u] = p + (1 + q) /\ a <= p
    BY <1>1, <1>2, <1>5, <2>1, <2>2, <2>3, <2>4
  <2>6. a <= e[u]
    BY <2>5
  <2> QED
    BY <2>1, <2>4, <2>6
<1> HIDE DEF Good
<1>6. \A k \in Nat : k \in Good
  BY <1>4, <1>5, StepByStep
<1>7. nF - v \in Nat /\ v + (nF - v) = nF /\ v + (nF - v) <= nF
  BY <1>1
<1>8. nF - v \in Good
  BY <1>6, <1>7
<1> QED
  BY <1>7, <1>8 DEF Good

LEMMA LayoutLays ==
  ASSUME NEW r, Savable(r), NEW version \in Nat
  PROVE  \E e : /\ CarsAt(e, r)
                /\ Layout(r, version) \in Seq(ItemsOf(r, version))
                /\ LaidOut(Layout(r, version), r, version, e)
<1> DEFINE S == ItemsOf(r, version)
           head == <<"CPSR", version, r.meta>>
           plant == IF version >= 5 THEN <<r.plant>> ELSE <<>>
           nO == Len(r.offsets)
           nS == Len(r.summary)
           nF == Len(r.frames)
           sums == [i \in DOMAIN r.summary |-> SummaryIn(version, r.summary[i])]
           kept(v) == [i \in DOMAIN r.frames[v] |-> FrameIn(version, r.frames[v][i])]
           pieces == [v \in DOMAIN r.frames |-> <<Len(r.frames[v])>> \o kept(v)]
           flat == FlattenSeq(pieces)
           s1 == head \o plant
           s2 == s1 \o <<nO>>
           s3 == s2 \o r.offsets
           s4 == s3 \o <<nS>>
           s5 == s4 \o sums
           s6 == s5 \o <<nF>>
           w == s6 \o flat
<1>1. Layout(r, version) = w
  BY DEF Layout
<1>2. nO \in Nat /\ nS \in Nat /\ nF \in Nat
  BY DEF Savable, IsSequence
<1>3. head \in Seq(S) /\ Len(head) = 3 /\ head[1] = "CPSR" /\ head[2] = version /\ head[3] = r.meta
  <2>1. "CPSR" \in S /\ version \in S /\ r.meta \in S
    BY DEF ItemsOf
  <2> HIDE DEF S
  <2> QED
    BY <2>1
<1>4. plant \in Seq(S) /\ Len(plant) = OffsetsAt(version) - 4 /\ (version >= 5 => plant[1] = r.plant)
  <2>1. r.plant \in S
    BY DEF ItemsOf
  <2> HIDE DEF S
  <2> QED
    BY <2>1 DEF OffsetsAt
<1>5. Nat \subseteq S
  BY DEF ItemsOf
<1>6. r.offsets \in Seq(S)
  <2>1. \A i \in 1 .. nO : r.offsets[i] \in S
    BY DEF ItemsOf
  <2> HIDE DEF S
  <2> QED
    BY <2>1, SequenceOver DEF Savable
<1>7. /\ sums \in Seq(S) /\ Len(sums) = nS
      /\ \A i \in 1 .. nS : sums[i] = SummaryIn(version, r.summary[i])
  <2>1. \A i \in 1 .. nS : SummaryIn(version, r.summary[i]) \in S
    BY DEF ItemsOf
  <2>2. DOMAIN r.summary = 1 .. nS
    BY DEF Savable, IsSequence
  <2>3. \A i \in 1 .. nS : sums[i] = SummaryIn(version, r.summary[i])
    BY <2>2
  <2>4. Lists(sums, nS)
    BY <2>2 DEF Lists
  <2> HIDE DEF S, sums
  <2>5. AllIn(sums, nS, S)
    BY <2>1, <2>3 DEF AllIn
  <2> QED
    BY <1>2, <2>3, <2>4, <2>5, Mapped
<1>8. ASSUME NEW v \in 1 .. nF
      PROVE  /\ kept(v) \in Seq(S) /\ Len(kept(v)) = Len(r.frames[v])
             /\ \A i \in 1 .. Len(r.frames[v]) : kept(v)[i] = FrameIn(version, r.frames[v][i])
             /\ Len(r.frames[v]) \in Nat
  <2>1. \A i \in 1 .. Len(r.frames[v]) : FrameIn(version, r.frames[v][i]) \in S
    BY DEF ItemsOf
  <2>2. DOMAIN r.frames[v] = 1 .. Len(r.frames[v])
    BY DEF Savable, IsSequence
  <2>3. \A i \in 1 .. Len(r.frames[v]) : kept(v)[i] = FrameIn(version, r.frames[v][i])
    BY <2>2
  <2>4. Lists(kept(v), Len(r.frames[v]))
    BY <2>2 DEF Lists
  <2>5. Len(r.frames[v]) \in Nat
    BY DEF Savable, IsSequence
  <2>6. kept(v) \in Seq(S) /\ Len(kept(v)) = Len(r.frames[v])
    <3> HIDE DEF S, kept
    <3>1. AllIn(kept(v), Len(r.frames[v]), S)
      BY <2>1, <2>3 DEF AllIn
    <3> QED
      BY <2>4, <2>5, <3>1, Mapped
  <2> QED
    BY <2>3, <2>5, <2>6
<1> HIDE DEF S, kept
<1>9. ASSUME NEW v \in 1 .. nF
      PROVE  /\ pieces[v] \in Seq(S) /\ Len(pieces[v]) = 1 + Len(r.frames[v])
             /\ pieces[v][1] = Len(r.frames[v])
             /\ \A i \in 1 .. Len(r.frames[v]) : pieces[v][1 + i] = FrameIn(version, r.frames[v][i])
  <2>1. DOMAIN r.frames = 1 .. nF
    BY DEF Savable, IsSequence
  <2>2. PICK l \in Nat : l = Len(r.frames[v])
    BY <1>8
  <2>3. PICK k \in Seq(S) : k = kept(v)
    BY <1>8
  <2>4. PICK one \in Seq(S) : one = <<l>> /\ Len(one) = 1 /\ one[1] = l
    <3>1. l \in S
      BY <1>5, <2>2
    <3>2. <<l>> \in Seq(S) /\ Len(<<l>>) = 1 /\ <<l>>[1] = l
      BY <3>1
    <3> QED
      BY <3>2
  <2>5. /\ one \o k \in Seq(S) /\ Len(one \o k) = 1 + l
        /\ Begins(one, one \o k) /\ LiesFrom(one \o k, 1, k)
    <3>1. Len(k) = l
      BY <1>8, <2>2, <2>3
    <3> QED
      BY <2>4, <3>1, ConcatLays
  <2>6. pieces[v] = one \o k
    BY <2>1, <2>2, <2>3, <2>4
  <2>7. (one \o k)[1] = l /\ \A i \in 1 .. l : (one \o k)[1 + i] = k[i]
    BY <1>8, <2>2, <2>3, <2>4, <2>5 DEF Begins, LiesFrom
  <2> HIDE DEF pieces
  <2> QED
    BY <1>8, <2>2, <2>3, <2>5, <2>6, <2>7
<1>10. pieces \in Seq(Seq(S)) /\ Len(pieces) = nF
  <2>1. Lists(pieces, nF)
    BY DEF Lists, Savable, IsSequence
  <2> HIDE DEF pieces
  <2>2. AllIn(pieces, nF, Seq(S))
    BY <1>9 DEF AllIn
  <2> QED
    BY <1>2, <2>1, <2>2, Mapped
<1> HIDE DEF pieces
<1>11. PICK e : /\ Beginnings(e, pieces) /\ flat \in Seq(S) /\ Len(flat) = e[nF]
                /\ LiesAt(flat, e, pieces)
  BY <1>10, FlattenLays
<1> HIDE DEF flat, head, plant, sums
<1>12. CarsAt(e, r)
  BY <1>9, <1>10, <1>11 DEF Beginnings, CarsAt
<1>13. /\ s1 \in Seq(S) /\ Len(s1) = OffsetsAt(version) - 1
       /\ Begins(head, s1) /\ LiesFrom(s1, 3, plant)
  <2>1. OffsetsAt(version) \in Nat
    BY DEF OffsetsAt
  <2>2. /\ s1 \in Seq(S) /\ Len(s1) = Len(head) + Len(plant)
        /\ Begins(head, s1) /\ LiesFrom(s1, Len(head), plant)
    BY <1>3, <1>4, ConcatLays
  <2> HIDE DEF s1
  <2> QED
    BY <1>3, <1>4, <2>1, <2>2
<1> DEFINE one(n) == <<n>>
<1>14. \A n \in Nat : one(n) \in Seq(S) /\ Len(one(n)) = 1 /\ one(n)[1] = n
  BY <1>5
<1>15. /\ s2 \in Seq(S) /\ Len(s2) = OffsetsAt(version)
       /\ Begins(s1, s2) /\ s2[OffsetsAt(version)] = nO
  <2> HIDE DEF s1
  <2>1. /\ s2 \in Seq(S) /\ Len(s2) = Len(s1) + Len(one(nO)) /\ Begins(s1, s2)
        /\ LiesFrom(s2, Len(s1), one(nO))
    BY <1>2, <1>13, <1>14, ConcatLays
  <2>2. OffsetsAt(version) \in Nat
    BY DEF OffsetsAt
  <2> HIDE DEF s2, one
  <2>3. s2[Len(s1) + 1] = one(nO)[1]
    BY <1>2, <1>14, <2>1 DEF LiesFrom
  <2>4. one(nO)[1] = nO /\ Len(one(nO)) = 1
    BY <1>2, <1>14
  <2>5. PICK o \in Nat : o = OffsetsAt(version)
    BY <2>2
  <2>6. Len(s1) + 1 = o
    BY <1>13, <2>5
  <2> QED
    BY <2>1, <2>3, <2>4, <2>5, <2>6
<1>16. /\ s3 \in Seq(S) /\ Len(s3) = OffsetsAt(version) + nO
       /\ Begins(s2, s3) /\ LiesFrom(s3, OffsetsAt(version), r.offsets)
  <2> HIDE DEF s2
  <2> QED
    BY <1>6, <1>15, ConcatLays
<1>17. /\ s4 \in Seq(S) /\ Len(s4) = SummaryAt(r, version)
       /\ Begins(s3, s4) /\ s4[SummaryAt(r, version)] = nS
  <2> HIDE DEF s3
  <2>1. /\ s4 \in Seq(S) /\ Len(s4) = Len(s3) + Len(one(nS)) /\ Begins(s3, s4)
        /\ LiesFrom(s4, Len(s3), one(nS))
    <3>1. s3 \in Seq(S) /\ one(nS) \in Seq(S)
      BY <1>2, <1>16, <1>14
    <3> QED
      BY <3>1, ConcatLays, Zenon
  <2> HIDE DEF s4, one
  <2>3. s4[Len(s3) + 1] = one(nS)[1]
    BY <1>2, <1>14, <2>1 DEF LiesFrom
  <2> QED
    BY <1>2, <1>16, <1>14, <2>1, <2>3 DEF SummaryAt
<1>18. /\ s5 \in Seq(S) /\ Len(s5) = SummaryAt(r, version) + nS
       /\ Begins(s4, s5) /\ LiesFrom(s5, SummaryAt(r, version), sums)
  <2> HIDE DEF s4
  <2> QED
    BY <1>7, <1>17, ConcatLays
<1>19. /\ s6 \in Seq(S) /\ Len(s6) = FramesAt(r, version)
       /\ Begins(s5, s6) /\ s6[FramesAt(r, version)] = nF
  <2> HIDE DEF s5
  <2>1. /\ s6 \in Seq(S) /\ Len(s6) = Len(s5) + Len(one(nF)) /\ Begins(s5, s6)
        /\ LiesFrom(s6, Len(s5), one(nF))
    <3>1. s5 \in Seq(S) /\ one(nF) \in Seq(S)
      BY <1>2, <1>18, <1>14
    <3> QED
      BY <3>1, ConcatLays, Zenon
  <2> HIDE DEF s6, one
  <2>3. s6[Len(s5) + 1] = one(nF)[1]
    BY <1>2, <1>14, <2>1 DEF LiesFrom
  <2> QED
    BY <1>2, <1>18, <1>14, <2>1, <2>3 DEF FramesAt
<1>20. /\ w \in Seq(S) /\ Len(w) = FramesAt(r, version) + e[nF]
       /\ Begins(s6, w) /\ LiesFrom(w, FramesAt(r, version), flat)
  <2> HIDE DEF s6
  <2> QED
    <3>1. PICK f \in Seq(S) : f = flat
      BY <1>11
    <3>2. /\ s6 \o f \in Seq(S) /\ Len(s6 \o f) = Len(s6) + Len(f)
          /\ Begins(s6, s6 \o f) /\ LiesFrom(s6 \o f, Len(s6), f)
      BY <1>19, ConcatLays
    <3> QED
      BY <1>11, <1>19, <3>1, <3>2
<1> HIDE DEF s1, s2, s3, s4, s5, s6, w, one
<1>21. /\ Len(head) \in Nat /\ Len(plant) \in Nat /\ Len(flat) \in Nat
       /\ Len(s1) \in Nat /\ Len(s2) \in Nat /\ Len(s3) \in Nat /\ Len(s4) \in Nat
       /\ Len(s5) \in Nat /\ Len(s6) \in Nat /\ Len(w) \in Nat
  BY <1>3, <1>4, <1>11, <1>13, <1>15, <1>16, <1>17, <1>18, <1>19, <1>20, LenProperties
<1>22. Begins(s5, w)
  BY <1>19, <1>20, <1>21, BeginsBegins
<1>23. Begins(s4, w)
  BY <1>18, <1>22, <1>21, BeginsBegins
<1>24. Begins(s3, w)
  BY <1>17, <1>23, <1>21, BeginsBegins
<1>25. Begins(s2, w)
  BY <1>16, <1>24, <1>21, BeginsBegins
<1>26. Begins(s1, w)
  BY <1>15, <1>25, <1>21, BeginsBegins
<1>27. Begins(head, w)
  BY <1>13, <1>26, <1>21, BeginsBegins
<1>28. w[1] = "CPSR" /\ w[2] = version /\ w[3] = r.meta
  BY <1>3, <1>27 DEF Begins
<1>29. version >= 5 => w[4] = r.plant
  <2> SUFFICES ASSUME version >= 5 PROVE w[4] = r.plant
    OBVIOUS
  <2>1. Len(plant) = 1 /\ plant[1] = r.plant /\ Len(s1) = 4
    BY <1>4, <1>13 DEF OffsetsAt
  <2>2. s1[3 + 1] = plant[1]
    BY <1>13, <2>1 DEF LiesFrom
  <2> QED
    BY <1>26, <2>1, <2>2 DEF Begins
<1>30. OffsetsAt(version) \in Nat \ {0}
  BY DEF OffsetsAt
<1>31. SummaryAt(r, version) \in Nat \ {0} /\ FramesAt(r, version) \in Nat \ {0}
  <2>1. SummaryAt(r, version) \in Nat \ {0}
    BY <1>2, <1>30 DEF SummaryAt
  <2> QED
    BY <1>2, <2>1 DEF FramesAt
<1>32. w[OffsetsAt(version)] = nO
  BY <1>15, <1>25, <1>30 DEF Begins
<1>33. w[SummaryAt(r, version)] = nS
  BY <1>17, <1>23, <1>31 DEF Begins
<1>34. w[FramesAt(r, version)] = nF
  BY <1>19, <1>20, <1>31 DEF Begins
<1>35. LiesFrom(w, OffsetsAt(version), r.offsets)
  <2>1. /\ Len(r.offsets) \in Nat /\ Len(s3) \in Nat /\ OffsetsAt(version) \in Nat
        /\ OffsetsAt(version) + Len(r.offsets) <= Len(s3)
    BY <1>2, <1>16, <1>21, <1>30
  <2>2. LiesFrom(s3, OffsetsAt(version), r.offsets)
    BY <1>16
  <2> QED
    BY <1>21, <1>24, <2>1, <2>2, LiesOn
<1>36. LiesFrom(w, SummaryAt(r, version), sums)
  <2>1. /\ Len(sums) \in Nat /\ Len(s5) \in Nat /\ SummaryAt(r, version) \in Nat
        /\ SummaryAt(r, version) + Len(sums) <= Len(s5)
    BY <1>2, <1>7, <1>18, <1>21, <1>31
  <2>2. LiesFrom(s5, SummaryAt(r, version), sums)
    BY <1>18
  <2> QED
    BY <1>21, <1>22, <2>1, <2>2, LiesOn
<1>37. \A i \in 1 .. nS : w[SummaryAt(r, version) + i] = SummaryIn(version, r.summary[i])
  BY <1>7, <1>36 DEF LiesFrom
<1>38. ASSUME NEW v \in 1 .. nF
       PROVE  /\ w[FramesAt(r, version) + e[v - 1] + 1] = Len(r.frames[v])
              /\ \A i \in 1 .. Len(r.frames[v]) :
                   w[FramesAt(r, version) + e[v - 1] + 1 + i] = FrameIn(version, r.frames[v][i])
  <2> DEFINE at == e[v - 1]
             b == FramesAt(r, version)
  <2>1. e \in [0 .. nF -> Nat] /\ v - 1 \in 0 .. nF
    BY <1>2, <1>12 DEF CarsAt
  <2>2. at \in Nat /\ e[v] \in Nat /\ e[nF] \in Nat /\ b \in Nat
    <3>1. v \in 0 .. nF /\ nF \in 0 .. nF
      BY <1>2
    <3> QED
      BY <1>31, <2>1, <3>1
  <2>3. e[v] = at + (1 + Len(r.frames[v])) /\ Len(r.frames[v]) \in Nat
    BY <1>8, <1>12 DEF CarsAt
  <2>4. e[v] <= e[nF]
    BY <1>12, CarsGrow
  <2>5. \A j \in 1 .. Len(pieces[v]) : flat[at + j] = pieces[v][j]
    BY <1>10, <1>11 DEF LiesAt
  <2>6. Len(pieces[v]) = 1 + Len(r.frames[v])
    BY <1>9
  <2>7. PICK l \in Nat : l = Len(r.frames[v])
    BY <2>3
  <2>8. PICK t \in Nat : t = at
    BY <2>2
  <2>9. PICK m \in Nat : m = e[nF] /\ t + (1 + l) <= m
    BY <2>2, <2>3, <2>4, <2>7, <2>8
  <2>10. \A i \in 1 .. m : w[b + i] = flat[i]
    BY <1>11, <1>20, <2>9 DEF LiesFrom
  <2>11. ASSUME NEW j \in 1 .. 1 + l PROVE w[b + (t + j)] = pieces[v][j]
    <3>1. t + j \in 1 .. m
      BY <2>9
    <3> QED
      BY <2>5, <2>6, <2>7, <2>8, <2>10, <3>1
  <2>12. w[b + t + 1] = Len(r.frames[v])
    <3>1. 1 \in 1 .. 1 + l /\ b + (t + 1) = b + t + 1
      BY <2>2
    <3> QED
      BY <1>9, <2>11, <3>1
  <2>13. ASSUME NEW i \in 1 .. l PROVE w[b + t + 1 + i] = FrameIn(version, r.frames[v][i])
    <3>1. 1 + i \in 1 .. 1 + l /\ b + (t + (1 + i)) = b + t + 1 + i
      BY <2>2
    <3>2. pieces[v][1 + i] = FrameIn(version, r.frames[v][i])
      BY <1>9, <2>7
    <3> QED
      BY <2>11, <3>1, <3>2
  <2> QED
    BY <2>7, <2>8, <2>12, <2>13
<1>39. LaidOut(w, r, version, e)
  <2>1. \A i \in 1 .. nO : w[OffsetsAt(version) + i] = r.offsets[i]
    BY <1>35 DEF LiesFrom
  <2>2. Len(w) = FramesAt(r, version) + e[nF]
    BY <1>20
  <2> QED
    BY <1>28, <1>29, <1>32, <1>33, <1>34, <1>37, <1>38, <2>1, <2>2, Zenon DEF LaidOut
<1>40. Layout(r, version) \in Seq(ItemsOf(r, version))
  BY <1>1, <1>20 DEF S
<1> QED
  BY <1>1, <1>12, <1>39, <1>40

-----------------------------------------------------------------------------
\* What is read of a file that begins as save() writes it.
ReadAs(x, n, r, version) ==
  /\ x.version = version
  /\ x.meta = IF n >= 3 THEN r.meta ELSE NoMeta
  /\ version >= 5 /\ n >= 4 => x.plant = r.plant
  /\ version < 5 => x.plant = CarPlant
  /\ \A i \in DOMAIN x.summary :
       i \in 1 .. Len(r.summary) /\ x.summary[i] \in {SummaryIn(version, r.summary[i]), NoSummary}
  /\ IsSequence(x.frames)
  /\ \A v \in DOMAIN x.frames :
       /\ v \in 1 .. Len(r.frames) /\ n >= FramesAt(r, version)
       /\ IsSequence(x.frames[v])
       /\ \A i \in DOMAIN x.frames[v] :
            /\ i \in 1 .. Len(r.frames[v])
            /\ x.frames[v][i] \in {FrameIn(version, r.frames[v][i]), NoFrame}

\* A file is read where it was written, as far as it goes.
LEMMA LoadReads ==
  ASSUME NEW r, Savable(r), NEW version \in Nat, NEW e, CarsAt(e, r),
         NEW w, LaidOut(w, r, version, e), NEW f, Begins(f, w), Len(f) \in Nat
  PROVE  /\ Len(f) < 2 \/ ~Readable(version) => Load(f) = Rejected
         /\ Len(f) >= 2 /\ Readable(version) =>
              /\ ReadAs(Load(f), Len(f), r, version)
              /\ Len(f) = Len(w) => Load(f) = InFormat(r, version)
<1> DEFINE item(i, default) == IF i <= Len(f) THEN f[i] ELSE default
           given == item(2, 0)
           offsetsAt == IF given >= 5 THEN 5 ELSE 4
           summaryAt == offsetsAt + item(offsetsAt, 0) + 1
           framesAt == summaryAt + item(summaryAt, 0) + 1
           cars == item(framesAt, 0)
           Walk(c) == [v \in 1 .. cars |->
             IF v = 1 THEN framesAt + 1
             ELSE LET before == c[v - 1] IN before + item(before, 0) + 1]
           carAt == CHOOSE c : c = Walk(c)
           x == [version |-> given,
                 meta |-> item(3, NoMeta),
                 plant |-> IF given >= 5 THEN item(4, [kind |-> "lateral", bounds |-> FALSE])
                           ELSE CarPlant,
                 offsets |-> [i \in 1 .. summaryAt - offsetsAt - 1 |-> item(offsetsAt + i, 0)],
                 summary |-> [i \in 1 .. framesAt - summaryAt - 1 |-> item(summaryAt + i, NoSummary)],
                 frames |-> [v \in 1 .. cars |->
                               [i \in 1 .. item(carAt[v], 0) |-> item(carAt[v] + i, NoFrame)]]]
<1>1. Load(f) = IF item(1, "") # "CPSR" \/ ~Readable(given) THEN Rejected ELSE x
  BY DEF Load
<1> HIDE DEF x
<1>2. CASE Len(f) < 2
  <2>1. given = 0
    BY <1>2
  <2> QED
    BY <1>1, <1>2, <2>1 DEF Readable
<1>3. CASE Len(f) >= 2 /\ ~Readable(version)
  <2>1. given = version
    BY <1>3 DEF Begins, LaidOut
  <2> QED
    BY <1>1, <1>3, <2>1 DEF Readable
<1>4. CASE Len(f) >= 2 /\ Readable(version)
  <2> DEFINE n == Len(f)
             nO == Len(r.offsets)
             nS == Len(r.summary)
             nF == Len(r.frames)
             o == OffsetsAt(version)
             a == SummaryAt(r, version)
             b == FramesAt(r, version)
  <2>1. given = version /\ item(1, "") = "CPSR"
    BY <1>4 DEF Begins, LaidOut
  <2>2. Load(f) = x
    BY <1>1, <1>4, <2>1
  <2>3. /\ nO \in Nat /\ nS \in Nat /\ nF \in Nat /\ n \in Nat /\ Len(w) \in Nat /\ n <= Len(w)
        /\ o \in Nat /\ o >= 4 /\ a \in Nat /\ b \in Nat
        /\ a = o + nO + 1 /\ b = a + nS + 1
    <3>1. nO \in Nat /\ nS \in Nat /\ nF \in Nat
      BY DEF Savable, IsSequence
    <3>2. o \in Nat /\ o >= 4
      BY DEF OffsetsAt
    <3>3. a \in Nat /\ a = o + nO + 1
      BY <3>1, <3>2 DEF SummaryAt
    <3>4. b \in Nat /\ b = a + nS + 1
      BY <3>1, <3>3 DEF FramesAt
    <3>5. e[nF] \in Nat
      <4>1. e \in [0 .. nF -> Nat] /\ nF \in 0 .. nF
        BY <3>1 DEF CarsAt
      <4> QED
        BY <4>1
    <3>6. Len(w) \in Nat /\ n <= Len(w)
      BY <3>4, <3>5 DEF LaidOut, Begins
    <3> QED
      BY <3>1, <3>2, <3>3, <3>4, <3>6
  <2>4. \A i \in Nat \ {0} : i <= n => f[i] = w[i]
    BY <2>3 DEF Begins
  <2>5. offsetsAt = o
    BY <2>1 DEF OffsetsAt
  <2>6. w[o] = nO /\ w[a] = nS /\ w[b] = nF
    BY DEF LaidOut
  <2>7. \A i, d : item(i, d) = IF i <= n THEN f[i] ELSE d
    OBVIOUS
  <2> HIDE DEF given, offsetsAt, n, nO, nS, nF, o, a, b, item
  <2>8. item(o, 0) = IF o <= n THEN nO ELSE 0
    <3>1. o <= n => f[o] = nO
      BY <2>3, <2>4, <2>6
    <3> QED
      BY <2>7, <3>1
  <2>9. IF o <= n THEN summaryAt = a ELSE summaryAt = o + 1
    BY <2>3, <2>5, <2>8
  <2> HIDE DEF summaryAt
  <2>10. item(summaryAt, 0) = IF a <= n THEN nS ELSE 0
    <3>1. CASE a <= n
      <4>1. f[a] = nS /\ summaryAt = a
        BY <2>3, <2>4, <2>6, <2>9, <3>1
      <4> QED
        BY <2>7, <3>1, <4>1
    <3>2. CASE ~(a <= n)
      <4>1. ~(summaryAt <= n)
        BY <2>3, <2>9, <3>2
      <4> QED
        BY <2>7, <3>2, <4>1
    <3> QED
      BY <3>1, <3>2
  <2>11. /\ summaryAt \in Nat /\ framesAt \in Nat
         /\ a <= n => summaryAt = a /\ framesAt = b
         /\ ~(a <= n) => framesAt = summaryAt + 1 /\ framesAt > n
    <3>1. summaryAt \in Nat /\ (a <= n => summaryAt = a) /\ (~(a <= n) => summaryAt > n)
      BY <2>3, <2>9
    <3> QED
      BY <2>3, <2>10, <3>1
  <2> HIDE DEF framesAt
  <2>12. cars = IF b <= n THEN nF ELSE 0
    <3>1. CASE b <= n
      <4>1. f[b] = nF /\ framesAt = b
        BY <2>3, <2>4, <2>6, <2>11, <3>1
      <4> QED
        BY <2>7, <3>1, <4>1
    <3>2. CASE ~(b <= n)
      <4>1. ~(framesAt <= n)
        BY <2>3, <2>11, <3>2
      <4> QED
        BY <2>7, <3>2, <4>1
    <3> QED
      BY <3>1, <3>2
  <2> HIDE DEF cars
  <2>13. cars \in Nat
    BY <2>3, <2>12
  <2> DEFINE F == [k \in Nat |-> [p \in Nat |->
                    IF k = 1 THEN framesAt + 1
                    ELSE IF item(p, 0) \in Nat THEN p + item(p, 0) + 1 ELSE p]]
             at(k) == b + e[k - 1] + 1
             Right(k, p) == p \in Nat /\ (p = at(k) \/ (p > n /\ at(k) > n))
  <2>14. cars = nF => framesAt = b \/ nF = 0
    BY <2>3, <2>11, <2>12
  <2>15. ASSUME NEW k \in 1 .. cars
         PROVE  /\ k \in 1 .. nF /\ b <= n /\ cars = nF /\ framesAt = b /\ b \in Nat
                /\ e[k - 1] \in Nat /\ at(k) \in Nat /\ at(k) > b
                /\ Len(r.frames[k]) \in Nat
                /\ e[k] = e[k - 1] + (1 + Len(r.frames[k]))
                /\ item(at(k), 0) = IF at(k) <= n THEN Len(r.frames[k]) ELSE 0
    <3>1. b <= n /\ cars = nF /\ framesAt = b
      BY <2>3, <2>11, <2>12
    <3>2. k \in 1 .. nF /\ k - 1 \in 0 .. nF
      BY <2>3, <3>1
    <3>3. e[k - 1] \in Nat /\ e[k] = e[k - 1] + (1 + Len(r.frames[k]))
      BY <3>2 DEF CarsAt, nF
    <3>4. Len(r.frames[k]) \in Nat
      BY <3>2 DEF Savable, IsSequence, nF
    <3>5. at(k) \in Nat /\ at(k) > b
      BY <2>3, <3>3
    <3>6. w[at(k)] = Len(r.frames[k])
      BY <3>2 DEF LaidOut, nF, b
    <3>7. at(k) <= n => f[at(k)] = Len(r.frames[k])
      BY <2>3, <2>4, <3>5, <3>6
    <3>8. item(at(k), 0) = IF at(k) <= n THEN Len(r.frames[k]) ELSE 0
      BY <2>7, <3>7
    <3> QED
      BY <2>3, <3>1, <3>2, <3>3, <3>4, <3>5, <3>8
  <2> HIDE DEF at
  <2>16. ASSUME NEW k \in 1 .. cars, NEW p, Right(k, p)
         PROVE  /\ item(p, 0) \in Nat
                /\ p <= n => p = at(k) /\ item(p, 0) = Len(r.frames[k])
                /\ ~(p <= n) => item(p, 0) = 0
    <3>1. p <= n => p = at(k)
      BY <2>3, <2>16
    <3>2. ~(p <= n) => item(p, 0) = 0
      BY <2>7
    <3> QED
      BY <2>15, <3>1, <3>2
  <2>17. ASSUME NEW k \in 1 .. cars, k + 1 \in 1 .. cars, NEW p, Right(k, p)
         PROVE  Right(k + 1, p + item(p, 0) + 1)
    <3>1. at(k + 1) = at(k) + 1 + Len(r.frames[k])
      <4>1. k + 1 - 1 = k
        BY <2>13
      <4>2. at(k + 1) = b + e[k] + 1 /\ at(k) = b + e[k - 1] + 1
        BY <4>1 DEF at
      <4>3. PICK p0 \in Nat : p0 = e[k - 1]
        BY <2>15
      <4>4. PICK l \in Nat : l = Len(r.frames[k])
        BY <2>15
      <4>5. e[k] = p0 + (1 + l)
        BY <2>15, <4>3, <4>4
      <4>6. PICK d \in Nat : d = b
        BY <2>3
      <4>7. at(k) = d + p0 + 1
        BY <4>2, <4>3, <4>6
      <4>8. at(k + 1) = d + (p0 + (1 + l)) + 1
        BY <4>2, <4>5, <4>6
      <4>9. d + (p0 + (1 + l)) + 1 = (d + p0 + 1) + 1 + l
        OBVIOUS
      <4> QED
        BY <4>4, <4>7, <4>8, <4>9, Zenon
    <3>2. at(k) \in Nat /\ Len(r.frames[k]) \in Nat /\ at(k + 1) \in Nat
      BY <2>15, <2>17
    <3>3. CASE p <= n
      <4>1. p = at(k) /\ item(p, 0) = Len(r.frames[k])
        BY <2>16, <2>17, <3>3
      <4>2. PICK q \in Nat : q = at(k)
        BY <3>2
      <4>3. PICK l \in Nat : l = Len(r.frames[k])
        BY <3>2
      <4>4. at(k + 1) = q + 1 + l /\ p + item(p, 0) + 1 = q + l + 1
        BY <3>1, <4>1, <4>2, <4>3
      <4>5. q + 1 + l = q + l + 1
        OBVIOUS
      <4>6. p + item(p, 0) + 1 = at(k + 1)
        BY <4>4, <4>5
      <4> QED
        BY <3>2, <4>6
    <3>4. CASE ~(p <= n)
      <4>1. at(k) > n /\ p \in Nat
        BY <2>3, <2>17, <3>4
      <4>2. item(p, 0) = 0
        BY <2>16, <2>17, <3>4
      <4>3. PICK q \in Nat, l \in Nat, z \in Nat :
              q = at(k) /\ l = Len(r.frames[k]) /\ z = p
        BY <3>2, <4>1
      <4>4. at(k + 1) = q + 1 + l /\ p + item(p, 0) + 1 = z + 1 /\ q > n /\ z > n
        BY <2>3, <3>1, <3>4, <4>1, <4>2, <4>3
      <4>5. at(k + 1) > n /\ p + item(p, 0) + 1 > n /\ p + item(p, 0) + 1 \in Nat
        BY <2>3, <4>4
      <4> QED
        BY <4>5
    <3> QED
      BY <3>3, <3>4
  <2>18. 1 \in 1 .. cars => Right(1, framesAt + 1)
    <3> SUFFICES ASSUME 1 \in 1 .. cars PROVE Right(1, framesAt + 1)
      OBVIOUS
    <3>1. at(1) = b + 1 /\ framesAt = b /\ b \in Nat
      BY <2>15 DEF at, CarsAt
    <3> QED
      BY <3>1
  <2>19. \A k \in Nat : \A p \in Nat : F[k][p] =
           IF k = 1 THEN framesAt + 1
           ELSE IF item(p, 0) \in Nat THEN p + item(p, 0) + 1 ELSE p
    OBVIOUS
  <2> HIDE DEF F
  <2>20. StaysIn(F, Nat)
    BY <2>11, <2>19 DEF StaysIn
  <2>21. PICK g : StepsOf(g, Nat, 0, F, cars)
    BY <2>13, <2>20, RecursionDefines
  <2>22. ASSUME NEW k \in 1 .. cars
         PROVE  g[k] = IF k = 1 THEN framesAt + 1
                       ELSE IF item(g[k - 1], 0) \in Nat THEN g[k - 1] + item(g[k - 1], 0) + 1
                       ELSE g[k - 1]
    <3>1. g[k] = F[k][g[k - 1]] /\ g \in [0 .. cars -> Nat]
      BY <2>21 DEF StepsOf
    <3>2. k - 1 \in 0 .. cars /\ k \in Nat
      BY <2>13
    <3>3. g[k - 1] \in Nat
      BY <3>1, <3>2
    <3> QED
      BY <2>19, <3>1, <3>2, <3>3
  <2> DEFINE GoodG == {k \in Nat : k \in 1 .. cars => Right(k, g[k])}
  <2>23. \A k \in 1 .. cars : Right(k, g[k])
    <3>1. 0 \in GoodG
      OBVIOUS
    <3>2. ASSUME NEW k \in Nat, k \in GoodG PROVE k + 1 \in GoodG
      <4> SUFFICES ASSUME k + 1 \in 1 .. cars PROVE Right(k + 1, g[k + 1])
        OBVIOUS
      <4>1. CASE k = 0
        <5>1. g[1] = framesAt + 1
          BY <2>22, <4>1
        <5> QED
          BY <2>18, <4>1, <5>1
      <4>2. CASE k # 0
        <5>1. k \in 1 .. cars /\ k + 1 # 1 /\ (k + 1) - 1 = k
          BY <2>13, <4>2
        <5>2. Right(k, g[k])
          BY <3>2, <5>1
        <5>3. g[k + 1] = g[k] + item(g[k], 0) + 1
          BY <2>16, <2>22, <5>1, <5>2
        <5> QED
          BY <2>17, <5>1, <5>2, <5>3
      <4> QED
        BY <4>1, <4>2
    <3> HIDE DEF GoodG
    <3>3. \A k \in Nat : k \in GoodG
      BY <3>1, <3>2, StepByStep
    <3> QED
      BY <3>3, <2>13 DEF GoodG
  <2>24. PICK h : h = [k \in 1 .. cars |-> g[k]]
    OBVIOUS
  <2>25. h = Walk(h)
    <3>1. ASSUME NEW k \in 1 .. cars
          PROVE  g[k] = IF k = 1 THEN framesAt + 1
                        ELSE LET before == h[k - 1] IN before + item(before, 0) + 1
      <4>1. CASE k = 1
        BY <2>22, <4>1
      <4>2. CASE k # 1
        <5>1. k - 1 \in 1 .. cars
          BY <2>13, <4>2
        <5>2. Right(k - 1, g[k - 1]) /\ h[k - 1] = g[k - 1]
          BY <2>23, <2>24, <5>1
        <5>3. item(g[k - 1], 0) \in Nat
          BY <2>16, <5>1, <5>2
        <5> QED
          BY <2>22, <4>2, <5>2, <5>3
      <4> QED
        BY <4>1, <4>2
    <3> QED
      BY <2>24, <3>1
  <2>26. PICK c : c = carAt
    OBVIOUS
  <2>27. c = Walk(c)
    BY <2>25, <2>26
  <2> DEFINE GoodC == {k \in Nat : k \in 1 .. cars => Right(k, c[k])}
  <2>28. \A k \in 1 .. cars : Right(k, c[k])
    <3>0. \A k \in 1 .. cars : c[k] = IF k = 1 THEN framesAt + 1 ELSE c[k - 1] + item(c[k - 1], 0) + 1
      BY <2>27
    <3>1. 0 \in GoodC
      OBVIOUS
    <3>2. ASSUME NEW k \in Nat, k \in GoodC PROVE k + 1 \in GoodC
      <4> SUFFICES ASSUME k + 1 \in 1 .. cars PROVE Right(k + 1, c[k + 1])
        OBVIOUS
      <4>1. CASE k = 0
        <5>1. c[1] = framesAt + 1
          BY <3>0, <4>1
        <5> QED
          BY <2>18, <4>1, <5>1
      <4>2. CASE k # 0
        <5>1. k \in 1 .. cars /\ k + 1 # 1 /\ (k + 1) - 1 = k
          BY <2>13, <4>2
        <5>2. Right(k, c[k])
          BY <3>2, <5>1
        <5>3. c[k + 1] = c[k] + item(c[k], 0) + 1
          BY <3>0, <5>1
        <5> QED
          BY <2>17, <5>1, <5>2, <5>3
      <4> QED
        BY <4>1, <4>2
    <3> HIDE DEF GoodC
    <3>3. \A k \in Nat : k \in GoodC
      BY <3>1, <3>2, StepByStep
    <3> QED
      BY <3>3, <2>13 DEF GoodC
  <2> HIDE DEF carAt
  <2>29. /\ x.version = version /\ x.meta = item(3, NoMeta)
         /\ x.plant = IF version >= 5 THEN item(4, [kind |-> "lateral", bounds |-> FALSE])
                      ELSE CarPlant
         /\ x.offsets = [i \in 1 .. summaryAt - offsetsAt - 1 |-> item(offsetsAt + i, 0)]
         /\ x.summary = [i \in 1 .. framesAt - summaryAt - 1 |-> item(summaryAt + i, NoSummary)]
         /\ x.frames = [v \in 1 .. cars |->
                          [i \in 1 .. item(c[v], 0) |-> item(c[v] + i, NoFrame)]]
    BY <2>1, <2>26 DEF x
  <2>30. x = [version |-> x.version, meta |-> x.meta, plant |-> x.plant, offsets |-> x.offsets,
              summary |-> x.summary, frames |-> x.frames]
    BY DEF x
  <2> HIDE DEF carAt, Walk, Right, x
  <2>31. /\ x.meta = IF n >= 3 THEN r.meta ELSE NoMeta
         /\ version >= 5 /\ n >= 4 => x.plant = r.plant
         /\ version < 5 => x.plant = CarPlant
    <3>1. n >= 3 => f[3] = r.meta
      BY <2>3, <2>4 DEF LaidOut
    <3>2. version >= 5 /\ n >= 4 => f[4] = r.plant
      BY <2>3, <2>4 DEF LaidOut
    <3>3. x.meta = IF n >= 3 THEN f[3] ELSE NoMeta
      BY <2>3, <2>7, <2>29
    <3>4. n >= 4 => item(4, [kind |-> "lateral", bounds |-> FALSE]) = f[4]
      BY <2>3, <2>7
    <3> QED
      BY <2>29, <3>1, <3>2, <3>3, <3>4
  <2>32. ASSUME NEW i \in DOMAIN x.summary
         PROVE  /\ i \in 1 .. nS /\ summaryAt = a /\ a <= n
                /\ x.summary[i] = IF a + i <= n THEN SummaryIn(version, r.summary[i]) ELSE NoSummary
    <3>1. i \in 1 .. framesAt - summaryAt - 1 /\ x.summary[i] = item(summaryAt + i, NoSummary)
      BY <2>29
    <3>2. a <= n /\ summaryAt = a /\ framesAt = b /\ i \in 1 .. nS
      <4>1. a <= n
        <5> SUFFICES ASSUME ~(a <= n) PROVE FALSE
          OBVIOUS
        <5>1. framesAt = summaryAt + 1 /\ summaryAt \in Nat
          BY <2>11
        <5>2. framesAt - summaryAt - 1 = 0
          BY <5>1
        <5> QED
          BY <3>1, <5>2
      <4>2. summaryAt = a /\ framesAt = b
        BY <2>11, <4>1
      <4>3. b - a - 1 = nS
        BY <2>3
      <4> QED
        BY <3>1, <4>1, <4>2, <4>3
    <3>3. w[a + i] = SummaryIn(version, r.summary[i])
      BY <3>2 DEF LaidOut, nS, a
    <3>4. a + i <= n => f[a + i] = w[a + i]
      BY <2>3, <2>4, <3>2
    <3> QED
      BY <2>7, <3>1, <3>2, <3>3, <3>4
  <2>33. ASSUME NEW v \in 1 .. cars
         PROVE  /\ item(c[v], 0) \in Nat
                /\ x.frames[v] = [i \in 1 .. item(c[v], 0) |-> item(c[v] + i, NoFrame)]
                /\ at(v) <= n => c[v] = at(v) /\ item(c[v], 0) = Len(r.frames[v])
                /\ \A i \in 1 .. item(c[v], 0) :
                     /\ c[v] = at(v) /\ item(c[v], 0) = Len(r.frames[v])
                     /\ item(c[v] + i, NoFrame) =
                          IF at(v) + i <= n THEN FrameIn(version, r.frames[v][i]) ELSE NoFrame
    <3>1. Right(v, c[v])
      BY <2>28
    <3>2. /\ item(c[v], 0) \in Nat
          /\ c[v] <= n => c[v] = at(v) /\ item(c[v], 0) = Len(r.frames[v])
          /\ ~(c[v] <= n) => item(c[v], 0) = 0
      BY <2>16, <3>1
    <3>3. at(v) <= n => c[v] = at(v)
      BY <2>3, <2>15, <3>1 DEF Right
    <3>4. ASSUME NEW i \in 1 .. item(c[v], 0)
          PROVE  /\ c[v] = at(v) /\ item(c[v], 0) = Len(r.frames[v])
                 /\ item(c[v] + i, NoFrame) =
                      IF at(v) + i <= n THEN FrameIn(version, r.frames[v][i]) ELSE NoFrame
      <4>1. c[v] = at(v) /\ item(c[v], 0) = Len(r.frames[v])
        BY <3>2
      <4>2. i \in 1 .. Len(r.frames[v]) /\ v \in 1 .. nF
        BY <2>15, <4>1
      <4>3. w[at(v) + i] = FrameIn(version, r.frames[v][i])
        BY <4>2 DEF LaidOut, at, nF, b
      <4>4. at(v) + i <= n => f[at(v) + i] = w[at(v) + i]
        BY <2>4, <2>15, <4>2
      <4> QED
        BY <2>7, <4>1, <4>3, <4>4
    <3> QED
      BY <2>29, <3>2, <3>3, <3>4
  <2>34. IsSequence(x.frames)
    BY <2>13, <2>29 DEF IsSequence
  <2>35. ASSUME NEW v \in DOMAIN x.frames
         PROVE  /\ v \in 1 .. nF /\ n >= b /\ IsSequence(x.frames[v])
                /\ \A i \in DOMAIN x.frames[v] :
                     /\ i \in 1 .. Len(r.frames[v])
                     /\ x.frames[v][i] \in {FrameIn(version, r.frames[v][i]), NoFrame}
    <3>1. v \in 1 .. cars
      BY <2>29
    <3>2. v \in 1 .. nF /\ n >= b
      BY <2>3, <2>15, <3>1
    <3>3. IsSequence(x.frames[v])
      <4>1. PICK m \in Nat : m = item(c[v], 0)
        BY <2>33, <3>1
      <4>2. x.frames[v] = [i \in 1 .. m |-> item(c[v] + i, NoFrame)]
        BY <2>33, <3>1, <4>1
      <4> QED
        BY <4>2 DEF IsSequence
    <3>4. DOMAIN x.frames[v] = 1 .. item(c[v], 0)
      BY <2>33, <3>1
    <3>5. ASSUME NEW i \in 1 .. item(c[v], 0)
          PROVE  /\ i \in 1 .. Len(r.frames[v])
                 /\ x.frames[v][i] \in {FrameIn(version, r.frames[v][i]), NoFrame}
      <4>1. x.frames[v][i] = item(c[v] + i, NoFrame)
        BY <2>33, <3>1
      <4> QED
        BY <2>33, <3>1, <4>1
    <3> QED
      BY <3>2, <3>3, <3>4, <3>5
  <2>36. ReadAs(x, n, r, version)
    <3>1. \A i \in DOMAIN x.summary :
            i \in 1 .. nS /\ x.summary[i] \in {SummaryIn(version, r.summary[i]), NoSummary}
      BY <2>32
    <3> QED
      BY <2>29, <2>31, <2>34, <2>35, <3>1 DEF ReadAs, nS, nF, b
  <2>37. ASSUME n = Len(w) PROVE x = InFormat(r, version)
    <3>1. n = b + e[nF] /\ e[nF] \in Nat
      <4>1. e[nF] \in Nat
        <5>1. e \in [0 .. nF -> Nat] /\ nF \in 0 .. nF
          BY <2>3 DEF CarsAt, nF
        <5> QED
          BY <5>1
      <4> QED
        BY <2>37, <4>1 DEF LaidOut, b, nF
    <3>2. a <= n /\ b <= n /\ o <= n /\ cars = nF /\ summaryAt = a /\ framesAt = b
      BY <2>3, <2>11, <2>12, <3>1
    <3>3. x.meta = r.meta /\ x.plant = IF version >= 5 THEN r.plant ELSE CarPlant
      BY <2>3, <2>31, <3>2
    <3>4. x.offsets = r.offsets
      <4>1. x.offsets = [i \in 1 .. nO |-> item(o + i, 0)]
        BY <2>3, <2>5, <2>29, <3>2
      <4>2. ASSUME NEW i \in 1 .. nO PROVE item(o + i, 0) = r.offsets[i]
        <5>1. o + i <= n /\ o + i \in Nat \ {0}
          BY <2>3, <3>2
        <5>2. w[o + i] = r.offsets[i]
          BY DEF LaidOut, nO, o
        <5> QED
          BY <2>4, <2>7, <5>1, <5>2
      <4>3. r.offsets = [i \in 1 .. nO |-> r.offsets[i]]
        BY DEF Savable, IsSequence, nO
      <4> QED
        BY <4>1, <4>2, <4>3
    <3>5. x.summary = [i \in DOMAIN r.summary |-> SummaryIn(version, r.summary[i])]
      <4>1. DOMAIN r.summary = 1 .. nS
        BY DEF Savable, IsSequence, nS
      <4>2. DOMAIN x.summary = 1 .. nS /\ x.summary = [i \in 1 .. nS |-> x.summary[i]]
        BY <2>3, <2>29, <3>2
      <4>3. ASSUME NEW i \in 1 .. nS PROVE x.summary[i] = SummaryIn(version, r.summary[i])
        <5>1. a + i <= n
          BY <2>3, <3>2
        <5> QED
          BY <2>32, <4>2, <5>1
      <4> QED
        BY <4>1, <4>2, <4>3
    <3>6. ASSUME NEW v \in 1 .. nF
          PROVE  x.frames[v] = [i \in DOMAIN r.frames[v] |-> FrameIn(version, r.frames[v][i])]
      <4>1. v \in 1 .. cars
        BY <3>2
      <4>2. e[v] <= e[nF]
        BY CarsGrow DEF nF
      <4>3. PICK l \in Nat : l = Len(r.frames[v])
        BY <2>15, <4>1
      <4>4. PICK p \in Nat : p = e[v - 1]
        BY <2>15, <4>1
      <4>5. at(v) + l <= n
        <5>1. at(v) = b + p + 1
          BY <4>4 DEF at
        <5>2. e[v] = p + (1 + l)
          BY <2>15, <4>1, <4>3, <4>4
        <5> QED
          BY <2>3, <3>1, <4>2, <5>1, <5>2
      <4>6. c[v] = at(v) /\ item(c[v], 0) = l
        <5>1. at(v) <= n
          BY <2>3, <2>15, <4>1, <4>5
        <5> QED
          BY <2>33, <4>1, <4>3, <5>1
      <4>7. x.frames[v] = [i \in 1 .. l |-> item(c[v] + i, NoFrame)]
        BY <2>33, <4>1, <4>6
      <4>8. ASSUME NEW i \in 1 .. l PROVE item(c[v] + i, NoFrame) = FrameIn(version, r.frames[v][i])
        <5>1. at(v) + i <= n
          BY <2>3, <2>15, <4>1, <4>5
        <5> QED
          BY <2>33, <4>1, <4>6, <5>1
      <4>9. DOMAIN r.frames[v] = 1 .. l
        BY <4>3 DEF Savable, IsSequence, nF
      <4> QED
        BY <4>7, <4>8, <4>9
    <3>7. x.frames = [v \in DOMAIN r.frames |->
                        [i \in DOMAIN r.frames[v] |-> FrameIn(version, r.frames[v][i])]]
      <4>1. DOMAIN r.frames = 1 .. nF
        BY DEF Savable, IsSequence, nF
      <4>2. x.frames = [v \in 1 .. nF |-> x.frames[v]]
        BY <2>29, <3>2
      <4> QED
        BY <3>6, <4>1, <4>2
    <3> QED
      BY <2>29, <2>30, <3>3, <3>4, <3>5, <3>7 DEF InFormat
  <2> QED
    BY <1>4, <2>2, <2>36, <2>37 DEF n
<1> QED
  BY <1>2, <1>3, <1>4

-----------------------------------------------------------------------------
(* What is on disk *)

\* Where the program can be in each mode.
ModeInv ==
  /\ conf \in DOMAIN Config
  /\ mode \in {"headless", "live", "replay"}
  /\ mode = "replay" => pc \notin {"tick", "advance", "cursor", "csv", "open", "save"}
  /\ mode = "headless" => pc \notin {"input", "update", "cursor", "draw", "closed", "undefined"}
  /\ mode = "live" => pc \notin {"csv", "closed"}
  /\ exit = 0 => pc = "done"

LEMMA ModeInvInit == Init => ModeInv
<1> SUFFICES ASSUME Init PROVE ModeInv
  OBVIOUS
<1>1. C.mode \in {"headless", "live", "replay"}
  BY SessionAssumption DEF Init, SessionConfiguration, C
<1> QED
  BY <1>1 DEF Init, ModeInv

LEMMA ModeInvNext == ModeInv /\ [Next]_sessionVars => ModeInv'
<1> SUFFICES ASSUME ModeInv, [Next]_sessionVars PROVE ModeInv'
  OBVIOUS
<1> USE DEF ModeInv
<1>1. ASSUME NEW status, Quit(status) PROVE ModeInv'
  BY <1>1 DEF Quit
<1>2. CASE LoadFile
  BY <1>1, <1>2 DEF LoadFile
<1>3. CASE Stepped
  BY <1>3 DEF Stepped, NoneButWindow
<1>4. CASE AppendCsv
  BY <1>4 DEF AppendCsv
<1>5. CASE Open
  BY <1>1, <1>5 DEF Open
<1>6. CASE Save
  BY <1>1, <1>6 DEF Save
<1>7. CASE Closed
  BY <1>1, <1>7 DEF Closed
<1>8. CASE HandleInput
  BY <1>8 DEF HandleInput, NoneButWindow
<1>9. CASE UpdateLive
  BY <1>9 DEF UpdateLive, Live
<1>10. CASE UpdateLiveCursor
  BY <1>10 DEF UpdateLiveCursor, NoneButWindow
<1>11. CASE Draw
  BY <1>11 DEF Draw, NoneButWindow, AfterWindow
<1>12. CASE DrawBeyondEnd
  BY <1>12 DEF DrawBeyondEnd, NoneButWindow
<1>13. CASE \E by \in 0 .. C.maxAdvance : UpdateCursor(by)
  BY <1>13 DEF UpdateCursor, NoneButWindow
<1>14. CASE Kill
  BY <1>1, <1>14 DEF Kill
<1>15. CASE Relaunch
  BY <1>15 DEF Relaunch
<1>16. CASE CloseWindow
  BY <1>16 DEF CloseWindow, NoneButWindow, AfterWindow
<1>17. CASE StartHeadless
  BY <1>17 DEF StartHeadless, Start
<1>18. CASE StartLive
  BY <1>18 DEF StartLive, Start
<1>19. CASE Step
  BY <1>19 DEF Step, SetInputs, Advance
<1>20. CASE UNCHANGED sessionVars
  BY <1>20 DEF sessionVars
<1> QED
  BY <1>2, <1>3, <1>4, <1>5, <1>6, <1>7, <1>8, <1>9, <1>10, <1>11, <1>12, <1>13, <1>14, <1>15,
     <1>16, <1>17, <1>18, <1>19, <1>20 DEF Next, Program

-----------------------------------------------------------------------------
(* What is recorded *)

\* How many frames there are after step ticks.
Written(n, step, decimation) ==
  n \in Nat /\ (n - 1) * decimation < step /\ step <= n * decimation

Meta == [cars |-> C.cars, decimation |-> C.decimation, duration |-> C.duration]

\* A recording of a run that has made step ticks.
RecordingOf(r, step) ==
  /\ r = [version |-> Version, plant |-> CarPlant, offsets |-> r.offsets, meta |-> Meta,
           summary |-> r.summary, frames |-> r.frames]
  /\ IsRecording(r)
  /\ \A v \in Car : Written(Len(r.frames[v]), step, C.decimation)

LEMMA ConfigTypes ==
  ASSUME conf \in DOMAIN Config
  PROVE  /\ C.cars \in Nat \ {0} /\ C.duration \in Nat \ {0} /\ C.decimation \in Nat \ {0}
         /\ C.refresh \in Nat \ {0} /\ C.offsets \in [Car -> Nat]
         /\ C.select \in Nat /\ IsRecording(C.was) /\ C.version \in Nat
BY RunAssumption, SessionAssumption DEF RunConfiguration, SessionConfiguration, C, Car

LEMMA FreshRecording ==
  ASSUME conf \in DOMAIN Config
  PROVE  RecordingOf(NewRecording, 0)
<1> DEFINE r == NewRecording
           n == C.cars
<1>1. n \in Nat \ {0} /\ C.decimation \in Nat \ {0} /\ C.offsets \in [1 .. n -> Nat]
  BY ConfigTypes DEF Car
<1>2. /\ r.version = Version /\ r.plant = CarPlant /\ r.meta = Meta /\ r.offsets = C.offsets
      /\ r.summary = [v \in 1 .. n |-> NoSummary] /\ r.frames = [v \in 1 .. n |-> <<>>]
  BY DEF NewRecording, Meta, Car
<1>9. r = [version |-> Version, plant |-> CarPlant, offsets |-> r.offsets, meta |-> Meta,
           summary |-> r.summary, frames |-> r.frames]
  BY DEF NewRecording, Meta
<1> HIDE DEF n, r
<1>3. IsSequence(r.offsets) /\ IsSequence(r.summary) /\ IsSequence(r.frames) /\ Len(r.frames) = n
  BY <1>1, <1>2 DEF IsSequence
<1>4. \A v \in 1 .. n : r.frames[v] = <<>>
  BY <1>2
<1>5. IsSequence(<<>>) /\ Len(<<>>) = 0
  BY DEF IsSequence
<1>6. r.meta.cars = n /\ r.meta.decimation = C.decimation
  BY <1>2 DEF Meta, n
<1>7. IsRecording(r)
  <2>1. 1 \in 1 .. n
    BY <1>1
  <2> QED
    BY <1>1, <1>3, <1>4, <1>5, <1>6, <2>1 DEF IsRecording
<1>8. Written(0, 0, C.decimation)
  BY <1>1 DEF Written
<1> QED
  BY <1>2, <1>4, <1>5, <1>7, <1>8, <1>9 DEF RecordingOf, Car, n, r

LEMMA AppendIs ==
  ASSUME NEW s, IsSequence(s), NEW x
  PROVE  /\ IsSequence(Append(s, x)) /\ Len(Append(s, x)) = Len(s) + 1
         /\ \A i \in 1 .. Len(s) + 1 : Append(s, x)[i] = IF i <= Len(s) THEN s[i] ELSE x
<1> DEFINE S == {s[i] : i \in 1 .. Len(s)} \cup {x}
<1>1. s \in Seq(S)
  BY SequenceOver
<1>2. x \in S
  OBVIOUS
<1> HIDE DEF S
<1>3. PICK n \in Nat : n = Len(s)
  BY DEF IsSequence
<1>4. PICK t : t = Append(s, x)
  OBVIOUS
<1>5. Len(t) = n + 1 /\ \A i \in 1 .. n + 1 : t[i] = IF i <= n THEN s[i] ELSE x
  <2>1. Len(t) = n + 1 /\ (\A i \in 1 .. n : t[i] = s[i]) /\ t[n + 1] = x /\ t \in Seq(S)
    BY <1>1, <1>2, <1>3, <1>4, AppendProperties
  <2> QED
    BY <2>1
<1>6. t = [i \in 1 .. Len(t) |-> t[i]] /\ Len(t) \in Nat
  <2>1. t \in Seq(S)
    BY <1>1, <1>2, <1>4, AppendProperties
  <2> QED
    BY <2>1
<1> QED
  BY <1>3, <1>4, <1>5, <1>6 DEF IsSequence

\* The tick that is recorded is the first that no frame covers.
LEMMA WrittenStep ==
  ASSUME NEW n, NEW step \in Nat, NEW d \in Nat \ {0}, Written(n, step, d)
  PROVE  /\ step % d # 0 => Written(n, step + 1, d)
         /\ step % d = 0 => step = n * d /\ Written(n + 1, step + 1, d)
<1>1. n \in Nat /\ (n - 1) * d < step /\ step <= n * d
  BY DEF Written
<1>2. PICK q \in Int, r \in 0 .. d - 1 : step = d * q + r /\ step % d = r
  BY step \in Int, Division, Zenon
<1>3. PICK k \in Int : k = d * q
  OBVIOUS
<1>4. PICK m \in Int : m = d * n /\ n * d = m /\ (n - 1) * d = m - d
  BY <1>1
<1>5. m - d < k + r /\ k + r <= m /\ r < d /\ r >= 0
  BY <1>1, <1>2, <1>3, <1>4
<1>6. r = 0 => k = m
  <2> SUFFICES ASSUME r = 0, k < m PROVE FALSE
    BY <1>5
  <2>1. d * q + d <= d * n
    BY <1>1, <1>3, <1>4, Multiples
  <2> QED
    BY <1>3, <1>4, <1>5, <2>1
<1>7. r # 0 => k + r # m
  <2> SUFFICES ASSUME r # 0, k + r = m PROVE FALSE
    OBVIOUS
  <2>1. k < m
    BY <1>5
  <2>2. d * q + d <= d * n
    BY <1>1, <1>3, <1>4, <2>1, Multiples
  <2> QED
    BY <1>3, <1>4, <1>5, <2>2
<1>8. step = k + r
  BY <1>2, <1>3
<1>9. step % d # 0 => step + 1 <= n * d /\ (n - 1) * d < step + 1
  BY <1>2, <1>4, <1>5, <1>7, <1>8
<1>10. ((n + 1) - 1) * d = m /\ (n + 1) * d = m + d
  BY <1>1, <1>4
<1>11. step % d = 0 => step = m /\ m < step + 1 /\ step + 1 <= m + d
  BY <1>2, <1>5, <1>6, <1>8
<1> QED
  BY <1>1, <1>4, <1>9, <1>10, <1>11 DEF Written

\* A tick leaves a recording with what it has recorded (recordFrame, finalizeSummary).
LEMMA TickRecorded ==
  ASSUME conf \in DOMAIN Config, sim.step \in Nat, RecordingOf(rec, sim.step), NEW errors
  PROVE  LET recorded == Recorded(sim, rec, errors)
             stepped == [recorded[1] EXCEPT !.step = @ + 1, !.left = @ - 1]
         IN RecordingOf(Finalized(stepped, recorded[2])[2], sim.step + 1)
<1> DEFINE recorded == Recorded(sim, rec, errors)
           stepped == [recorded[1] EXCEPT !.step = @ + 1, !.left = @ - 1]
           more == recorded[2]
           last == Finalized(stepped, more)[2]
           n == C.cars
           d == C.decimation
<1>1. n \in Nat \ {0} /\ d \in Nat \ {0} /\ Car = 1 .. n
  BY ConfigTypes DEF Car
<1>2. RecordingOf(more, sim.step + 1)
  <2>1. CASE sim.step % d # 0
    <3>1. more = rec
      BY <2>1 DEF Recorded
    <3>2. \A v \in Car : Written(Len(rec.frames[v]), sim.step + 1, d)
      BY <1>1, <2>1, WrittenStep DEF RecordingOf
    <3> QED
      BY <3>1, <3>2 DEF RecordingOf
  <2>2. CASE sim.step % d = 0
    <3> DEFINE frames == [v \in Car |-> Append(rec.frames[v], FrameOf(v, errors[v]))]
    <3>1. more = [rec EXCEPT !.frames = frames]
      BY <2>2 DEF Recorded
    <3>2. /\ more = [version |-> Version, plant |-> CarPlant, offsets |-> more.offsets,
                     meta |-> Meta, summary |-> more.summary, frames |-> more.frames]
          /\ more.frames = frames /\ more.offsets = rec.offsets /\ more.summary = rec.summary
          /\ more.meta = Meta
      <4> HIDE DEF frames, more
      <4> QED
        BY <3>1 DEF RecordingOf
    <3>3. /\ rec.meta = Meta /\ IsSequence(rec.offsets) /\ IsSequence(rec.summary)
          /\ Meta.cars = n /\ Meta.decimation = d
          /\ \A v \in Car : /\ IsSequence(rec.frames[v]) /\ Len(rec.frames[v]) = Len(rec.frames[1])
                            /\ \A i \in 1 .. Len(rec.frames[v]) :
                                 /\ rec.frames[v][i].t = (i - 1) * d
                                 /\ rec.frames[v][i].phys = rec.frames[v][i].t
                            /\ Written(Len(rec.frames[v]), sim.step, d)
      <4>1. rec.meta = Meta
        BY DEF RecordingOf
      <4>2. Meta.cars = n /\ Meta.decimation = d
        BY DEF Meta
      <4> QED
        BY <1>1, <4>1, <4>2 DEF RecordingOf, IsRecording
    <3>4. /\ IsSequence(frames) /\ Len(frames) = n
          /\ \A v \in Car : frames[v] = Append(rec.frames[v], FrameOf(v, errors[v]))
      <4> HIDE DEF n
      <4>1. frames = [v \in 1 .. n |-> frames[v]]
        BY <1>1
      <4>2. \A v \in Car : frames[v] = Append(rec.frames[v], FrameOf(v, errors[v]))
        OBVIOUS
      <4> HIDE DEF frames
      <4> QED
        BY <1>1, <4>1, <4>2 DEF IsSequence
    <3> HIDE DEF frames, more, n, d
    <3>5. ASSUME NEW v \in Car
          PROVE  /\ IsSequence(frames[v]) /\ Len(frames[v]) = Len(rec.frames[1]) + 1
                 /\ \A i \in 1 .. Len(frames[v]) :
                      frames[v][i].t = (i - 1) * d /\ frames[v][i].phys = frames[v][i].t
                 /\ Written(Len(frames[v]), sim.step + 1, d)
      <4>1. PICK f : f = FrameOf(v, errors[v])
        OBVIOUS
      <4>2. f.t = sim.step /\ f.phys = sim.step
        BY <4>1 DEF FrameOf
      <4>3. PICK k \in Nat : k = Len(rec.frames[v])
        BY <3>3 DEF IsSequence
      <4>4. /\ IsSequence(frames[v]) /\ Len(frames[v]) = k + 1
            /\ \A i \in 1 .. k + 1 : frames[v][i] = IF i <= k THEN rec.frames[v][i] ELSE f
        <5>1. PICK a : a = rec.frames[v]
          OBVIOUS
        <5>2. IsSequence(a) /\ Len(a) = k /\ frames[v] = Append(a, f)
          BY <3>3, <3>4, <4>1, <4>3, <5>1
        <5>3. /\ IsSequence(Append(a, f)) /\ Len(Append(a, f)) = k + 1
              /\ \A i \in 1 .. k + 1 : Append(a, f)[i] = IF i <= k THEN a[i] ELSE f
          BY <5>2, AppendIs
        <5> QED
          BY <5>1, <5>2, <5>3
      <4>5. sim.step = k * d /\ Written(k + 1, sim.step + 1, d)
        <5>1. Written(k, sim.step, d) /\ d \in Nat \ {0} /\ sim.step % d = 0
          BY <1>1, <2>2, <3>3, <4>3
        <5> QED
          BY <5>1, WrittenStep
      <4>6. ASSUME NEW i \in 1 .. k + 1
            PROVE  frames[v][i].t = (i - 1) * d /\ frames[v][i].phys = frames[v][i].t
        <5>1. CASE i <= k
          <6>1. i \in 1 .. k
            BY <5>1
          <6> QED
            BY <3>3, <4>3, <4>4, <5>1, <6>1
        <5>2. CASE ~(i <= k)
          <6>1. i - 1 = k
            BY <5>2
          <6>2. (i - 1) * d = sim.step
            BY <4>5, <6>1
          <6> QED
            BY <4>2, <4>4, <5>2, <6>2
        <5> QED
          BY <5>1, <5>2
      <4> QED
        BY <3>3, <4>3, <4>4, <4>5, <4>6
    <3>6. 1 \in Car
      BY <1>1
    <3>7. IsRecording(more)
      <4>1. n \in Nat /\ d \in Nat
        BY <1>1
      <4>2. \A v \in Car : Len(frames[v]) = Len(frames[1])
        BY <3>5, <3>6
      <4> QED
        BY <1>1, <3>2, <3>3, <3>4, <3>5, <4>1, <4>2 DEF IsRecording
    <3> QED
      BY <3>2, <3>5, <3>7 DEF RecordingOf, d
  <2> QED
    BY <2>1, <2>2
<1> SUFFICES RecordingOf(last, sim.step + 1)
  OBVIOUS
<1> HIDE DEF more, stepped
<1>3. CASE last = more
  <2> HIDE DEF last
  <2> QED
    BY <1>2, <1>3 DEF RecordingOf
<1>4. CASE last # more
  <2> DEFINE summary == [v \in Car |-> SummaryOf(stepped, v)]
  <2>1. last = [more EXCEPT !.summary = summary]
    BY <1>4 DEF Finalized
  <2>2. IsSequence(summary)
    <3> HIDE DEF n
    <3>1. summary = [v \in 1 .. n |-> summary[v]]
      BY <1>1
    <3> HIDE DEF summary
    <3> QED
      BY <1>1, <3>1 DEF IsSequence
  <2> HIDE DEF summary, last
  <2>3. /\ last = [version |-> Version, plant |-> CarPlant, offsets |-> last.offsets,
                   meta |-> Meta, summary |-> last.summary, frames |-> last.frames]
        /\ last.frames = more.frames /\ last.offsets = more.offsets /\ last.summary = summary
        /\ last.meta = more.meta
    BY <1>2, <2>1 DEF RecordingOf
  <2> QED
    <3>1. IsRecording(last)
      BY <1>2, <2>2, <2>3 DEF RecordingOf, IsRecording
    <3> QED
      BY <1>2, <2>3, <3>1 DEF RecordingOf
<1> QED
  BY <1>3, <1>4

-----------------------------------------------------------------------------
(* What the simulation predicts *)

\* The latest tick before step in which the predictions were refreshed.
Refreshed(step) == ((step - 1) \div C.refresh) * C.refresh

PredictionOf(v, step) ==
  IF step = 0 THEN NoOverlay
  ELSE [car |-> v, from |-> Refreshed(step), base |-> RefStep(v, Refreshed(step) + 1)]

RunInv ==
  mode # "replay" =>
    /\ RecordingOf(rec, sim.step)
    /\ \A v \in Car : pred[v] = PredictionOf(v, sim.step)
    /\ pc = "advance" => ~Finished

LEMMA RefreshedStep ==
  ASSUME NEW step \in Nat, C.refresh \in Nat \ {0}
  PROVE  Refreshed(step + 1) = IF step % C.refresh = 0 THEN step ELSE Refreshed(step)
<1> DEFINE d == C.refresh
<1>0. d \in Nat \ {0}
  OBVIOUS
<1>1. PICK q \in Int, r \in 0 .. d - 1 : step = d * q + r /\ step % d = r
  BY step \in Int, Division, Zenon
<1>2. step \div d = q
  BY step \in Int, <1>1, Quotient
<1>3. (step + 1) - 1 = step
  OBVIOUS
<1>4. PICK k \in Int : k = d * q /\ k = q * d
  OBVIOUS
<1> HIDE DEF d
<1>5. (step \div d) * d = k
  BY <1>2, <1>4
<1>6. CASE r = 0
  BY <1>1, <1>3, <1>4, <1>5, <1>6 DEF Refreshed, d
<1>7. CASE r # 0
  <2>1. PICK z \in 0 .. d - 1 : z = r - 1
    BY <1>0, <1>1, <1>7
  <2>2. step - 1 \in Int /\ step - 1 = d * q + z
    BY <1>0, <1>1, <1>4, <2>1
  <2>3. (step - 1) \div d = q
    BY <1>0, <2>1, <2>2, Quotient
  <2> QED
    BY <1>1, <1>3, <1>4, <1>5, <1>7, <2>3 DEF Refreshed, d
<1> QED
  BY <1>6, <1>7

LEMMA RunInvInit == Init => RunInv
<1> SUFFICES ASSUME Init PROVE RunInv
  OBVIOUS
<1>1. RecordingOf(NewRecording, 0)
  BY FreshRecording DEF Init
<1>2. sim.step = 0 /\ rec = NewRecording /\ pc # "advance" /\ \A v \in Car : pred[v] = NoOverlay
  BY DEF Init, NewSim
<1> QED
  BY <1>1, <1>2 DEF RunInv, PredictionOf

\* What does not touch the run.
Aside ==
  /\ UNCHANGED <<conf, rec, pred>> /\ sim'.step = sim.step
  /\ mode' \in {mode, "replay"} /\ (pc' = "advance" => pc = "advance")

LEMMA AsideKeepsRunInv == RunInv /\ Aside => RunInv'
BY DEF RunInv, Aside, RecordingOf, PredictionOf, Refreshed, RefStep, Lap, Car, Meta, C, Finished

LEMMA RunInvStart ==
  ASSUME ModeInv, RunInv, NEW next \in {"tick", "input"}, Start(next), UNCHANGED mode
  PROVE  RunInv'
<1>1. CASE pc' = "done" /\ UNCHANGED <<simVars, conf>>
  BY <1>1, AsideKeepsRunInv DEF Aside, simVars, driveVars
<1>2. CASE /\ pc' = next /\ UNCHANGED conf /\ sim' = NewSim /\ rec' = NewRecording
           /\ pred' = [v \in Car |-> NoOverlay]
  <2>1. RecordingOf(NewRecording, 0)
    BY FreshRecording DEF ModeInv
  <2>2. Car' = Car /\ C' = C
    BY <1>2 DEF Car, C
  <2>3. RecordingOf(rec, sim.step)'
    <3>1. sim'.step = 0
      BY <1>2 DEF NewSim
    <3>2. Meta' = Meta
      BY <2>2 DEF Meta
    <3> QED
      BY <1>2, <2>1, <2>2, <3>1, <3>2 DEF RecordingOf
  <2>4. \A v \in Car : pred'[v] = NoOverlay /\ sim'.step = 0
    BY <1>2 DEF NewSim
  <2> QED
    BY <1>2, <2>2, <2>3, <2>4 DEF RunInv, PredictionOf
<1> QED
  BY <1>1, <1>2 DEF Start

LEMMA RunInvAdvance ==
  ASSUME ModeInv, DriveInv, RunInv, Advance, UNCHANGED mode
  PROVE  RunInv'
<1> SUFFICES ASSUME mode # "replay" PROVE RunInv'
  BY DEF RunInv
<1>1. PICK errors \in [Car -> C.errors] :
        LET recorded == Recorded(sim, rec, errors)
            stepped == [recorded[1] EXCEPT !.step = @ + 1, !.left = @ - 1]
            done == Finalized(stepped, recorded[2])
        IN sim' = done[1] /\ rec' = done[2]
  BY DEF Advance
<1>2. UNCHANGED conf /\ C' = C /\ Car' = Car /\ pc' = "tick"
  BY DEF Advance, Car, C
<1>3. sim.step \in Nat /\ sim'.step = sim.step + 1
  BY StepCounts
<1>4. RecordingOf(rec', sim.step + 1)
  BY <1>1, <1>3, TickRecorded DEF RunInv, ModeInv
<1>5. RecordingOf(rec, sim.step)'
  BY <1>2, <1>3, <1>4 DEF RecordingOf, Meta
<1>6. Refreshed(sim.step + 1) = IF sim.step % C.refresh = 0 THEN sim.step ELSE Refreshed(sim.step)
  BY <1>3, RefreshedStep, ConfigTypes DEF ModeInv
<1>7. C.refresh \in Nat \ {0} /\ 0 % C.refresh = 0
  BY ConfigTypes DEF ModeInv
<1>8. ASSUME NEW v \in Car PROVE pred'[v] = PredictionOf(v, sim.step + 1)
  <2>1. CASE sim.step % C.refresh = 0
    <3>1. pred'[v] = [car |-> v, from |-> sim.step, base |-> RefStep(v, sim.step + 1)]
      BY <2>1 DEF Advance
    <3> QED
      BY <1>3, <1>6, <2>1, <3>1 DEF PredictionOf
  <2>2. CASE sim.step % C.refresh # 0
    <3>1. pred'[v] = pred[v] /\ sim.step # 0
      BY <1>7, <2>2 DEF Advance
    <3>2. pred[v] = PredictionOf(v, sim.step)
      BY DEF RunInv
    <3> QED
      BY <1>3, <1>6, <2>2, <3>1, <3>2 DEF PredictionOf
  <2> QED
    BY <2>1, <2>2
<1>9. \A v \in Car : PredictionOf(v, sim.step + 1) = PredictionOf(v, sim.step)'
  BY <1>2, <1>3 DEF PredictionOf, Refreshed, RefStep, Lap
<1> QED
  BY <1>2, <1>5, <1>8, <1>9 DEF RunInv

LEMMA RunInvNext == ModeInv /\ DriveInv /\ RunInv /\ [Next]_sessionVars => RunInv'
<1> SUFFICES ASSUME ModeInv, DriveInv, RunInv, [Next]_sessionVars PROVE RunInv'
  OBVIOUS
<1> USE DEF Aside, simVars, driveVars
<1>0. \A ticks : [sim EXCEPT !.left = ticks].step = sim.step
  BY DEF DriveInv, RunLike
<1>1. ASSUME NEW status, Quit(status) PROVE Aside
  BY <1>1 DEF Quit
<1>2. CASE LoadFile
  <2>1. CASE Quit(1)
    BY <1>1, <2>1, AsideKeepsRunInv
  <2>2. CASE mode = "replay" /\ mode' = mode
    BY <2>2 DEF RunInv
  <2> QED
    BY <1>2, <2>1, <2>2 DEF LoadFile
<1>3. CASE Stepped
  BY <1>3, AsideKeepsRunInv DEF Stepped, NoneButWindow
<1>4. CASE AppendCsv
  BY <1>4, AsideKeepsRunInv DEF AppendCsv
<1>5. CASE Open
  BY <1>1, <1>5, AsideKeepsRunInv DEF Open
<1>6. CASE Save
  BY <1>1, <1>6, AsideKeepsRunInv DEF Save
<1>7. CASE Closed
  BY <1>1, <1>7, AsideKeepsRunInv DEF Closed
<1>8. CASE HandleInput
  BY <1>8, AsideKeepsRunInv DEF HandleInput, NoneButWindow
<1>9. CASE UpdateLive
  BY <1>0, <1>9, AsideKeepsRunInv DEF UpdateLive, Live
<1>10. CASE UpdateLiveCursor
  BY <1>10, AsideKeepsRunInv DEF UpdateLiveCursor, NoneButWindow
<1>11. CASE Draw
  BY <1>11, AsideKeepsRunInv DEF Draw, NoneButWindow, AfterWindow
<1>12. CASE DrawBeyondEnd
  BY <1>12, AsideKeepsRunInv DEF DrawBeyondEnd, NoneButWindow
<1>13. CASE \E by \in 0 .. C.maxAdvance : UpdateCursor(by)
  BY <1>13, AsideKeepsRunInv DEF UpdateCursor, NoneButWindow
<1>14. CASE Kill
  BY <1>1, <1>14, AsideKeepsRunInv DEF Kill
<1>15. CASE Relaunch
  BY <1>15, AsideKeepsRunInv DEF Relaunch
<1>16. CASE CloseWindow
  BY <1>16, AsideKeepsRunInv DEF CloseWindow, NoneButWindow, AfterWindow
<1>17. CASE StartHeadless
  BY <1>17, RunInvStart DEF StartHeadless
<1>18. CASE StartLive
  BY <1>18, RunInvStart DEF StartLive
<1>19. CASE SetInputs /\ UNCHANGED mode
  <2>1. /\ UNCHANGED <<conf, rec, pred, sim, mode>> /\ ~Finished
    BY <1>19 DEF SetInputs
  <2> QED
    BY <2>1 DEF RunInv, RecordingOf, PredictionOf, Refreshed, RefStep, Lap, Car, Meta, C, Finished
<1>20. CASE Advance /\ UNCHANGED mode
  BY <1>20, RunInvAdvance
<1>21. CASE UNCHANGED sessionVars
  BY <1>21, AsideKeepsRunInv DEF sessionVars
<1> QED
  BY <1>2, <1>3, <1>4, <1>5, <1>6, <1>7, <1>8, <1>9, <1>10, <1>11, <1>12, <1>13, <1>14, <1>15,
     <1>16, <1>17, <1>18, <1>19, <1>20, <1>21 DEF Next, Program, Step

-----------------------------------------------------------------------------
\* The file holds the beginning of what is saved, or all of it once the program has said so;
\* a replay shows what load() makes of the file.
FileInv ==
  /\ IsRecording(saved.rec) /\ saved.version \in Nat
  /\ IsSequence(file) /\ Begins(file, Whole)
  /\ exit = 0 /\ mode # "replay" /\ C.save => file = Whole
  /\ mode = "replay" /\ pc \notin {"launch", "done"} => Load(file) # Rejected /\ rec = Load(file)

LEMMA RecordingSavable ==
  ASSUME NEW r, IsRecording(r)
  PROVE  Savable(r)
BY DEF IsRecording, Savable

LEMMA WholeIs ==
  ASSUME NEW r, IsRecording(r), NEW version \in Nat
  PROVE  IsSequence(Layout(r, version))
<1>1. PICK e : Layout(r, version) \in Seq(ItemsOf(r, version))
  BY RecordingSavable, LayoutLays
<1> QED
  BY <1>1 DEF IsSequence

LEMMA FileInvInit == Init => FileInv
<1> SUFFICES ASSUME Init PROVE FileInv
  OBVIOUS
<1>1. saved.rec = C.was /\ saved.version = C.version /\ exit = -1 /\ pc = "launch"
  BY DEF Init
<1>2. IsRecording(C.was) /\ C.version \in Nat
  BY ConfigTypes DEF Init
<1>3. PICK n \in 0 .. Len(Layout(C.was, C.version)) : file = SubSeq(Layout(C.was, C.version), 1, n)
  <2>1. IsSequence(Layout(C.was, C.version))
    BY <1>2, WholeIs
  <2>2. PICK l \in Nat : l = Len(Layout(C.was, C.version))
    BY <2>1 DEF IsSequence
  <2>3. l \in 0 .. l
    OBVIOUS
  <2> QED
    BY <2>2, <2>3 DEF Init
<1>4. PICK w : w = Layout(C.was, C.version) /\ w = Whole
  BY <1>1 DEF Whole
<1>5. PICK S : w \in Seq(S)
  BY <1>2, <1>4, RecordingSavable, LayoutLays
<1>6. PICK l \in Nat : l = Len(w)
  BY <1>5
<1>7. n \in 0 .. l /\ 1 \in 1 .. l + 1 /\ n \in 1 - 1 .. l /\ n - 1 + 1 = n
  BY <1>3, <1>4, <1>6
<1>8. /\ file \in Seq(S) /\ Len(file) = n
      /\ \A i \in 1 .. n : file[i] = w[1 + i - 1]
  <2>1. /\ SubSeq(w, 1, n) \in Seq(S) /\ Len(SubSeq(w, 1, n)) = n - 1 + 1
        /\ \A i \in 1 .. n - 1 + 1 : SubSeq(w, 1, n)[i] = w[1 + i - 1]
    BY <1>5, <1>6, <1>7, SubSeqProperties
  <2> QED
    BY <1>3, <1>4, <1>7, <2>1
<1>9. IsSequence(file)
  BY <1>8 DEF IsSequence
<1>10. Begins(file, w)
  <2>1. \A i \in 1 .. n : 1 + i - 1 = i
    BY <1>7
  <2> QED
    BY <1>6, <1>7, <1>8, <2>1 DEF Begins
<1> QED
  BY <1>1, <1>2, <1>4, <1>9, <1>10 DEF FileInv

\* One more item.
LEMMA SaveGrows ==
  ASSUME FileInv, file # Whole, file' = Append(file, Whole[Len(file) + 1]), UNCHANGED saved
  PROVE  IsSequence(file') /\ Begins(file', Whole')
<1>1. PICK w : w = Whole /\ IsSequence(w)
  BY WholeIs DEF FileInv, Whole
<1>2. PICK l \in Nat : l = Len(w) /\ w = [i \in 1 .. l |-> w[i]]
  BY <1>1 DEF IsSequence
<1>3. PICK n \in Nat : n = Len(file) /\ file = [i \in 1 .. n |-> file[i]]
  BY DEF FileInv, IsSequence
<1>4. n <= l /\ \A i \in 1 .. n : w[i] = file[i]
  BY <1>1, <1>2, <1>3 DEF FileInv, Begins
<1>5. n # l
  BY <1>1, <1>2, <1>3, <1>4
<1>6. /\ IsSequence(file') /\ Len(file') = n + 1
      /\ \A i \in 1 .. n + 1 : file'[i] = IF i <= n THEN file[i] ELSE w[n + 1]
  <2>1. IsSequence(file)
    BY DEF FileInv
  <2> QED
    BY <1>1, <1>3, <2>1, AppendIs
<1>7. Whole' = w
  BY <1>1 DEF Whole
<1>8. \A i \in 1 .. n + 1 : w[i] = file'[i]
  <2> SUFFICES ASSUME NEW i \in 1 .. n + 1 PROVE w[i] = file'[i]
    OBVIOUS
  <2>1. ~(i <= n) => i = n + 1
    BY <1>3
  <2> QED
    BY <1>4, <1>6, <2>1
<1>9. n + 1 <= l
  BY <1>2, <1>3, <1>4, <1>5
<1> QED
  BY <1>2, <1>6, <1>7, <1>8, <1>9 DEF Begins

LEMMA FileInvNext == ModeInv /\ RunInv /\ FileInv /\ [Next]_sessionVars => FileInv'
<1> SUFFICES ASSUME ModeInv, RunInv, FileInv, [Next]_sessionVars PROVE FileInv'
  OBVIOUS
<1> DEFINE Kept == UNCHANGED <<conf, file, saved>>
           Idle == /\ Kept /\ UNCHANGED <<exit, mode, rec>>
                   /\ mode = "replay" => pc' = "done" \/ pc \notin {"launch", "done"}
<1>0. Kept => Whole' = Whole
  BY DEF Whole
<1>1. Idle => FileInv'
  BY <1>0 DEF FileInv, C
<1>2. ASSUME NEW status, Quit(status), status # 0 \/ mode = "replay" \/ ~C.save \/ file = Whole
      PROVE  FileInv'
  BY <1>0, <1>2 DEF FileInv, C, Quit, ioVars
<1> HIDE DEF Kept, Idle
<1> USE DEF Idle, Kept, ioVars, simVars, driveVars
<1>3. CASE LoadFile
  <2>1. CASE Quit(1)
    BY <1>2, <2>1
  <2>2. CASE /\ Load(file) # Rejected /\ pc' = "input" /\ rec' = Load(file) /\ Kept
             /\ UNCHANGED <<exit, mode>> /\ mode = "replay"
    BY <1>0, <2>2 DEF FileInv, C
  <2> QED
    BY <1>3, <2>1, <2>2 DEF LoadFile
<1>4. CASE Stepped
  BY <1>1, <1>4 DEF Stepped, NoneButWindow
<1>5. CASE AppendCsv
  BY <1>1, <1>5 DEF AppendCsv
<1>6. CASE Open
  <2>1. CASE ~C.save /\ Quit(0)
    BY <1>2, <2>1
  <2>2. CASE /\ C.save /\ file' = <<>> /\ saved' = [rec |-> rec, version |-> Version]
             /\ pc = "open" /\ UNCHANGED <<conf, exit, mode>>
    <3>1. mode # "replay" /\ exit # 0
      BY <2>2 DEF ModeInv
    <3>2. IsRecording(saved'.rec) /\ saved'.version \in Nat
      BY <2>2, <3>1 DEF RunInv, RecordingOf, Version
    <3>3. IsSequence(Whole')
      BY <3>2, WholeIs DEF Whole
    <3>4. IsSequence(file') /\ Begins(file', Whole')
      BY <2>2, <3>3 DEF IsSequence, Begins
    <3> QED
      BY <2>2, <3>1, <3>2, <3>4 DEF FileInv
  <2> QED
    BY <1>6, <2>1, <2>2 DEF Open
<1>7. CASE Save
  <2>1. CASE file = Whole /\ Quit(0)
    BY <1>2, <2>1
  <2>2. CASE /\ file # Whole /\ file' = Append(file, Whole[Len(file) + 1])
             /\ pc = "save" /\ UNCHANGED <<conf, pc, exit, mode, saved>>
    <3>1. IsSequence(file') /\ Begins(file', Whole')
      BY <2>2, SaveGrows
    <3>2. exit # 0 /\ mode # "replay"
      BY <2>2 DEF ModeInv
    <3> QED
      BY <2>2, <3>1, <3>2 DEF FileInv
  <2> QED
    BY <1>7, <2>1, <2>2 DEF Save
<1>8. CASE Closed
  BY <1>2, <1>8 DEF Closed, ModeInv
<1>9. CASE HandleInput
  BY <1>1, <1>9 DEF HandleInput, NoneButWindow
<1>10. CASE UpdateLive
  BY <1>1, <1>10 DEF UpdateLive, Live
<1>11. CASE UpdateLiveCursor
  BY <1>1, <1>11 DEF UpdateLiveCursor, NoneButWindow
<1>12. CASE Draw
  BY <1>1, <1>12 DEF Draw, NoneButWindow
<1>13. CASE DrawBeyondEnd
  BY <1>1, <1>13 DEF DrawBeyondEnd, NoneButWindow
<1>14. CASE \E by \in 0 .. C.maxAdvance : UpdateCursor(by)
  BY <1>1, <1>14 DEF UpdateCursor, NoneButWindow
<1>15. CASE Kill
  BY <1>2, <1>15 DEF Kill
<1>16. CASE Relaunch
  BY <1>0, <1>16 DEF Relaunch, FileInv
<1>17. CASE CloseWindow
  BY <1>1, <1>17 DEF CloseWindow, NoneButWindow
<1>18. ASSUME NEW next, Start(next), UNCHANGED <<mode, file, saved>>, mode # "replay", exit # 0
       PROVE  FileInv'
  <2>1. Whole' = Whole /\ exit' # 0
    BY <1>18 DEF Whole, Start
  <2> QED
    BY <1>18, <2>1 DEF FileInv
<1>19. CASE StartHeadless
  BY <1>18, <1>19 DEF StartHeadless, ModeInv
<1>20. CASE StartLive
  BY <1>18, <1>20 DEF StartLive, ModeInv
<1>21. CASE Step
  <2>1. mode # "replay" /\ exit # 0 /\ UNCHANGED <<mode, file, saved, exit>>
    BY <1>21 DEF Step, SetInputs, Advance, ModeInv
  <2>2. Whole' = Whole
    BY <2>1 DEF Whole
  <2> QED
    BY <2>1, <2>2 DEF FileInv
<1>22. CASE UNCHANGED sessionVars
  BY <1>0, <1>22 DEF sessionVars, FileInv, C
<1> QED
  BY <1>3, <1>4, <1>5, <1>6, <1>7, <1>8, <1>9, <1>10, <1>11, <1>12, <1>13, <1>14, <1>15,
     <1>16, <1>17, <1>19, <1>20, <1>21, <1>22 DEF Next, Program

\* What load() makes of the file there is.
LEMMA FileLoads ==
  ASSUME FileInv
  PROVE  LET r == saved.rec
             version == saved.version
         IN /\ Len(file) < 2 \/ ~Readable(version) => Load(file) = Rejected
            /\ Load(file) # Rejected => ReadAs(Load(file), Len(file), r, version)
            /\ file = Whole /\ Readable(version) => Load(file) = InFormat(r, version)
<1> DEFINE r == saved.rec
           version == saved.version
<1>1. Savable(r) /\ version \in Nat /\ IsRecording(r)
  BY RecordingSavable DEF FileInv
<1>2. PICK e : CarsAt(e, r) /\ LaidOut(Layout(r, version), r, version, e)
  BY <1>1, LayoutLays
<1>3. Begins(file, Layout(r, version)) /\ Len(file) \in Nat
  BY DEF FileInv, Whole, IsSequence
<1> HIDE DEF r, version
<1>4. /\ Len(file) < 2 \/ ~Readable(version) => Load(file) = Rejected
      /\ Len(file) >= 2 /\ Readable(version) =>
           /\ ReadAs(Load(file), Len(file), r, version)
           /\ Len(file) = Len(Layout(r, version)) => Load(file) = InFormat(r, version)
  BY <1>1, <1>2, <1>3, LoadReads
<1>5. Len(file) < 2 \/ Len(file) >= 2
  BY <1>3
<1>6. file = Whole => Len(file) = Len(Layout(r, version)) /\ Len(file) >= 2
  <2>1. PICK b \in Nat : b = FramesAt(r, version) /\ b >= 2
    <3>1. PICK o \in Nat : o = Len(r.offsets)
      BY <1>1 DEF Savable, IsSequence
    <3>2. PICK s \in Nat : s = Len(r.summary)
      BY <1>1 DEF Savable, IsSequence
    <3>3. PICK q \in {4, 5} : q = OffsetsAt(version)
      BY DEF OffsetsAt
    <3>4. PICK a \in Nat : a = SummaryAt(r, version) /\ a >= 2
      BY <3>1, <3>3 DEF SummaryAt
    <3>5. FramesAt(r, version) = (a + s) + 1
      BY <3>2, <3>4 DEF FramesAt
    <3> QED
      BY <3>4, <3>5
  <2>2. PICK z \in Nat : z = e[Len(r.frames)]
    <3>1. PICK f \in Nat : f = Len(r.frames)
      BY <1>1 DEF Savable, IsSequence
    <3>2. f \in 0 .. f /\ e \in [0 .. f -> Nat]
      BY <1>2, <3>1 DEF CarsAt
    <3> QED
      BY <3>1, <3>2
  <2>3. Len(Layout(r, version)) = b + z
    BY <1>2, <2>1, <2>2 DEF LaidOut
  <2> QED
    BY <2>1, <2>2, <2>3 DEF Whole, r, version
<1> QED
  BY <1>4, <1>5, <1>6 DEF r, version

LEMMA FileInvRoundTrip == FileInv => RoundTrip
<1> SUFFICES ASSUME FileInv PROVE RoundTrip
  OBVIOUS
<1> DEFINE r == saved.rec
           version == saved.version
           loaded == Load(file)
           original == InFormat(r, version)
<1>1. Readable(version) <=> version \in 2 .. Version
  BY DEF Readable
<1>2. /\ Len(file) < 2 \/ ~Readable(version) => loaded = Rejected
      /\ loaded # Rejected => ReadAs(loaded, Len(file), r, version)
      /\ file = Whole /\ Readable(version) => loaded = original
  BY FileLoads
<1>3. /\ original.meta = r.meta
      /\ original.summary = [i \in DOMAIN r.summary |-> SummaryIn(version, r.summary[i])]
      /\ original.frames = [v \in DOMAIN r.frames |->
                             [i \in DOMAIN r.frames[v] |-> FrameIn(version, r.frames[v][i])]]
  BY DEF InFormat
<1>4. /\ DOMAIN r.summary = 1 .. Len(r.summary) /\ DOMAIN r.frames = 1 .. Len(r.frames)
      /\ \A v \in 1 .. Len(r.frames) : DOMAIN r.frames[v] = 1 .. Len(r.frames[v])
  BY RecordingSavable DEF FileInv, Savable, IsSequence
<1>5. pc = "input" /\ mode = "replay" => rec = loaded
  BY DEF FileInv
<1>6. exit = 0 /\ mode # "replay" /\ C.save => file = Whole
  BY DEF FileInv
<1> HIDE DEF r, version, loaded, original
<1>7. ASSUME loaded # Rejected
      PROVE  /\ loaded.meta \in {original.meta, NoMeta}
             /\ \A i \in DOMAIN loaded.summary :
                  loaded.summary[i] \in {original.summary[i], NoSummary}
             /\ \A v \in DOMAIN loaded.frames : \A i \in DOMAIN loaded.frames[v] :
                  loaded.frames[v][i] \in {original.frames[v][i], NoFrame}
  <2>1. ReadAs(loaded, Len(file), r, version)
    BY <1>2, <1>7
  <2>2. loaded.meta \in {original.meta, NoMeta}
    BY <1>3, <2>1 DEF ReadAs
  <2>3. ASSUME NEW i \in DOMAIN loaded.summary
        PROVE  loaded.summary[i] \in {original.summary[i], NoSummary}
    BY <1>3, <1>4, <2>1 DEF ReadAs
  <2>4. ASSUME NEW v \in DOMAIN loaded.frames, NEW i \in DOMAIN loaded.frames[v]
        PROVE  loaded.frames[v][i] \in {original.frames[v][i], NoFrame}
    <3>1. /\ v \in 1 .. Len(r.frames) /\ i \in 1 .. Len(r.frames[v])
          /\ loaded.frames[v][i] \in {FrameIn(version, r.frames[v][i]), NoFrame}
      BY <2>1, <2>4 DEF ReadAs
    <3>2. original.frames[v][i] = FrameIn(version, r.frames[v][i])
      BY <1>3, <1>4, <3>1
    <3> QED
      BY <3>1, <3>2
  <2> QED
    BY <2>2, <2>3, <2>4
<1>8. /\ file = Whole => loaded = IF version \in 2 .. Version THEN original ELSE Rejected
      /\ Len(file) < 2 => loaded = Rejected
      /\ loaded # Rejected => version \in 2 .. Version
  BY <1>1, <1>2
<1> QED
  BY <1>5, <1>6, <1>7, <1>8 DEF RoundTrip, loaded, original, r, version

-----------------------------------------------------------------------------
(* What a window shows *)

\* The frame i of a car is that of the i-th tick that is recorded.
FrameRight(r, f, i) ==
  r.version >= 4 /\ f # NoFrame => f.phys = f.t /\ f.t = (i - 1) * r.meta.decimation

\* What a window is fed with.
Showable(r) ==
  /\ r.version \in Nat /\ r.meta.cars \in Nat
  /\ IsSequence(r.frames) /\ \A v \in 1 .. Len(r.frames) : IsSequence(r.frames[v])
  /\ \A v \in 1 .. Len(r.frames) : \A i \in 1 .. Len(r.frames[v]) : FrameRight(r, r.frames[v][i], i)

\* All of it: every car has as many frames as the first.
Complete(r) ==
  /\ Len(r.frames) = r.meta.cars
  /\ \A v \in 1 .. Len(r.frames) : Len(r.frames[v]) = Len(r.frames[1])

LEMMA RecordingShows ==
  ASSUME NEW r, IsRecording(r), r.version \in Nat
  PROVE  Showable(r) /\ Complete(r)
<1>1. /\ r.meta.cars \in Nat /\ IsSequence(r.frames) /\ Len(r.frames) = r.meta.cars
      /\ \A v \in 1 .. r.meta.cars :
           /\ IsSequence(r.frames[v]) /\ Len(r.frames[v]) = Len(r.frames[1])
           /\ \A i \in 1 .. Len(r.frames[v]) :
                /\ r.frames[v][i].t = (i - 1) * r.meta.decimation
                /\ r.frames[v][i].phys = r.frames[v][i].t
  BY DEF IsRecording
<1> QED
  BY <1>1 DEF Showable, Complete, FrameRight

LEMMA LoadedShows ==
  ASSUME NEW r, IsRecording(r), NEW version \in Nat, NEW x, NEW n \in Nat, ReadAs(x, n, r, version)
  PROVE  Showable(x)
<1>1. /\ r.meta.cars \in Nat /\ IsSequence(r.frames) /\ Len(r.frames) = r.meta.cars
      /\ \A v \in 1 .. r.meta.cars :
           \A i \in 1 .. Len(r.frames[v]) :
                /\ r.frames[v][i].t = (i - 1) * r.meta.decimation
                /\ r.frames[v][i].phys = r.frames[v][i].t
  BY DEF IsRecording
<1>2. /\ IsSequence(x.frames) /\ DOMAIN x.frames = 1 .. Len(x.frames)
      /\ \A v \in 1 .. Len(x.frames) :
           IsSequence(x.frames[v]) /\ DOMAIN x.frames[v] = 1 .. Len(x.frames[v])
  BY DEF ReadAs, IsSequence
<1>3. x.version \in Nat /\ x.meta.cars \in Nat
  BY <1>1 DEF ReadAs, NoMeta
<1>4. FramesAt(r, version) \in Nat /\ FramesAt(r, version) >= 3
  <2>1. PICK o \in Nat : o = Len(r.offsets)
    BY DEF IsRecording, IsSequence
  <2>2. PICK s \in Nat : s = Len(r.summary)
    BY DEF IsRecording, IsSequence
  <2>3. PICK k \in 4 .. 5 : k = OffsetsAt(version)
    BY DEF OffsetsAt
  <2>4. FramesAt(r, version) = k + o + 1 + s + 1
    BY <2>1, <2>2, <2>3 DEF FramesAt, SummaryAt
  <2>5. PICK z \in Nat : z = k + o + 1 + s + 1 /\ z >= 3
    OBVIOUS
  <2> QED
    BY <2>4, <2>5
<1>5. ASSUME NEW v \in 1 .. Len(x.frames), NEW i \in 1 .. Len(x.frames[v])
      PROVE  FrameRight(x, x.frames[v][i], i)
  <2> SUFFICES ASSUME version >= 4, x.frames[v][i] # NoFrame
               PROVE  /\ x.frames[v][i].phys = x.frames[v][i].t
                      /\ x.frames[v][i].t = (i - 1) * x.meta.decimation
    BY DEF ReadAs, FrameRight
  <2>1. /\ v \in 1 .. r.meta.cars /\ n >= FramesAt(r, version) /\ i \in 1 .. Len(r.frames[v])
        /\ x.frames[v][i] = FrameIn(version, r.frames[v][i])
    BY <1>1, <1>2 DEF ReadAs
  <2>2. x.frames[v][i] = r.frames[v][i]
    BY <2>1 DEF FrameIn
  <2>3. n >= 3
    BY <1>4, <2>1
  <2>4. x.meta = r.meta
    BY <2>3 DEF ReadAs
  <2> QED
    BY <1>1, <2>1, <2>2, <2>4
<1> QED
  BY <1>2, <1>3, <1>5 DEF Showable

LEMMA InFormatComplete ==
  ASSUME NEW r, IsRecording(r), NEW version
  PROVE  Complete(InFormat(r, version))
<1> DEFINE x == InFormat(r, version)
<1>1. /\ x.meta = r.meta
      /\ x.frames = [v \in DOMAIN r.frames |->
                      [i \in DOMAIN r.frames[v] |-> FrameIn(version, r.frames[v][i])]]
  BY DEF InFormat
<1>2. PICK n \in Nat : n = r.meta.cars /\ DOMAIN r.frames = 1 .. n
  BY DEF IsRecording, IsSequence
<1>3. \A v \in 1 .. n : /\ Len(r.frames[v]) \in Nat /\ DOMAIN r.frames[v] = 1 .. Len(r.frames[v])
                        /\ Len(r.frames[v]) = Len(r.frames[1])
  BY <1>2 DEF IsRecording, IsSequence
<1> HIDE DEF x
<1>4. Len(x.frames) = n
  BY <1>1, <1>2
<1>5. ASSUME NEW v \in 1 .. n PROVE Len(x.frames[v]) = Len(r.frames[1])
  <2>1. PICK k \in Nat : k = Len(r.frames[v]) /\ DOMAIN r.frames[v] = 1 .. k
    BY <1>3
  <2>2. x.frames[v] = [i \in 1 .. k |-> FrameIn(version, r.frames[v][i])]
    BY <1>1, <1>2, <2>1
  <2>3. Len(x.frames[v]) = k
    BY <2>2
  <2> QED
    BY <1>3, <2>1, <2>3
<1>6. \A v \in 1 .. n : Len(x.frames[v]) = Len(x.frames[1])
  BY <1>5
<1> QED
  BY <1>1, <1>2, <1>4, <1>6 DEF Complete, x

\* A window is open, or has been.
Watching == mode # "headless" /\ pc \notin {"launch", "done"}

LEMMA Shown ==
  ModeInv /\ RunInv /\ FileInv /\ Watching =>
    Showable(rec) /\ (file = Whole \/ mode = "live" => Complete(rec))
<1> SUFFICES ASSUME ModeInv, RunInv, FileInv, Watching
             PROVE  Showable(rec) /\ (file = Whole \/ mode = "live" => Complete(rec))
  OBVIOUS
<1>1. CASE mode # "replay"
  BY <1>1, RecordingShows DEF RunInv, RecordingOf, Version
<1>2. CASE mode = "replay"
  <2>1. Load(file) # Rejected /\ rec = Load(file)
    BY <1>2 DEF FileInv, Watching
  <2>2. /\ IsRecording(saved.rec) /\ saved.version \in Nat /\ Len(file) \in Nat
        /\ ReadAs(rec, Len(file), saved.rec, saved.version)
        /\ file = Whole => rec = InFormat(saved.rec, saved.version)
    BY <2>1, FileLoads DEF FileInv, IsSequence
  <2>3. Showable(rec)
    BY <2>2, LoadedShows
  <2> QED
    BY <1>2, <2>2, <2>3, InFormatComplete
<1> QED
  BY <1>1, <1>2

LEMMA AvailableIs ==
  ASSUME Showable(rec)
  PROVE  /\ Available \in Nat
         /\ Available > 0 => 1 \in DOMAIN rec.frames /\ Len(rec.frames[1]) = Available
         /\ LastFrame \in Nat /\ LastFrame = IF Available = 0 THEN 0 ELSE Available - 1
<1>1. PICK n \in Nat : n = Len(rec.frames) /\ rec.frames = [v \in 1 .. n |-> rec.frames[v]]
  BY DEF Showable, IsSequence
<1>2. rec.frames # <<>> => 1 \in 1 .. n
  BY <1>1
<1>3. rec.frames # <<>> => Len(rec.frames[1]) \in Nat /\ 1 \in DOMAIN rec.frames
  BY <1>1, <1>2 DEF Showable, IsSequence
<1>4. PICK a \in Nat : a = Available /\ (a > 0 => 1 \in DOMAIN rec.frames /\ Len(rec.frames[1]) = a)
  BY <1>3 DEF Available, Frames
<1>5. Max({0, a - 1}) = IF 0 < a - 1 THEN a - 1 ELSE 0
  BY MaxOfTwo
<1>6. LastFrame = IF a = 0 THEN 0 ELSE a - 1
  BY <1>4, <1>5 DEF LastFrame
<1> QED
  BY <1>4, <1>6

LEMMA ClampIs ==
  ASSUME Showable(rec), NEW x \in Int
  PROVE  Clamp(x) \in 0 .. 2 * LastFrame
<1>1. PICK l \in Nat : l = LastFrame
  BY AvailableIs
<1>2. Min({x, 2 * l}) = IF x < 2 * l THEN x ELSE 2 * l
  BY MinOfTwo
<1>3. PICK m \in Int : m = Min({x, 2 * l}) /\ m <= 2 * l
  BY <1>2
<1>4. Max({0, m}) = IF 0 < m THEN m ELSE 0
  BY MaxOfTwo
<1> QED
  BY <1>1, <1>3, <1>4 DEF Clamp

WindowLike(w) ==
  /\ w = [cursor |-> w.cursor, playing |-> w.playing, selected |-> w.selected,
          frame |-> w.frame, drawn |-> w.drawn, cached |-> w.cached,
          replayPred |-> w.replayPred, shown |-> w.shown]
  /\ w.cursor \in Int /\ w.selected \in Nat

\* The prediction that a replay makes of a frame of a car.
PredictionAt(r, car, frame) ==
  [car |-> car + 1, from |-> r.frames[car + 1][frame + 1].phys,
   base |-> IF r.plant.kind = "pole" THEN frame * r.meta.decimation
            ELSE r.frames[car + 1][frame + 1].ref]

\* What was cached is still what would be computed.
CacheRight(w) ==
  w.cached.car # -1 =>
    ~Live /\ w.replayPred = PredictionAt(rec, w.cached.car, w.cached.frame)

ShownRight(w) ==
  w.shown # NoOverlay =>
    /\ w.selected + 1 \in DOMAIN rec.frames /\ w.frame < Len(rec.frames[w.selected + 1])
    /\ Live => w.frame = Available - 1 /\ w.shown = PredictionOf(w.selected + 1, sim.step)
    /\ ~Live => rec.version >= 4 /\ w.shown = PredictionAt(rec, w.selected, w.frame)

\* The window at any time.
WindowRight(w) ==
  /\ WindowLike(w) /\ CacheRight(w)
  /\ C.select < rec.meta.cars => w.selected < rec.meta.cars
  /\ Available = 0 => w.shown = NoOverlay

WindowInv ==
  /\ mode = "live" /\ pc = "launch" => viz = NewWindow
  /\ Watching =>
       /\ WindowRight(viz)
       /\ pc \in {"input", "update", "draw"} => viz.frame \in 0 .. LastFrame
       /\ pc = "draw" /\ Live /\ Available > 0 => viz.frame = Available - 1
       /\ pc = "input" => ShownRight(viz)
  /\ ReplayDefined

\* What leaves the recording, the window and the run as they are.
Watched ==
  /\ UNCHANGED <<conf, rec, viz, mode, file, saved>> /\ sim'.step = sim.step
  /\ \/ pc' \in {pc, "done"}
     \/ /\ pc \notin {"launch", "done"}
        /\ pc' \notin {"launch", "input", "update", "draw", "undefined"}

LEMMA ViewKept ==
  ASSUME UNCHANGED <<conf, rec, mode>>, sim'.step = sim.step
  PROVE  /\ Available' = Available /\ LastFrame' = LastFrame /\ Live' = Live /\ C' = C
         /\ \A w : WindowRight(w)' = WindowRight(w) /\ ShownRight(w)' = ShownRight(w)
<1>1. C' = C /\ Live' = Live
  BY DEF C, Live, Finished
<1>2. Available' = Available
  BY DEF Available, Frames
<1>3. LastFrame' = LastFrame
  BY <1>2 DEF LastFrame
<1>4. \A w : CacheRight(w)' = CacheRight(w)
  BY <1>1 DEF CacheRight
<1>5. \A v : PredictionOf(v, sim.step)' = PredictionOf(v, sim.step)
  BY <1>1 DEF PredictionOf, Refreshed, RefStep, Lap
<1>6. \A w : ShownRight(w)' = ShownRight(w)
  BY <1>1, <1>2, <1>5 DEF ShownRight
<1>7. \A w : WindowRight(w)' = WindowRight(w)
  BY <1>1, <1>2, <1>4 DEF WindowRight
<1> QED
  BY <1>1, <1>2, <1>3, <1>6, <1>7

LEMMA WatchedKeeps == WindowInv /\ Watched => WindowInv'
<1> SUFFICES ASSUME WindowInv, Watched PROVE WindowInv'
  OBVIOUS
<1>1. /\ Available' = Available /\ LastFrame' = LastFrame /\ Live' = Live /\ C' = C
      /\ WindowRight(viz)' = WindowRight(viz) /\ ShownRight(viz)' = ShownRight(viz)
  BY ViewKept DEF Watched
<1>2. Whole' = Whole
  BY DEF Watched, Whole
<1>3. ReplayDefined'
  BY <1>1, <1>2 DEF Watched, WindowInv, ReplayDefined
<1>4. Watching' => Watching
  BY DEF Watched, Watching
<1>5. mode' = "live" /\ pc' = "launch" => viz' = NewWindow'
  BY <1>1 DEF Watched, WindowInv, NewWindow
<1> QED
  BY <1>1, <1>3, <1>4, <1>5 DEF WindowInv, Watched

LEMMA FrameInView ==
  ASSUME Showable(rec), NEW x \in Int
  PROVE  Clamp(x) \div 2 \in 0 .. LastFrame
<1>1. PICK l \in Nat : l = LastFrame
  BY AvailableIs
<1>2. PICK y \in Nat : y = Clamp(x) /\ y <= 2 * l
  BY <1>1, ClampIs
<1> QED
  BY <1>1, <1>2

LEMMA LatestInView ==
  ASSUME Showable(rec)
  PROVE  Clamp(2 * LastFrame) \div 2 = LastFrame
<1>1. PICK l \in Nat : l = LastFrame
  BY AvailableIs
<1>2. Min({2 * l, 2 * l}) = 2 * l
  BY MinOfTwo
<1>3. Max({0, 2 * l}) = 2 * l
  BY MaxOfTwo
<1>4. Clamp(2 * l) = 2 * l
  BY <1>1, <1>2, <1>3 DEF Clamp
<1>5. (2 * l) \div 2 = l
  OBVIOUS
<1> QED
  BY <1>1, <1>4, <1>5

\* A step in the window changes it and nothing else.
LEMMA WindowStep ==
  ASSUME WindowInv, UNCHANGED <<conf, rec, mode, file, saved>>, sim'.step = sim.step,
         pc' \in {"input", "update", "draw", "closed", "open"}, Watching,
         WindowRight(viz'),
         pc' \in {"input", "update", "draw"} => viz'.frame \in 0 .. LastFrame,
         pc' = "draw" /\ Live /\ Available > 0 => viz'.frame = Available - 1,
         pc' = "input" => ShownRight(viz')
  PROVE  WindowInv'
<1>1. /\ Available' = Available /\ LastFrame' = LastFrame /\ Live' = Live /\ C' = C
      /\ WindowRight(viz)' /\ (pc' = "input" => ShownRight(viz)')
  <2>1. \A w : WindowRight(w)' = WindowRight(w) /\ ShownRight(w)' = ShownRight(w)
    BY ViewKept
  <2>2. WindowRight(viz)' /\ (pc' = "input" => ShownRight(viz)')
    BY <2>1
  <2> QED
    BY <2>2, ViewKept
<1>2. Watching' /\ ReplayDefined'
  BY DEF Watching, ReplayDefined
<1> QED
  BY <1>1, <1>2 DEF WindowInv

LEMMA InputShown ==
  ASSUME WindowInv, Showable(rec), HandleInput, Watching
  PROVE  WindowInv'
<1>1. /\ UNCHANGED <<conf, rec, mode, file, saved, sim>> /\ pc' = "update" /\ pc = "input"
  BY DEF HandleInput, NoneButWindow, simVars, driveVars, ioVars
<1>2. /\ WindowRight(viz) /\ viz.frame \in 0 .. LastFrame
  BY <1>1 DEF WindowInv
<1>3. PICK w : w = viz'
  OBVIOUS
<1>4. \/ w = viz
      \/ w = [viz EXCEPT !.playing = ~@]
      \/ w = [viz EXCEPT !.selected = NextCar(@)]
      \/ \E by \in -C.maxAdvance .. C.maxAdvance :
           w = [viz EXCEPT !.playing = FALSE, !.cursor = Clamp(@ + by)]
  BY <1>3 DEF HandleInput
<1>5. viz = [cursor |-> viz.cursor, playing |-> viz.playing, selected |-> viz.selected,
             frame |-> viz.frame, drawn |-> viz.drawn, cached |-> viz.cached,
             replayPred |-> viz.replayPred, shown |-> viz.shown]
  BY <1>2 DEF WindowRight, WindowLike
<1>6. CASE w = viz
  BY <1>1, <1>2, <1>3, <1>6, WindowStep
<1>7. CASE w = [viz EXCEPT !.playing = ~@]
  <2>1. /\ WindowLike(w) /\ w.selected = viz.selected /\ w.frame = viz.frame
        /\ w.cached = viz.cached /\ w.replayPred = viz.replayPred /\ w.shown = viz.shown
    BY <1>2, <1>5, <1>7 DEF WindowRight, WindowLike
  <2>2. WindowRight(w)
    BY <1>2, <2>1 DEF WindowRight, CacheRight
  <2> QED
    BY <1>1, <1>2, <1>3, <2>1, <2>2, WindowStep
<1>8. CASE w = [viz EXCEPT !.selected = NextCar(@)]
  <2>1. PICK n \in Nat : n = rec.meta.cars
    BY DEF Showable
  <2>2. PICK s \in Nat : s = viz.selected
    BY <1>2 DEF WindowRight, WindowLike
  <2>3. NextCar(s) \in Nat /\ (n # 0 => NextCar(s) < n)
    <3>1. CASE n = 0
      BY <2>1, <3>1 DEF NextCar
    <3>2. CASE n # 0
      <4>1. (s + 1) % n \in 0 .. n - 1
        BY <3>2
      <4> QED
        BY <2>1, <3>2, <4>1 DEF NextCar
    <3> QED
      BY <3>1, <3>2
  <2>4. /\ WindowLike(w) /\ w.selected = NextCar(s) /\ w.frame = viz.frame
        /\ w.cached = viz.cached /\ w.replayPred = viz.replayPred /\ w.shown = viz.shown
    BY <1>2, <1>5, <1>8, <2>2, <2>3 DEF WindowRight, WindowLike
  <2>5. C.select < n => w.selected < n
    <3>1. CASE n = 0
      BY <1>2, <2>1, <2>2, <2>4, <3>1 DEF WindowRight, NextCar
    <3>2. CASE n # 0
      BY <2>3, <2>4, <3>2
    <3> QED
      BY <3>1, <3>2
  <2>6. WindowRight(w)
    BY <1>2, <2>1, <2>4, <2>5 DEF WindowRight, CacheRight
  <2> QED
    BY <1>1, <1>2, <1>3, <2>4, <2>6, WindowStep
<1>9. ASSUME NEW by \in -C.maxAdvance .. C.maxAdvance,
             w = [viz EXCEPT !.playing = FALSE, !.cursor = Clamp(@ + by)]
      PROVE  WindowInv'
  <2>1. PICK c \in Int : c = Clamp(viz.cursor + by)
    <3>1. viz.cursor + by \in Int
      BY <1>2, <1>9 DEF WindowRight, WindowLike
    <3>2. Clamp(viz.cursor + by) \in 0 .. 2 * LastFrame
      BY <3>1, ClampIs
    <3> QED
      BY <3>2
  <2>2. /\ WindowLike(w) /\ w.selected = viz.selected /\ w.frame = viz.frame
        /\ w.cached = viz.cached /\ w.replayPred = viz.replayPred /\ w.shown = viz.shown
    BY <1>2, <1>5, <1>9, <2>1 DEF WindowRight, WindowLike
  <2>3. WindowRight(w)
    BY <1>2, <2>2 DEF WindowRight, CacheRight
  <2> QED
    BY <1>1, <1>2, <1>3, <2>2, <2>3, WindowStep
<1> QED
  BY <1>4, <1>6, <1>7, <1>8, <1>9

LEMMA CursorShown ==
  ASSUME WindowInv, Showable(rec), Watching, conf \in DOMAIN Config,
         NEW by \in 0 .. C.maxAdvance, UpdateCursor(by)
  PROVE  WindowInv'
<1>1. /\ UNCHANGED <<conf, rec, mode, file, saved, sim>> /\ pc' = "draw" /\ pc = "update" /\ ~Live
  BY DEF UpdateCursor, NoneButWindow, simVars, driveVars, ioVars
<1>2. WindowRight(viz)
  BY DEF WindowInv
<1>3. PICK p : p = IF viz.playing THEN Played(viz, by) ELSE viz
  OBVIOUS
<1>4. viz = [cursor |-> viz.cursor, playing |-> viz.playing, selected |-> viz.selected,
             frame |-> viz.frame, drawn |-> viz.drawn, cached |-> viz.cached,
             replayPred |-> viz.replayPred, shown |-> viz.shown]
      /\ viz.cursor \in Int
  BY <1>2 DEF WindowRight, WindowLike
<1>5. PICK a \in Nat : a = Available
  BY AvailableIs
<1>6. /\ WindowLike(p) /\ p.selected = viz.selected
      /\ p.cached = viz.cached /\ p.replayPred = viz.replayPred /\ p.shown = viz.shown
  <2>1. viz.cursor + by \in Int /\ 2 * (a - 1) \in Int
    BY <1>4, <1>5
  <2> QED
    BY <1>2, <1>3, <1>4, <1>5, <2>1 DEF Played, WindowRight, WindowLike
<1>7. PICK k \in 0 .. LastFrame : k = Clamp(p.cursor) \div 2
  BY <1>6, FrameInView DEF WindowLike
<1>8. PICK w : w = viz' /\ w = [p EXCEPT !.frame = k]
  BY <1>3, <1>7 DEF UpdateCursor, At
<1>9. /\ WindowLike(w) /\ w.selected = viz.selected /\ w.frame = k
      /\ w.cached = viz.cached /\ w.replayPred = viz.replayPred /\ w.shown = viz.shown
  BY <1>6, <1>8 DEF WindowLike
<1>10. WindowRight(w)
  BY <1>2, <1>9 DEF WindowRight, CacheRight
<1> QED
  BY <1>1, <1>7, <1>8, <1>9, <1>10, WindowStep

LEMMA LatestShown ==
  ASSUME WindowInv, Showable(rec), Watching, UpdateLiveCursor
  PROVE  WindowInv'
<1>1. /\ UNCHANGED <<conf, rec, mode, file, saved, sim>> /\ pc' = "draw" /\ pc = "cursor"
  BY DEF UpdateLiveCursor, NoneButWindow, simVars, driveVars, ioVars
<1>2. WindowRight(viz)
  BY DEF WindowInv
<1>4. viz = [cursor |-> viz.cursor, playing |-> viz.playing, selected |-> viz.selected,
             frame |-> viz.frame, drawn |-> viz.drawn, cached |-> viz.cached,
             replayPred |-> viz.replayPred, shown |-> viz.shown]
  BY <1>2 DEF WindowRight, WindowLike
<1>5. PICK l \in Nat : l = LastFrame
  BY AvailableIs
<1>6. PICK p : p = [viz EXCEPT !.cursor = 2 * LastFrame]
  OBVIOUS
<1>7. /\ p.cursor = 2 * l /\ WindowLike(p) /\ p.selected = viz.selected
      /\ p.cached = viz.cached /\ p.replayPred = viz.replayPred /\ p.shown = viz.shown
  <2>1. 2 * l \in Int
    OBVIOUS
  <2> QED
    BY <1>2, <1>4, <1>5, <1>6, <2>1 DEF WindowRight, WindowLike
<1>8. PICK w : w = viz' /\ w = [p EXCEPT !.frame = l]
  <2>1. Clamp(p.cursor) \div 2 = l
    BY <1>5, <1>7, LatestInView
  <2> QED
    BY <1>6, <2>1 DEF UpdateLiveCursor, At
<1>9. /\ WindowLike(w) /\ w.selected = viz.selected /\ w.frame = l
      /\ w.cached = viz.cached /\ w.replayPred = viz.replayPred /\ w.shown = viz.shown
  BY <1>7, <1>8 DEF WindowLike
<1>10. WindowRight(w)
  BY <1>2, <1>9 DEF WindowRight, CacheRight
<1>11. l \in 0 .. l /\ (Available > 0 => l = Available - 1)
  <2>1. PICK a \in Nat : a = Available
    BY AvailableIs
  <2> QED
    BY <1>5, <2>1, AvailableIs
<1> QED
  BY <1>1, <1>5, <1>8, <1>9, <1>10, <1>11, WindowStep

LEMMA OverlayDrawn ==
  ASSUME RunInv, Showable(rec), WindowRight(viz), Available > 0, ~BeyondEnd,
         Live => viz.frame = Available - 1
  PROVE  WindowRight(WithOverlay(viz)) /\ ShownRight(WithOverlay(viz))
         /\ WithOverlay(viz).frame = viz.frame
<1>1. viz = [cursor |-> viz.cursor, playing |-> viz.playing, selected |-> viz.selected,
             frame |-> viz.frame, drawn |-> viz.drawn, cached |-> viz.cached,
             replayPred |-> viz.replayPred, shown |-> viz.shown]
      /\ viz.cursor \in Int /\ viz.selected \in Nat
  BY DEF WindowRight, WindowLike
<1>2. viz.selected + 1 \in DOMAIN rec.frames /\ viz.frame < Len(rec.frames[viz.selected + 1])
  BY DEF BeyondEnd, InRange, Selected, Frames
<1>3. PICK w : w = WithOverlay(viz)
  OBVIOUS
<1>4. Available # 0
  BY AvailableIs
<1>5. CASE Live
  <2>1. w = [viz EXCEPT !.shown = pred[Selected]]
    BY <1>3, <1>5 DEF WithOverlay
  <2>2. mode # "replay" /\ Selected \in Car
    <3>1. mode = "live"
      BY <1>5 DEF Live
    <3>2. Len(rec.frames) = C.cars /\ DOMAIN rec.frames = 1 .. Len(rec.frames)
      <4>1. IsRecording(rec) /\ rec.meta = Meta
        BY <3>1 DEF RunInv, RecordingOf
      <4>2. Meta.cars = C.cars
        BY DEF Meta
      <4> QED
        BY <4>1, <4>2 DEF IsRecording, IsSequence
    <3> QED
      BY <1>2, <3>1, <3>2 DEF Selected, Car
  <2>3. pred[Selected] = PredictionOf(viz.selected + 1, sim.step)
    BY <2>2 DEF RunInv, Selected
  <2>4. /\ WindowLike(w) /\ w.selected = viz.selected /\ w.frame = viz.frame
        /\ w.cached = viz.cached /\ w.replayPred = viz.replayPred
        /\ w.shown = PredictionOf(viz.selected + 1, sim.step)
    BY <1>1, <2>1, <2>3 DEF WindowLike
  <2> QED
    BY <1>2, <1>3, <1>4, <1>5, <2>4 DEF WindowRight, CacheRight, ShownRight
<1>6. CASE ~Live /\ rec.version < 4
  <2>1. w = [viz EXCEPT !.shown = NoOverlay]
    BY <1>3, <1>6 DEF WithOverlay
  <2>2. /\ WindowLike(w) /\ w.selected = viz.selected /\ w.frame = viz.frame
        /\ w.cached = viz.cached /\ w.replayPred = viz.replayPred
        /\ w.shown = NoOverlay
    BY <1>1, <2>1 DEF WindowLike
  <2> QED
    BY <1>3, <2>2 DEF WindowRight, CacheRight, ShownRight
<1>7. CASE ~Live /\ ~(rec.version < 4) /\ CachedFor(viz)
  <2>1. w = [viz EXCEPT !.shown = viz.replayPred]
    BY <1>3, <1>7 DEF WithOverlay
  <2>2. viz.cached.car = viz.selected /\ viz.cached.frame = viz.frame /\ viz.selected # -1
    BY <1>1, <1>7 DEF CachedFor
  <2>3. viz.replayPred = PredictionAt(rec, viz.selected, viz.frame)
    BY <2>2 DEF WindowRight, CacheRight
  <2>4. /\ WindowLike(w) /\ w.selected = viz.selected /\ w.frame = viz.frame
        /\ w.cached = viz.cached /\ w.replayPred = viz.replayPred
        /\ w.shown = PredictionAt(rec, viz.selected, viz.frame)
    BY <1>1, <2>1, <2>3 DEF WindowLike
  <2>5. rec.version >= 4
    BY <1>7 DEF Showable
  <2> QED
    BY <1>2, <1>3, <1>4, <1>7, <2>4, <2>5 DEF WindowRight, CacheRight, ShownRight
<1>8. CASE ~Live /\ ~(rec.version < 4) /\ ~CachedFor(viz)
  <2>1. Recomputed = PredictionAt(rec, viz.selected, viz.frame)
    BY DEF Recomputed, PredictionAt, Selected, ShownFrame, Frames
  <2>2. w = [viz EXCEPT !.shown = Recomputed, !.replayPred = Recomputed,
                        !.cached = [car |-> viz.selected, frame |-> viz.frame]]
    BY <1>3, <1>8 DEF WithOverlay
  <2>3. /\ WindowLike(w) /\ w.selected = viz.selected /\ w.frame = viz.frame
        /\ w.cached.car = viz.selected /\ w.cached.frame = viz.frame
        /\ w.replayPred = PredictionAt(rec, viz.selected, viz.frame)
        /\ w.shown = PredictionAt(rec, viz.selected, viz.frame)
    <3>1. PICK z : z = PredictionAt(rec, viz.selected, viz.frame)
      OBVIOUS
    <3> QED
      BY <1>1, <2>1, <2>2, <3>1 DEF WindowLike
  <2>4. rec.version >= 4
    BY <1>8 DEF Showable
  <2> QED
    BY <1>2, <1>3, <1>4, <1>8, <2>3, <2>4 DEF WindowRight, CacheRight, ShownRight
<1> QED
  BY <1>5, <1>6, <1>7, <1>8

LEMMA DrawShown ==
  ASSUME RunInv, WindowInv, Showable(rec), Watching, Draw
  PROVE  WindowInv'
<1>1. /\ UNCHANGED <<conf, rec, mode, file, saved, sim>> /\ pc = "draw" /\ ~BeyondEnd
      /\ pc' \in {"input", "closed", "open"}
  BY DEF Draw, NoneButWindow, simVars, driveVars, ioVars, AfterWindow
<1>2. /\ WindowRight(viz) /\ viz.frame \in 0 .. LastFrame
      /\ Live /\ Available > 0 => viz.frame = Available - 1
  BY <1>1 DEF WindowInv
<1>3. PICK o : o = IF Available > 0 THEN WithOverlay(viz) ELSE viz
  OBVIOUS
<1>4. WindowRight(o) /\ ShownRight(o) /\ o.frame = viz.frame
  <2>1. CASE Available > 0
    BY <1>1, <1>2, <1>3, <2>1, OverlayDrawn
  <2>2. CASE ~(Available > 0)
    <3>1. Available = 0
      BY <2>2, AvailableIs
    <3>2. viz.shown = NoOverlay
      BY <1>2, <3>1 DEF WindowRight
    <3> QED
      BY <1>2, <1>3, <2>2, <3>2 DEF ShownRight
  <2> QED
    BY <2>1, <2>2
<1>5. PICK d \in Dragged(o) : viz' = [d EXCEPT !.drawn = IF C.screenshotAt > 0 THEN @ + 1 ELSE @]
  BY <1>3 DEF Draw
<1>6. o = [cursor |-> o.cursor, playing |-> o.playing, selected |-> o.selected,
           frame |-> o.frame, drawn |-> o.drawn, cached |-> o.cached,
           replayPred |-> o.replayPred, shown |-> o.shown]
      /\ o.cursor \in Int /\ o.selected \in Nat
  BY <1>4 DEF WindowRight, WindowLike
<1>7. /\ WindowLike(d) /\ d.selected = o.selected /\ d.frame = o.frame
      /\ d.cached = o.cached /\ d.replayPred = o.replayPred /\ d.shown = o.shown
  <2>1. d = o \/ \E to \in 0 .. 2 * LastFrame : d = [o EXCEPT !.cursor = to, !.playing = FALSE]
    BY DEF Dragged
  <2>2. \A to \in 0 .. 2 * LastFrame : to \in Int
    BY AvailableIs
  <2>3. CASE d = o
    BY <1>4, <2>3 DEF WindowRight
  <2>4. ASSUME NEW to \in 0 .. 2 * LastFrame, d = [o EXCEPT !.cursor = to, !.playing = FALSE]
        PROVE  /\ WindowLike(d) /\ d.selected = o.selected /\ d.frame = o.frame
               /\ d.cached = o.cached /\ d.replayPred = o.replayPred /\ d.shown = o.shown
    BY <1>6, <2>2, <2>4 DEF WindowLike
  <2> QED
    BY <2>1, <2>3, <2>4
<1>8. PICK w : w = viz' /\ w = [d EXCEPT !.drawn = IF C.screenshotAt > 0 THEN @ + 1 ELSE @]
  BY <1>5
<1>9. /\ WindowLike(w) /\ w.selected = o.selected /\ w.frame = o.frame
      /\ w.cached = o.cached /\ w.replayPred = o.replayPred /\ w.shown = o.shown
  BY <1>7, <1>8 DEF WindowLike
<1>10. WindowRight(w) /\ ShownRight(w)
  BY <1>4, <1>9 DEF WindowRight, CacheRight, ShownRight
<1> QED
  BY <1>1, <1>2, <1>4, <1>8, <1>9, <1>10, WindowStep

LEMMA BeyondEndShown ==
  ASSUME WindowInv, Watching, Showable(rec), file = Whole \/ mode = "live" => Complete(rec),
         conf \in DOMAIN Config, DrawBeyondEnd
  PROVE  WindowInv'
<1>1. /\ UNCHANGED <<conf, rec, viz, mode, file, saved, sim>> /\ pc = "draw" /\ BeyondEnd
      /\ pc' = "undefined"
  BY DEF DrawBeyondEnd, NoneButWindow, simVars, driveVars, ioVars
<1>2. file # Whole \/ C.select >= rec.meta.cars
  <2> SUFFICES ASSUME file = Whole, ~(C.select >= rec.meta.cars) PROVE FALSE
    OBVIOUS
  <2>1. PICK n \in Nat : n = rec.meta.cars /\ Len(rec.frames) = n /\ DOMAIN rec.frames = 1 .. n
    BY DEF Showable, Complete, IsSequence
  <2>2. PICK s \in Nat : s = viz.selected /\ s < n
    <3>1. C.select < n
      BY <2>1, ConfigTypes
    <3> QED
      BY <1>1, <2>1, <3>1 DEF WindowInv, WindowRight, WindowLike
  <2>3. PICK a \in Nat : a = Available /\ a > 0 /\ Len(rec.frames[1]) = a
    BY <1>1, AvailableIs DEF BeyondEnd
  <2>4. viz.frame \in 0 .. a - 1
    <3>1. LastFrame = a - 1
      BY <2>3, AvailableIs
    <3> QED
      BY <1>1, <3>1 DEF WindowInv
  <2>5. \A v \in 1 .. n : v \in DOMAIN rec.frames /\ viz.frame < Len(rec.frames[v])
    BY <2>1, <2>3, <2>4 DEF Complete
  <2>6. s + 1 \in 1 .. n
    BY <2>2
  <2>7. InRange(Selected) /\ \A v \in 1 .. rec.meta.cars : InRange(v)
    BY <2>1, <2>2, <2>5, <2>6 DEF InRange, Selected, Frames
  <2> QED
    BY <1>1, <2>7 DEF BeyondEnd
<1>3. WindowRight(viz)'
  <2>1. WindowRight(viz)' = WindowRight(viz)
    BY <1>1, ViewKept
  <2> QED
    BY <1>1, <2>1 DEF WindowInv
<1>4. C' = C /\ Whole' = Whole
  BY <1>1 DEF C, Whole
<1> QED
  BY <1>1, <1>2, <1>3, <1>4 DEF WindowInv, ReplayDefined, Watching

LEMMA NewWindowShown ==
  ASSUME conf \in DOMAIN Config, viz = NewWindow, Showable(rec)
  PROVE  WindowRight(viz) /\ viz.frame \in 0 .. LastFrame /\ ShownRight(viz)
<1>1. PICK s \in Nat : s = C.select
  BY ConfigTypes
<1>2. /\ WindowLike(viz) /\ viz.selected = s /\ viz.frame = 0 /\ viz.cached.car = -1
      /\ viz.shown = NoOverlay
  BY <1>1 DEF WindowLike, NewWindow
<1>3. 0 \in 0 .. LastFrame
  BY AvailableIs
<1> QED
  BY <1>1, <1>2, <1>3 DEF WindowRight, CacheRight, ShownRight

\* A new window, before a file or a run.
LEMMA OpenShown ==
  (conf \in DOMAIN Config /\ viz = NewWindow /\ Showable(rec) /\ pc = "input") => WindowInv
BY NewWindowShown DEF WindowInv, ReplayDefined

\* A tick is not seen before the next picture.
LEMMA TickShown ==
  ASSUME WindowInv, Watching, RunInv, ModeInv, DriveInv, Advance, UNCHANGED <<mode, viz, file, saved>>,
         RunInv'
  PROVE  WindowInv'
<1>1. UNCHANGED conf /\ C' = C /\ pc' = "tick" /\ pc = "advance" /\ mode = "live"
  BY DEF Advance, C, Watching, ModeInv
<1>2. Live
  BY <1>1 DEF RunInv, Live
<1>3. WindowRight(viz) /\ viz.cached.car = -1
  BY <1>2 DEF WindowInv, WindowRight, CacheRight
<1>4. rec.meta = rec'.meta
  <2>1. rec.meta = Meta /\ rec'.meta = Meta'
    BY <1>1 DEF RunInv, RecordingOf
  <2> QED
    BY <1>1, <2>1 DEF Meta
<1>5. Available' # 0
  <2>1. IsRecording(rec') /\ \A v \in Car' : Written(Len(rec'.frames[v]), sim'.step, C'.decimation)
    BY <1>1 DEF RunInv, RecordingOf
  <2>2. PICK s \in Nat : sim'.step = s + 1
    BY StepCounts
  <2>3. C.cars \in Nat \ {0} /\ C.decimation \in Nat \ {0}
    BY ConfigTypes DEF ModeInv
  <2>4. 1 \in Car'
    BY <1>1, <2>3 DEF Car
  <2>5. Written(Len(rec'.frames[1]), s + 1, C.decimation)
    BY <1>1, <2>1, <2>2, <2>4
  <2>6. Len(rec'.frames[1]) # 0
    <3> SUFFICES ASSUME Written(0, s + 1, C.decimation) PROVE FALSE
      BY <2>5
    <3>1. 0 * C.decimation = 0
      BY <2>3
    <3> QED
      BY <3>1 DEF Written
  <2>7. Len(rec'.frames) = C.cars
    <3>1. rec'.meta.cars = C.cars
      BY <1>1 DEF RunInv, RecordingOf, Meta
    <3> QED
      BY <2>1, <3>1 DEF IsRecording
  <2>8. rec'.frames # <<>>
    BY <2>3, <2>7
  <2> QED
    BY <2>6, <2>8 DEF Available, Frames
<1>6. WindowRight(viz)'
  BY <1>1, <1>3, <1>4, <1>5 DEF WindowRight, CacheRight
<1> QED
  BY <1>1, <1>6 DEF WindowInv, ReplayDefined

LEMMA WindowInvInit == Init => WindowInv
BY DEF Init, WindowInv, Watching, ReplayDefined

LEMMA WindowInvNext ==
  /\ ModeInv /\ DriveInv /\ RunInv /\ FileInv /\ WindowInv
  /\ ModeInv' /\ RunInv' /\ FileInv'
  /\ [Next]_sessionVars
  => WindowInv'
<1> SUFFICES ASSUME ModeInv, DriveInv, RunInv, FileInv, WindowInv, ModeInv', RunInv', FileInv',
                    [Next]_sessionVars
             PROVE  WindowInv'
  OBVIOUS
<1>0. /\ Watching => Showable(rec) /\ (file = Whole \/ mode = "live" => Complete(rec))
      /\ conf \in DOMAIN Config
  BY Shown DEF ModeInv
<1>1. Watching' => Showable(rec)'
  <2>1. (ModeInv /\ RunInv /\ FileInv /\ Watching => Showable(rec))'
    BY Shown, PTL
  <2> QED
    BY <2>1
<1>2. viz' = NewWindow' /\ pc' = "input" /\ mode' # "headless" => WindowInv'
  <2>1. ((conf \in DOMAIN Config /\ viz = NewWindow /\ Showable(rec) /\ pc = "input") => WindowInv)'
    BY OpenShown, PTL
  <2> QED
    BY <1>1, <2>1 DEF ModeInv, Watching
<1>3. \A ticks : [sim EXCEPT !.left = ticks].step = sim.step
  BY DEF DriveInv, RunLike
<1>4. mode = "headless" /\ mode' = "headless" /\ pc' # "undefined" => WindowInv'
  BY DEF WindowInv, Watching, ReplayDefined
<1> USE DEF Watched, simVars, driveVars, ioVars
<1>5. ASSUME NEW status, Quit(status) PROVE WindowInv'
  BY <1>5, WatchedKeeps DEF Quit
<1>6. CASE LoadFile
  <2>1. CASE Quit(1)
    BY <1>5, <2>1
  <2>2. CASE mode = "replay" /\ pc' = "input" /\ viz' = NewWindow /\ UNCHANGED <<conf, mode>>
    <3>1. NewWindow' = NewWindow
      BY <2>2 DEF NewWindow, C
    <3> QED
      BY <1>2, <2>2, <3>1
  <2> QED
    BY <1>6, <2>1, <2>2 DEF LoadFile
<1>7. CASE Stepped
  <2>1. CASE mode = "headless"
    BY <1>4, <1>7, <2>1 DEF Stepped, NoneButWindow
  <2>2. CASE mode # "headless"
    BY <1>7, <2>2, WatchedKeeps DEF Stepped, NoneButWindow, ModeInv
  <2> QED
    BY <2>1, <2>2
<1>8. CASE AppendCsv
  BY <1>4, <1>8 DEF AppendCsv, ModeInv
<1>9. CASE Open
  <2>1. CASE Quit(0)
    BY <1>5, <2>1
  <2>2. CASE /\ UNCHANGED <<conf, rec, viz, mode, sim>> /\ pc = "open" /\ pc' = "save"
    <3>1. CASE mode = "headless"
      BY <1>4, <2>2, <3>1
    <3>2. CASE mode # "headless"
      <4>1. Watching /\ WindowRight(viz)' = WindowRight(viz)
        BY <2>2, <3>2, ViewKept DEF Watching
      <4> QED
        BY <2>2, <4>1 DEF WindowInv, ReplayDefined
    <3> QED
      BY <3>1, <3>2
  <2> QED
    BY <1>9, <2>1, <2>2 DEF Open
<1>10. CASE Save
  <2>1. CASE Quit(0)
    BY <1>5, <2>1
  <2>2. CASE /\ UNCHANGED <<conf, rec, viz, mode, sim, pc>> /\ pc = "save"
    <3>1. CASE mode = "headless"
      BY <1>4, <2>2, <3>1
    <3>2. CASE mode # "headless"
      <4>1. Watching /\ WindowRight(viz)' = WindowRight(viz)
        BY <2>2, <3>2, ViewKept DEF Watching
      <4> QED
        BY <2>2, <4>1 DEF WindowInv, ReplayDefined
    <3> QED
      BY <3>1, <3>2
  <2> QED
    BY <1>10, <2>1, <2>2 DEF Save
<1>11. CASE Closed
  BY <1>5, <1>11 DEF Closed
<1>12. CASE HandleInput
  <2>1. Watching
    BY <1>12 DEF HandleInput, Watching, ModeInv
  <2> QED
    BY <1>0, <1>12, <2>1, InputShown
<1>13. CASE UpdateLive
  <2>1. mode = "live" /\ pc = "update" /\ pc' \in {"cursor", "tick"}
        /\ UNCHANGED <<conf, rec, viz, mode, file, saved>> /\ sim'.step = sim.step
    BY <1>3, <1>13 DEF UpdateLive, Live
  <2> QED
    BY <2>1, WatchedKeeps
<1>14. CASE UpdateLiveCursor
  <2>1. Watching
    BY <1>14 DEF UpdateLiveCursor, Watching, ModeInv
  <2> QED
    BY <1>0, <1>14, <2>1, LatestShown
<1>15. CASE Draw
  <2>1. Watching
    BY <1>15 DEF Draw, Watching, ModeInv
  <2> QED
    BY <1>0, <1>15, <2>1, DrawShown
<1>16. CASE DrawBeyondEnd
  <2>1. Watching
    BY <1>16 DEF DrawBeyondEnd, Watching, ModeInv
  <2> QED
    BY <1>0, <1>16, <2>1, BeyondEndShown
<1>17. CASE \E by \in 0 .. C.maxAdvance : UpdateCursor(by)
  <2>1. Watching
    BY <1>17 DEF UpdateCursor, Watching, ModeInv
  <2> QED
    BY <1>0, <1>17, <2>1, CursorShown
<1>18. CASE Kill
  BY <1>5, <1>18 DEF Kill
<1>19. CASE Relaunch
  BY <1>19 DEF Relaunch, WindowInv, Watching, ReplayDefined
<1>20. CASE CloseWindow
  BY <1>20, WatchedKeeps DEF CloseWindow, NoneButWindow, AfterWindow
<1>21. CASE StartHeadless
  BY <1>4, <1>21 DEF StartHeadless, Start
<1>22. CASE StartLive
  <2>1. CASE pc' = "done" /\ UNCHANGED <<simVars, conf, viz, mode, file, saved>>
    BY <2>1, WatchedKeeps
  <2>2. CASE pc' = "input" /\ UNCHANGED <<conf, viz, mode>> /\ mode = "live" /\ pc = "launch"
    <3>1. NewWindow' = NewWindow
      BY <2>2 DEF NewWindow, C
    <3>2. viz = NewWindow
      BY <2>2 DEF WindowInv
    <3> QED
      BY <1>2, <2>2, <3>1, <3>2
  <2> QED
    BY <1>22, <2>1, <2>2 DEF StartLive, Start
<1>23. CASE SetInputs /\ UNCHANGED <<mode, viz, file, saved>>
  <2>1. /\ UNCHANGED <<conf, rec, viz, mode, file, saved, sim>> /\ pc = "tick" /\ pc' = "advance"
    BY <1>23 DEF SetInputs
  <2> QED
    BY <2>1, WatchedKeeps
<1>24. CASE Advance /\ UNCHANGED <<mode, viz, file, saved>>
  <2>1. CASE mode = "headless"
    BY <1>4, <1>24, <2>1 DEF Advance
  <2>2. CASE mode # "headless"
    <3>1. Watching
      BY <1>24, <2>2 DEF Watching, Advance
    <3> QED
      BY <1>24, <3>1, TickShown
  <2> QED
    BY <2>1, <2>2
<1>25. CASE UNCHANGED sessionVars
  BY <1>25, WatchedKeeps DEF sessionVars
<1> QED
  BY <1>6, <1>7, <1>8, <1>9, <1>10, <1>11, <1>12, <1>13, <1>14, <1>15, <1>16, <1>17, <1>18, <1>19,
     <1>20, <1>21, <1>22, <1>23, <1>24, <1>25 DEF Next, Program, Step

LEMMA WindowInvOverlay ==
  ModeInv /\ DriveInv /\ RunInv /\ FileInv /\ WindowInv => OverlayOfFrame
<1> SUFFICES ASSUME ModeInv, DriveInv, RunInv, FileInv, WindowInv,
                    pc = "input", viz.shown # NoOverlay
             PROVE  LET f == Frames(Selected)[viz.frame + 1]
                        o == viz.shown
                    IN /\ o.car = Selected
                       /\ Live => /\ viz.frame = Available - 1
                                  /\ o.from = ((sim.step - 1) \div C.refresh) * C.refresh
                                  /\ o.base = RefStep(Selected, o.from + 1)
                                  /\ C.refresh = C.decimation => o.from = f.t
                       /\ ~Live /\ f # NoFrame =>
                            o.from = f.t /\ o.base = IF rec.plant.kind = "pole" THEN f.t ELSE f.ref
  BY DEF OverlayOfFrame
<1> DEFINE f == Frames(Selected)[viz.frame + 1]
           o == viz.shown
<1>1. Watching
  BY DEF Watching, ModeInv
<1>2. Showable(rec)
  BY <1>1, Shown
<1>3. ShownRight(viz) /\ viz.frame \in 0 .. LastFrame /\ WindowRight(viz)
  BY <1>1 DEF WindowInv
<1>4. /\ viz.selected + 1 \in DOMAIN rec.frames /\ viz.frame < Len(rec.frames[viz.selected + 1])
      /\ Live => viz.frame = Available - 1 /\ o = PredictionOf(viz.selected + 1, sim.step)
      /\ ~Live => rec.version >= 4 /\ o = PredictionAt(rec, viz.selected, viz.frame)
  BY <1>3 DEF ShownRight
<1>5. PICK i \in Nat : i = viz.frame
  BY <1>2, <1>3, AvailableIs
<1>6. f = rec.frames[viz.selected + 1][i + 1]
  BY <1>5 DEF Frames, Selected
<1>7. CASE Live
  <2>1. mode = "live" /\ sim.step \in Nat
    BY <1>7 DEF Live, DriveInv, RunLike
  <2>2. sim.step # 0
    BY <1>4, <1>7, <2>1 DEF PredictionOf
  <2>3. o = [car |-> Selected, from |-> Refreshed(sim.step),
             base |-> RefStep(Selected, Refreshed(sim.step) + 1)]
    BY <1>4, <1>7, <2>2 DEF PredictionOf, Selected
  <2>4. ASSUME C.refresh = C.decimation PROVE Refreshed(sim.step) = f.t
    <3>1. /\ IsRecording(rec) /\ rec.meta.cars = C.cars /\ rec.meta.decimation = C.decimation
          /\ \A v \in Car : Written(Len(rec.frames[v]), sim.step, C.decimation)
      BY <2>1 DEF RunInv, RecordingOf, Meta
    <3>2. PICK d \in Nat \ {0} : d = C.decimation
      BY ConfigTypes DEF ModeInv
    <3>3. Selected \in Car
      BY <1>4, <3>1 DEF IsRecording, IsSequence, Car, Selected
    <3>4. Available = i + 1 /\ 1 \in DOMAIN rec.frames /\ Len(rec.frames[1]) = i + 1
      <4>1. PICK a \in Nat : a = Available
        BY <1>2, AvailableIs
      <4>2. i = a - 1
        BY <1>4, <1>5, <1>7, <4>1
      <4> QED
        BY <1>2, <4>1, <4>2, AvailableIs
    <3>5. Len(rec.frames[Selected]) = i + 1
      BY <3>1, <3>3, <3>4 DEF IsRecording, Car
    <3>6. Written(i + 1, sim.step, d)
      BY <3>1, <3>2, <3>3, <3>5
    <3>7. f.t = i * d
      <4>1. i + 1 \in 1 .. i + 1 /\ (i + 1) - 1 = i
        OBVIOUS
      <4>2. rec.frames[Selected][i + 1].t = ((i + 1) - 1) * d
        BY <3>1, <3>2, <3>3, <3>5, <4>1 DEF IsRecording, Car
      <4> QED
        BY <1>6, <4>1, <4>2 DEF Selected
    <3>8. PICK k \in Int : k = i * d /\ k = d * i /\ (i + 1) * d = k + d
      OBVIOUS
    <3>9. k < sim.step /\ sim.step <= k + d
      BY <3>6, <3>8 DEF Written
    <3>10. PICK r \in 0 .. d - 1 : sim.step - 1 = k + r
      <4>1. sim.step - 1 - k \in 0 .. d - 1
        BY <2>1, <3>9
      <4> QED
        BY <4>1, <2>1
    <3>11. sim.step - 1 = d * i + r
      BY <3>8, <3>10
    <3>12. (sim.step - 1) \div d = i
      BY <2>1, <3>11, Quotient
    <3> QED
      BY <2>4, <3>2, <3>7, <3>12 DEF Refreshed
  <2>5. viz.frame = Available - 1
    BY <1>4, <1>7
  <2> QED
    BY <1>7, <2>3, <2>4, <2>5 DEF Refreshed
<1>8. CASE ~Live
  <2>1. rec.version >= 4 /\ o = PredictionAt(rec, viz.selected, i)
    BY <1>4, <1>5, <1>8
  <2>2. o.car = Selected /\ o.from = f.phys
        /\ o.base = IF rec.plant.kind = "pole" THEN i * rec.meta.decimation ELSE f.ref
    BY <1>6, <2>1 DEF PredictionAt, Selected
  <2>3. FrameRight(rec, f, i + 1)
    <3>1. viz.selected + 1 \in 1 .. Len(rec.frames)
      BY <1>2, <1>4 DEF Showable, IsSequence
    <3>2. PICK l \in Nat : l = Len(rec.frames[viz.selected + 1])
      BY <1>2, <3>1 DEF Showable, IsSequence
    <3>3. i + 1 \in 1 .. l
      BY <1>4, <1>5, <3>2
    <3> QED
      BY <1>2, <1>6, <3>1, <3>2, <3>3 DEF Showable
  <2>4. (i + 1) - 1 = i
    OBVIOUS
  <2>5. f # NoFrame => f.phys = f.t /\ f.t = i * rec.meta.decimation
    BY <2>1, <2>3, <2>4 DEF FrameRight
  <2> HIDE DEF f, o
  <2>6. o.car = Selected
        /\ (f # NoFrame => o.from = f.t /\ o.base = IF rec.plant.kind = "pole" THEN f.t ELSE f.ref)
    BY <2>2, <2>5
  <2> QED
    BY <1>8, <2>6 DEF f, o
<1> QED
  BY <1>7, <1>8

\* The inductive invariant of the program.
SessionInv == DriveInv /\ ModeInv /\ RunInv /\ FileInv /\ WindowInv

LEMMA SessionInvAlways == Spec => []SessionInv
<1>1. Init => SessionInv
  BY DriveInvInit, ModeInvInit, RunInvInit, FileInvInit, WindowInvInit DEF SessionInv
<1>2. SessionInv /\ [Next]_sessionVars => SessionInv'
  BY DriveInvNext, ModeInvNext, RunInvNext, FileInvNext, WindowInvNext DEF SessionInv
<1> QED
  BY <1>1, <1>2, PTL DEF Spec

\* RunRecording::save and load, whatever the recording, the format and the place where a file
\* was cut off: what was saved is what is loaded, up to what the format does not store; a file
\* that is too short or of another version is refused, and of any other file that was cut off
\* load() yields nothing but the recording's own items, or zero.
THEOREM RoundTripAlways == Spec => []RoundTrip
<1>1. SessionInv => RoundTrip
  BY FileInvRoundTrip DEF SessionInv
<1> QED
  BY <1>1, SessionInvAlways, PTL

\* Visualizer::currentPrediction, for every fleet, lap, decimation and interval of refreshes,
\* whatever keys are pressed: the overlay is that of the car and of the frame in view, from
\* the simulation or computed again, though the cache outlives both.
THEOREM OverlayAlways == Spec => []OverlayOfFrame
<1>1. SessionInv => OverlayOfFrame
  BY WindowInvOverlay DEF SessionInv
<1> QED
  BY <1>1, SessionInvAlways, PTL

\* Visualizer::draw does not index beyond a recording, of any size, unless its file was cut
\* off or --select names a car that the fleet does not have.
THEOREM ReplayDefinedAlways == Spec => []ReplayDefined
<1>1. SessionInv => ReplayDefined
  BY DEF SessionInv, WindowInv
<1> QED
  BY <1>1, SessionInvAlways, PTL

-----------------------------------------------------------------------------
(* What is measured *)

\* The sums of the costs up to each sample.
CostsUpTo(p, s, n) ==
  /\ p \in [0 .. n -> Int] /\ p[0] = 0
  /\ \A k \in 1 .. n : p[k] = p[k - 1] + Cost(s[k])

LEMMA TotalIs ==
  ASSUME NEW e, NEW n \in Nat, e \in [1 .. n -> Nat],
         NEW p, CostsUpTo(p, e, n)
  PROVE  Total(e) = p[n]
<1> DEFINE D == 1 .. n
           Pick(s) == CHOOSE x \in s : TRUE
           Body(g) == [s \in SUBSET D |-> IF s = {} THEN 0
                         ELSE LET x == Pick(s) IN g[s \ {x}] + Cost(e[x])]
           iter == CHOOSE g : g = Body(g)
           c == [i \in D |-> Cost(e[i])]
           first == [s \in SUBSET D |-> Pick(s)]
<1>1. DOMAIN e = D
  OBVIOUS
<1>2. Total(e) = iter[D]
  BY <1>1, Zenon DEF Total, FoldSeq, FoldFunction, FoldFunctionOnSet, MapThenFoldSet
<1>3. c \in [D -> Int] /\ \A i \in D : c[i] = Cost(e[i]) /\ c[i] \in Int
  BY DEF Cost
<1> HIDE DEF c
<1>0. ASSUME NEW s, s # {} PROVE Pick(s) \in s
  BY <1>0
<1> HIDE DEF Pick
<1>4. Chooses(first, D) /\ IsFiniteSet(D)
  <2>1. IsFiniteSet(D)
    BY FS_Interval, 1 \in Int, n \in Int
  <2> QED
    BY <1>0, <2>1 DEF Chooses
<1> HIDE DEF D
<1>5. ASSUME NEW g PROVE SumUp(g, c, first, D) = Body(g)
  <2>1. ASSUME NEW s \in SUBSET D
        PROVE  (IF s = {} THEN 0 ELSE g[s \ {first[s]}] + c[first[s]])
                 = (IF s = {} THEN 0 ELSE g[s \ {Pick(s)}] + Cost(e[Pick(s)]))
    <3>1. CASE s = {}
      BY <3>1
    <3>2. CASE s # {}
      <4>1. first[s] = Pick(s) /\ Pick(s) \in D
        BY <1>0, <3>2
      <4>2. c[Pick(s)] = Cost(e[Pick(s)])
        BY <1>3, <4>1
      <4> QED
        BY <3>2, <4>1, <4>2
    <3> QED
      BY <3>1, <3>2
  <2> HIDE DEF first
  <2> QED
    BY <2>1 DEF SumUp
<1>6. PICK h : Sums(h, c, first, D)
  BY <1>3, <1>4, SumExists
<1>7. h = Body(h)
  BY <1>5, <1>6 DEF Sums
<1> HIDE DEF Body, first
<1>8. iter = Body(iter)
  BY <1>7
<1> HIDE DEF iter
<1>9. Sums(iter, c, first, D)
  BY <1>5, <1>8 DEF Sums
<1>10. iter[{}] = 0 /\ Adds(iter, c, D)
  BY <1>3, <1>4, <1>9, SumAny
<1> DEFINE Good == {k \in Nat : k <= n => iter[1 .. k] = p[k]}
<1>11. 0 \in Good
  <2>1. 1 .. 0 = {}
    OBVIOUS
  <2> QED
    BY <1>10, <2>1 DEF CostsUpTo
<1>12. ASSUME NEW k \in Nat, k \in Good PROVE k + 1 \in Good
  <2> SUFFICES ASSUME k + 1 <= n PROVE iter[1 .. k + 1] = p[k + 1]
    OBVIOUS
  <2>1. /\ 1 .. k + 1 \in SUBSET D /\ k + 1 \in 1 .. k + 1 /\ (1 .. k + 1) \ {k + 1} = 1 .. k
        /\ k + 1 \in D /\ k + 1 \in 1 .. n /\ (k + 1) - 1 = k
    <3>1. 1 .. k + 1 = (1 .. k) \cup {k + 1} /\ k + 1 \notin 1 .. k
      OBVIOUS
    <3>2. 1 .. k + 1 \in SUBSET (1 .. n) /\ k + 1 \in 1 .. k + 1 /\ k + 1 \in 1 .. n
      OBVIOUS
    <3>3. (k + 1) - 1 = k
      OBVIOUS
    <3>4. (1 .. k + 1) \ {k + 1} = 1 .. k
      BY <3>1, Zenon
    <3> QED
      BY <3>2, <3>3, <3>4 DEF D
  <2>2. iter[1 .. k + 1] = iter[1 .. k] + c[k + 1]
    <3>1. PICK u : u = 1 .. k + 1
      OBVIOUS
    <3>2. u \in SUBSET D /\ k + 1 \in u /\ u \ {k + 1} = 1 .. k
      BY <2>1, <3>1
    <3>3. iter[u] = iter[u \ {k + 1}] + c[k + 1]
      BY <1>10, <3>2 DEF Adds
    <3> QED
      BY <3>1, <3>2, <3>3
  <2>3. iter[1 .. k] = p[k]
    BY <1>12
  <2>4. p[k + 1] = p[k] + Cost(e[k + 1])
    BY <2>1 DEF CostsUpTo
  <2> QED
    BY <1>3, <2>1, <2>2, <2>3, <2>4
<1> HIDE DEF Good
<1>13. \A k \in Nat : k \in Good
  BY <1>11, <1>12, StepByStep
<1>14. iter[1 .. n] = p[n]
  BY <1>13 DEF Good
<1> QED
  BY <1>2, <1>14 DEF D

\* The sum of the last w samples.
LEMMA WindowTotal ==
  ASSUME NEW L \in Nat, NEW s \in [1 .. L -> Nat], Len(s) = L, NEW w \in Nat \ {0},
         NEW p, CostsUpTo(p, s, L)
  PROVE  /\ Total(s) = p[L]
         /\ Total(LastOf(s, w)) = IF L < w THEN p[L] - p[0] ELSE p[L] - p[L - w]
         /\ Len(LastOf(s, w)) = IF L < w THEN L ELSE w
<1>0. p \in [0 .. L -> Int] /\ p[0] = 0 /\ \A k \in 1 .. L : p[k] = p[k - 1] + Cost(s[k])
  BY DEF CostsUpTo
<1>1. Total(s) = p[L]
  BY TotalIs
<1>2. PICK m \in 1 .. L + 1 : m = Max({1, L - w + 1}) /\ m = IF L < w THEN 1 ELSE L - w + 1
  <2>1. L - w + 1 \in Int /\ 1 \in Int
    OBVIOUS
  <2>2. Max({1, L - w + 1}) = IF 1 < L - w + 1 THEN L - w + 1 ELSE 1
    BY <2>1, MaxOfTwo
  <2> QED
    BY <2>2
<1>3. PICK t : t = LastOf(s, w)
  OBVIOUS
<1>4. PICK n \in Nat : n = L - m + 1
  OBVIOUS
<1>5. t \in [1 .. n -> Nat] /\ Len(t) = n /\ \A i \in 1 .. n : t[i] = s[m + i - 1]
  <2>1. m \in Int /\ L \in Int /\ \A i \in m .. L : s[i] \in Nat
    OBVIOUS
  <2>2. /\ SubSeq(s, m, L) \in Seq(Nat)
        /\ Len(SubSeq(s, m, L)) = IF m <= L THEN L - m + 1 ELSE 0
        /\ \A i \in 1 .. L - m + 1 : SubSeq(s, m, L)[i] = s[m + i - 1]
    BY <2>1, SubSeqProperties
  <2>3. t = SubSeq(s, m, L)
    BY <1>2, <1>3 DEF LastOf
  <2>4. Len(t) = n /\ t \in Seq(Nat)
    BY <1>4, <2>2, <2>3
  <2>5. t \in [1 .. n -> Nat]
    BY <2>4
  <2>6. \A i \in 1 .. n : t[i] = s[m + i - 1]
    BY <1>4, <2>2, <2>3
  <2> QED
    BY <2>4, <2>5, <2>6
<1>6. PICK q : q = [j \in 0 .. n |-> p[m - 1 + j] - p[m - 1]]
  OBVIOUS
<1>7. \A j \in 0 .. n : m - 1 + j \in 0 .. L /\ p[m - 1 + j] \in Int
  BY <1>0, <1>4
<1>8. q \in [0 .. n -> Int] /\ q[0] = 0
  <2>1. 0 \in 0 .. n /\ m - 1 + 0 = m - 1 /\ p[m - 1] \in Int
    BY <1>7
  <2>2. \A j \in 0 .. n : p[m - 1 + j] - p[m - 1] \in Int
    BY <1>7, <2>1
  <2>3. p[m - 1] - p[m - 1] = 0
    BY <2>1
  <2>4. q[0] = p[m - 1] - p[m - 1]
    BY <1>6, <2>1
  <2> QED
    BY <1>6, <2>2, <2>3, <2>4
<1>9. ASSUME NEW k \in 1 .. n PROVE q[k] = q[k - 1] + Cost(t[k])
  <2>1. /\ k \in 0 .. n /\ k - 1 \in 0 .. n /\ m - 1 + k \in 1 .. L
        /\ m - 1 + (k - 1) = (m - 1 + k) - 1 /\ m + k - 1 = m - 1 + k
    BY <1>4
  <2>2. PICK a \in Int, b \in Int, z \in Int :
          a = p[m - 1 + k] /\ b = p[(m - 1 + k) - 1] /\ z = p[m - 1]
    <3>1. m - 1 + 0 = m - 1 /\ 0 \in 0 .. n
      OBVIOUS
    <3> QED
      BY <1>7, <2>1, <3>1
  <2>3. PICK d \in Int : d = Cost(t[k])
    BY <1>5 DEF Cost
  <2>4. a = b + d
    BY <1>0, <1>5, <2>1, <2>2, <2>3
  <2>5. q[k] = a - z /\ q[k - 1] = b - z
    BY <1>6, <2>1, <2>2
  <2> QED
    BY <2>3, <2>4, <2>5
<1>10. Total(t) = q[n]
  <2>1. CostsUpTo(q, t, n)
    BY <1>8, <1>9 DEF CostsUpTo
  <2> QED
    BY <1>5, <2>1, TotalIs
<1>11. q[n] = p[L] - p[m - 1]
  <2>1. m - 1 + n = L /\ n \in 0 .. n
    BY <1>4
  <2> QED
    BY <1>6, <2>1
<1> QED
  BY <1>1, <1>2, <1>3, <1>4, <1>5, <1>10, <1>11

\* The metrics of a component after L samples.
MetricsOf(m, s, L, p) ==
  /\ m = [ring |-> m.ring, head |-> m.head, count |-> m.count, sum |-> m.sum, total |-> m.total,
          violated |-> m.violated, violations |-> m.violations, critical |-> m.critical]
  /\ s \in [1 .. L -> Nat] /\ CostsUpTo(p, s, L)
  /\ m.ring \in [0 .. PerfWindow - 1 -> Int]
  /\ m.head = L % PerfWindow /\ m.count = IF L < PerfWindow THEN L ELSE PerfWindow
  /\ m.sum = p[L] - p[IF L < PerfWindow THEN 0 ELSE L - PerfWindow] /\ m.total = p[L]
  /\ m.violations = Beyond(s) /\ (L > 0 => m.violated = (s[L] > 0))
  /\ \A i \in 1 .. L : L - PerfWindow < i => m.ring[(i - 1) % PerfWindow] = Cost(s[i])

LEMMA NothingMeasured ==
  MetricsOf(NewMetrics, <<>>, 0, [k \in 0 .. 0 |-> 0])
<1>1. PerfWindow \in Nat \ {0}
  BY FmuAssumption
<1>2. Beyond(<<>>) = 0
  <2>1. {i \in DOMAIN <<>> : <<>>[i] > 0} = {}
    OBVIOUS
  <2> QED
    BY <2>1, FS_EmptySet DEF Beyond
<1>3. PICK p : p = [k \in 0 .. 0 |-> 0]
  OBVIOUS
<1>4. CostsUpTo(p, <<>>, 0) /\ p[0] - p[0] = 0 /\ p[0] = 0
  BY <1>3 DEF CostsUpTo
<1>5. <<>> \in [1 .. 0 -> Nat]
  OBVIOUS
<1>6. 0 % PerfWindow = 0 /\ 0 < PerfWindow
  BY <1>1
<1>7. PICK m : m = NewMetrics
  OBVIOUS
<1>8. /\ m = [ring |-> m.ring, head |-> m.head, count |-> m.count, sum |-> m.sum,
              total |-> m.total, violated |-> m.violated, violations |-> m.violations,
              critical |-> m.critical]
      /\ m.ring \in [0 .. PerfWindow - 1 -> Int]
      /\ m.head = 0 /\ m.count = 0 /\ m.sum = 0 /\ m.total = 0 /\ m.violations = 0
  BY <1>7 DEF NewMetrics
<1> QED
  BY <1>2, <1>3, <1>4, <1>5, <1>6, <1>7, <1>8 DEF MetricsOf

\* One sample more (updatePerformanceWindow, computePerformance).
LEMMA MeasuredOne ==
  ASSUME NEW L \in Nat, NEW m, NEW s, NEW p, MetricsOf(m, s, L, p), NEW x \in Nat, NEW ff0
  PROVE  \E q : MetricsOf(Measured(m, x, ff0), Append(s, x), L + 1, q)
<1> DEFINE w == PerfWindow
           y == Cost(x)
           g == Measured(m, x, ff0)
<1>1. w \in Nat \ {0} /\ y \in Int
  BY FmuAssumption DEF Cost
<1>2. /\ m = [ring |-> m.ring, head |-> m.head, count |-> m.count, sum |-> m.sum,
              total |-> m.total, violated |-> m.violated, violations |-> m.violations,
              critical |-> m.critical]
      /\ s \in [1 .. L -> Nat] /\ CostsUpTo(p, s, L)
      /\ m.ring \in [0 .. w - 1 -> Int]
      /\ m.head = L % w /\ m.count = IF L < w THEN L ELSE w
      /\ m.sum = p[L] - p[IF L < w THEN 0 ELSE L - w] /\ m.total = p[L]
      /\ m.violations = Beyond(s)
      /\ \A i \in 1 .. L : L - w < i => m.ring[(i - 1) % w] = Cost(s[i])
  BY DEF MetricsOf
<1>3. PICK t : t = Append(s, x)
  OBVIOUS
<1>4. /\ t \in [1 .. L + 1 -> Nat] /\ t[L + 1] = x /\ \A i \in 1 .. L : t[i] = s[i]
  <2>1. s \in Seq(Nat) /\ Len(s) = L
    BY <1>2
  <2>2. t \in Seq(Nat) /\ Len(t) = L + 1
    BY <1>3, <2>1
  <2>3. t[L + 1] = x /\ \A i \in 1 .. L : t[i] = s[i]
    BY <1>3, <2>1
  <2> QED
    BY <2>2, <2>3
<1>5. PICK q : q = [k \in 0 .. L + 1 |-> IF k = L + 1 THEN p[L] + y ELSE p[k]]
  OBVIOUS
<1>6. p \in [0 .. L -> Int] /\ p[0] = 0 /\ \A k \in 1 .. L : p[k] = p[k - 1] + Cost(s[k])
  BY <1>2 DEF CostsUpTo
<1>7. q[L + 1] = p[L] + y /\ \A k \in 0 .. L : q[k] = p[k]
  BY <1>5
<1>8. CostsUpTo(q, t, L + 1)
  <2>1. q \in [0 .. L + 1 -> Int] /\ q[0] = 0
    <3>1. ASSUME NEW k \in 0 .. L + 1 PROVE (IF k = L + 1 THEN p[L] + y ELSE p[k]) \in Int
      <4>1. CASE k = L + 1
        BY <1>1, <1>6, <4>1
      <4>2. CASE k \in 0 .. L
        BY <1>6, <4>2
      <4> QED
        BY <4>1, <4>2
    <3> QED
      BY <1>5, <1>6, <1>7, <3>1
  <2>2. ASSUME NEW k \in 1 .. L + 1 PROVE q[k] = q[k - 1] + Cost(t[k])
    <3>1. CASE k = L + 1
      <4>1. k - 1 = L
        BY <3>1
      <4> QED
        BY <1>4, <1>7, <3>1, <4>1
    <3>2. CASE k \in 1 .. L
      <4>1. k - 1 \in 0 .. L /\ k \in 0 .. L
        BY <3>2
      <4> QED
        BY <1>4, <1>6, <1>7, <3>2, <4>1
    <3> QED
      BY <3>1, <3>2
  <2> QED
    BY <2>1, <2>2 DEF CostsUpTo
<1>9. PICK h \in 0 .. w - 1 : h = m.head /\ h = L % w /\ (h + 1) % w = (L + 1) % w
                              /\ (L >= w => (L - w) % w = h)
  BY <1>1, <1>2, PlacesAround
<1>10. PICK sum : sum = (IF m.count = w THEN m.sum - m.ring[h] ELSE m.sum) + y
  OBVIOUS
<1>11. sum = q[L + 1] - q[IF L + 1 < w THEN 0 ELSE (L + 1) - w]
  <2>1. CASE L < w
    <3>1. m.count # w /\ m.sum = p[L] - p[0] /\ p[L] \in Int
      BY <1>2, <1>6, <2>1
    <3>2. (IF L + 1 < w THEN 0 ELSE (L + 1) - w) = 0
      BY <1>1, <2>1
    <3>3. sum = p[L] + y /\ q[0] = 0
      BY <1>1, <1>6, <1>7, <1>10, <3>1
    <3> QED
      BY <1>1, <1>7, <3>1, <3>2, <3>3
  <2>2. CASE ~(L < w)
    <3>1. PICK k \in 1 .. L : k = L - w + 1 /\ k - 1 = L - w /\ (L + 1) - w = k /\ L - w < k
      BY <1>1, <2>2
    <3>2. m.count = w /\ m.sum = p[L] - p[k - 1] /\ m.ring[h] = Cost(s[k])
      <4>1. (k - 1) % w = h
        BY <1>1, <1>9, <2>2, <3>1
      <4> QED
        BY <1>2, <2>2, <3>1, <4>1
    <3>3. PICK a \in Int, b \in Int, c \in Int :
            a = p[L] /\ b = p[k - 1] /\ c = Cost(s[k]) /\ p[k] = b + c
      <4>1. k - 1 \in 0 .. L /\ s[k] \in Nat
        BY <1>2, <3>1
      <4> QED
        BY <1>6, <4>1 DEF Cost
    <3>4. sum = ((a - b) - c) + y
      BY <1>10, <3>2, <3>3
    <3>5. q[L + 1] = a + y /\ q[k] = b + c /\ (IF L + 1 < w THEN 0 ELSE (L + 1) - w) = k
      <4>1. k \in 0 .. L /\ L \in 0 .. L /\ ~(L + 1 < w)
        BY <1>1, <2>2
      <4> QED
        BY <1>7, <3>1, <3>3, <4>1
    <3>6. ((a - b) - c) + y = (a + y) - (b + c)
      BY <1>1
    <3> QED
      BY <3>4, <3>5, <3>6
  <2> QED
    BY <2>1, <2>2
<1>12. Beyond(t) = Beyond(s) + (IF x > 0 THEN 1 ELSE 0) /\ Beyond(s) \in Nat
  <2> DEFINE A == {i \in DOMAIN s : s[i] > 0}
             B == {i \in DOMAIN t : t[i] > 0}
  <2>1. A \in SUBSET (1 .. L) /\ DOMAIN t = 1 .. L + 1 /\ DOMAIN s = 1 .. L
    BY <1>2, <1>4
  <2>2. 1 .. L + 1 = (1 .. L) \cup {L + 1}
    OBVIOUS
  <2>3. B = IF x > 0 THEN A \cup {L + 1} ELSE A
    BY <1>4, <2>1, <2>2
  <2> HIDE DEF A, B
  <2>4. Cardinality(A) \in Nat /\ Cardinality(A \cup {L + 1}) = Cardinality(A) + 1
    <3>1. Cardinality(A) \in 0 .. L /\ Cardinality(A \cup {L + 1}) = Cardinality(A) + 1
      BY <2>1, OneMore, Zenon
    <3> QED
      BY <3>1
  <2>5. Beyond(s) = Cardinality(A) /\ Beyond(t) = Cardinality(B)
    BY Zenon DEF Beyond, A, B
  <2> QED
    BY <2>3, <2>4, <2>5
<1>13. PICK ring : ring = [m.ring EXCEPT ![h] = y]
  OBVIOUS
<1>14. ring \in [0 .. w - 1 -> Int] /\ ring[h] = y /\ \A j \in 0 .. w - 1 : j # h => ring[j] = m.ring[j]
  BY <1>1, <1>2, <1>13
<1>15. ASSUME NEW i \in 1 .. L + 1, (L + 1) - w < i
       PROVE  ring[(i - 1) % w] = Cost(t[i])
  <2>1. CASE i = L + 1
    BY <1>4, <1>9, <1>14, <2>1
  <2>2. CASE i \in 1 .. L
    <3>1. i - 1 \in Nat /\ i - 1 < L /\ L - (i - 1) < w /\ L - w < i
      BY <1>1, <1>15, <2>2
    <3>2. (i - 1) % w # L % w /\ (i - 1) % w \in 0 .. w - 1
      BY <1>1, <3>1, PlacesApart, PlacesAround, Zenon
    <3>3. m.ring[(i - 1) % w] = Cost(s[i])
      BY <1>2, <2>2, <3>1
    <3> QED
      BY <1>4, <1>9, <1>14, <2>2, <3>2, <3>3
  <2> QED
    BY <2>1, <2>2
<1>16. /\ g = [ring |-> g.ring, head |-> g.head, count |-> g.count, sum |-> g.sum,
               total |-> g.total, violated |-> g.violated, violations |-> g.violations,
               critical |-> g.critical]
       /\ g.ring = ring /\ g.head = (h + 1) % w /\ g.sum = sum /\ g.total = m.total + y
       /\ g.count = IF m.count < w THEN m.count + 1 ELSE m.count
       /\ g.violated = (x > 0) /\ g.violations = IF x > 0 THEN m.violations + 1 ELSE m.violations
  <2>1. PICK a : a = Sampled(m, y)
    OBVIOUS
  <2>2. a = [ring |-> ring, head |-> (h + 1) % w, sum |-> sum,
             count |-> IF m.count < w THEN m.count + 1 ELSE m.count, total |-> m.total,
             violated |-> m.violated, violations |-> m.violations, critical |-> m.critical]
    BY <1>2, <1>9, <1>10, <1>13, <2>1 DEF Sampled
  <2>3. PICK critical : critical = (Distance(ff0, 0) > 0)
    OBVIOUS
  <2>4. g = [a EXCEPT !.total = @ + y, !.violated = x > 0,
                      !.violations = IF x > 0 THEN @ + 1 ELSE @, !.critical = critical]
    BY <2>1, <2>3, Zenon DEF Measured
  <2> HIDE DEF g, w, y
  <2> QED
    BY <2>2, <2>4
<1> HIDE DEF g, w, y
<1>17. g.count = IF L + 1 < w THEN L + 1 ELSE w
  BY <1>1, <1>2, <1>16
<1>18. g.violations = Beyond(t) /\ L + 1 > 0 /\ (g.violated = (t[L + 1] > 0))
  BY <1>2, <1>4, <1>12, <1>16
<1>19. g.total = q[L + 1] /\ g.head = (L + 1) % w
  BY <1>2, <1>7, <1>9, <1>16
<1>20. MetricsOf(g, t, L + 1, q)
  BY <1>4, <1>8, <1>11, <1>14, <1>15, <1>16, <1>17, <1>18, <1>19 DEF MetricsOf, w
<1> QED
  BY <1>3, <1>20 DEF g

\* One sample every MetricPeriod ticks, and metrics that account for them.
MetricsRight(v) ==
  \E L \in Nat : \E p : /\ MetricsOf(fmu[v].metrics, samples[v], L, p)
                        /\ Written(L, sim.step, MetricPeriod)

SampledInv ==
  mode # "replay" =>
    \A v \in Car : MetricsRight(v) /\ (pc = "launch" => samples[v] = <<>>)

LEMMA FreshMetrics ==
  \E L \in Nat : \E p : MetricsOf(Initialized.metrics, <<>>, L, p) /\ Written(L, 0, MetricPeriod)
<1>1. PICK m : m = NewMetrics
  OBVIOUS
<1>2. Initialized.metrics = m
  BY <1>1 DEF Initialized, ExitInitialization, NewComponent
<1>3. \E p : MetricsOf(m, <<>>, 0, p)
  BY <1>1, NothingMeasured
<1>4. Written(0, 0, MetricPeriod)
  BY FmuAssumption DEF Written
<1>5. 0 \in Nat
  OBVIOUS
<1> QED
  BY <1>2, <1>3, <1>4, <1>5

\* What measures nothing.
Unmeasured ==
  /\ UNCHANGED <<conf, fmu, samples>> /\ sim'.step = sim.step
  /\ mode' \in {mode, "replay"} /\ (pc' = "launch" => pc = "launch" \/ mode' = "replay")

LEMMA UnmeasuredKeeps == SampledInv /\ Unmeasured => SampledInv'
BY DEF SampledInv, Unmeasured, MetricsRight, Car, C

LEMMA SampledInvInit == Init => SampledInv
<1> SUFFICES ASSUME Init PROVE SampledInv
  OBVIOUS
<1>1. sim.step = 0
  BY DEF Init, NewSim
<1>2. \A v \in Car : fmu[v] = Initialized /\ samples[v] = <<>>
  BY DEF Init
<1> QED
  BY <1>1, <1>2, FreshMetrics DEF SampledInv, MetricsRight

LEMMA SampledInvStart ==
  ASSUME SampledInv, NEW next \in {"tick", "input"}, Start(next), UNCHANGED mode, pc = "launch"
  PROVE  SampledInv'
<1> SUFFICES ASSUME mode # "replay" PROVE SampledInv'
  BY DEF SampledInv
<1>1. CASE pc' = "done" /\ UNCHANGED <<simVars, conf>>
  BY <1>1, UnmeasuredKeeps DEF Unmeasured, simVars, driveVars
<1>2. CASE /\ pc' = next /\ UNCHANGED <<conf, samples>> /\ sim' = NewSim
           /\ fmu' = [v \in Car |-> Initialized]
  <2>1. Car' = Car /\ sim'.step = 0 /\ pc' # "launch"
    BY <1>2 DEF Car, C, NewSim
  <2>2. \A v \in Car : fmu'[v] = Initialized /\ samples'[v] = <<>>
    BY <1>2 DEF SampledInv
  <2>3. ASSUME NEW v \in Car PROVE MetricsRight(v)'
    BY <2>1, <2>2, <2>3, FreshMetrics DEF MetricsRight
  <2> QED
    BY <2>1, <2>3 DEF SampledInv
<1> QED
  BY <1>1, <1>2 DEF Start

LEMMA MeasuredStep ==
  ASSUME NEW m, NEW s, NEW L \in Nat, NEW p, MetricsOf(m, s, L, p), NEW step \in Nat,
         Written(L, step, MetricPeriod), NEW x \in Nat, NEW ff0
  PROVE  \E K \in Nat : \E q :
           /\ MetricsOf(IF step % MetricPeriod = 0 THEN Measured(m, x, ff0) ELSE m,
                        IF step % MetricPeriod = 0 THEN Append(s, x) ELSE s, K, q)
           /\ Written(K, step + 1, MetricPeriod)
<1>1. MetricPeriod \in Nat \ {0}
  BY FmuAssumption
<1>2. CASE step % MetricPeriod = 0
  <2>1. Written(L + 1, step + 1, MetricPeriod) /\ L + 1 \in Nat
    BY <1>1, <1>2, WrittenStep
  <2>2. \E q : MetricsOf(Measured(m, x, ff0), Append(s, x), L + 1, q)
    BY MeasuredOne
  <2> QED
    BY <1>2, <2>1, <2>2
<1>3. CASE step % MetricPeriod # 0
  <2>1. Written(L, step + 1, MetricPeriod)
    BY <1>1, <1>3, WrittenStep
  <2> QED
    BY <1>3, <2>1
<1> QED
  BY <1>2, <1>3

\* The errors of a tick, and what a plant is after it.
TickMetrics(v, error) ==
  /\ fmu'[v].metrics = IF sim.step % MetricPeriod = 0
                         THEN Measured(fmu[v].metrics, error, fmu[v].inputs["ff0"])
                         ELSE fmu[v].metrics
  /\ samples'[v] = IF sim.step % MetricPeriod = 0 THEN Append(samples[v], error) ELSE samples[v]

TickOf(errors) ==
  /\ errors \in [Car -> 0 .. 2]
  /\ \A v \in Car : TickMetrics(v, errors[v])
  /\ LET recorded == Recorded(sim, rec, errors)
         stepped == [recorded[1] EXCEPT !.step = @ + 1, !.left = @ - 1]
         done == Finalized(stepped, recorded[2])
     IN sim' = done[1] /\ rec' = done[2]

LEMMA AdvanceTick ==
  ASSUME DriveInv, Advance
  PROVE  (\E errors : TickOf(errors)) /\ sim.step \in Nat /\ sim'.step = sim.step + 1
         /\ Car' = Car /\ C' = C /\ pc' = "tick"
<1> DEFINE pulsed(v) == SetBoolean(fmu[v], ChangedTriggers(wrapper[v], asked[v].triggers))
<1>1. PICK errors \in [Car -> C.errors] :
        /\ fmu' = [v \in Car |-> DoStep(pulsed(v), sim.step, errors[v])]
        /\ samples' = [v \in Car |->
             IF sim.step % MetricPeriod = 0 THEN Append(samples[v], errors[v]) ELSE samples[v]]
        /\ LET recorded == Recorded(sim, rec, errors)
               stepped == [recorded[1] EXCEPT !.step = @ + 1, !.left = @ - 1]
               done == Finalized(stepped, recorded[2])
           IN sim' = done[1] /\ rec' = done[2]
  BY DEF Advance
<1>2. errors \in [Car -> 0 .. 2]
  BY <1>1, RunAssumption DEF DriveInv, RunConfiguration, C
<1>3. ASSUME NEW v \in Car PROVE TickMetrics(v, errors[v])
  <2>1. PICK f : f = fmu[v]
    OBVIOUS
  <2>2. ComponentLike(f) /\ f.time = sim.step
    BY <2>1 DEF DriveInv
  <2>3. PICK g : g = pulsed(v)
    OBVIOUS
  <2>4. ComponentLike(g) /\ g.time = sim.step /\ g.inputs = f.inputs /\ g.metrics = f.metrics
    BY <2>1, <2>2, <2>3 DEF SetBoolean, ComponentLike
  <2> HIDE DEF pulsed
  <2>5. fmu'[v] = DoStep(g, sim.step, errors[v])
    BY <1>1, <2>3
  <2>6. fmu'[v].metrics = IF sim.step % MetricPeriod = 0
                            THEN Measured(f.metrics, errors[v], f.inputs["ff0"]) ELSE f.metrics
    <3>1. PICK more : more = Measured(f.metrics, errors[v], f.inputs["ff0"])
      OBVIOUS
    <3>2. g = [time |-> g.time, inputs |-> g.inputs, triggers |-> g.triggers, gains |-> g.gains,
               metrics |-> g.metrics]
      BY <2>4 DEF ComponentLike
    <3>3. DoStep(g, sim.step, errors[v])
            = [g EXCEPT !.time = @ + 1,
                        !.metrics = IF sim.step % MetricPeriod = 0 THEN more ELSE @]
      BY <2>4, <3>1 DEF DoStep
    <3> QED
      BY <2>4, <2>5, <3>1, <3>2, <3>3
  <2> QED
    BY <1>1, <2>1, <2>6 DEF TickMetrics
<1>4. sim.step \in Nat /\ sim'.step = sim.step + 1
  BY StepCounts
<1>5. Car' = Car /\ C' = C /\ pc' = "tick"
  BY DEF Advance, Car, C
<1> QED
  BY <1>1, <1>2, <1>3, <1>4, <1>5 DEF TickOf

LEMMA TickMeasures ==
  ASSUME NEW v, MetricsRight(v), sim.step \in Nat, NEW x \in Nat, TickMetrics(v, x),
         sim'.step = sim.step + 1
  PROVE  MetricsRight(v)'
<1>1. PICK L \in Nat : \E p : /\ MetricsOf(fmu[v].metrics, samples[v], L, p)
                             /\ Written(L, sim.step, MetricPeriod)
  BY DEF MetricsRight
<1>4. PICK p : MetricsOf(fmu[v].metrics, samples[v], L, p) /\ Written(L, sim.step, MetricPeriod)
  BY <1>1
<1>2. PICK m, s, ff0 : m = fmu[v].metrics /\ s = samples[v] /\ ff0 = fmu[v].inputs["ff0"]
  OBVIOUS
<1>5. PICK k \in Nat : k = sim.step
  OBVIOUS
<1>3. \E K \in Nat : \E q :
        /\ MetricsOf(IF k % MetricPeriod = 0 THEN Measured(m, x, ff0) ELSE m,
                     IF k % MetricPeriod = 0 THEN Append(s, x) ELSE s, K, q)
        /\ Written(K, k + 1, MetricPeriod)
  BY <1>4, <1>2, <1>5, MeasuredStep
<1> QED
  BY <1>2, <1>3, <1>5 DEF MetricsRight, TickMetrics

LEMMA SampledInvNext == DriveInv /\ SampledInv /\ [Next]_sessionVars => SampledInv'
<1> SUFFICES ASSUME DriveInv, SampledInv, [Next]_sessionVars PROVE SampledInv'
  OBVIOUS
<1> USE DEF Unmeasured, simVars, driveVars
<1>0. \A ticks : [sim EXCEPT !.left = ticks].step = sim.step
  BY DEF DriveInv, RunLike
<1>1. ASSUME NEW status, Quit(status) PROVE Unmeasured
  BY <1>1 DEF Quit
<1>2. CASE LoadFile
  <2>1. CASE Quit(1)
    BY <1>1, <2>1, UnmeasuredKeeps
  <2>2. CASE mode = "replay" /\ mode' = mode
    BY <2>2 DEF SampledInv
  <2> QED
    BY <1>2, <2>1, <2>2 DEF LoadFile
<1>3. CASE Stepped
  BY <1>3, UnmeasuredKeeps DEF Stepped, NoneButWindow
<1>4. CASE AppendCsv
  BY <1>4, UnmeasuredKeeps DEF AppendCsv
<1>5. CASE Open
  BY <1>1, <1>5, UnmeasuredKeeps DEF Open
<1>6. CASE Save
  BY <1>1, <1>6, UnmeasuredKeeps DEF Save
<1>7. CASE Closed
  BY <1>1, <1>7, UnmeasuredKeeps DEF Closed
<1>8. CASE HandleInput
  BY <1>8, UnmeasuredKeeps DEF HandleInput, NoneButWindow
<1>9. CASE UpdateLive
  BY <1>0, <1>9, UnmeasuredKeeps DEF UpdateLive, Live
<1>10. CASE UpdateLiveCursor
  BY <1>10, UnmeasuredKeeps DEF UpdateLiveCursor, NoneButWindow
<1>11. CASE Draw
  BY <1>11, UnmeasuredKeeps DEF Draw, NoneButWindow, AfterWindow
<1>12. CASE DrawBeyondEnd
  BY <1>12, UnmeasuredKeeps DEF DrawBeyondEnd, NoneButWindow
<1>13. CASE \E by \in 0 .. C.maxAdvance : UpdateCursor(by)
  BY <1>13, UnmeasuredKeeps DEF UpdateCursor, NoneButWindow
<1>14. CASE Kill
  BY <1>1, <1>14, UnmeasuredKeeps DEF Kill
<1>15. CASE Relaunch
  BY <1>15, UnmeasuredKeeps DEF Relaunch
<1>16. CASE CloseWindow
  BY <1>16, UnmeasuredKeeps DEF CloseWindow, NoneButWindow, AfterWindow
<1>17. CASE StartHeadless
  BY <1>17, SampledInvStart DEF StartHeadless
<1>18. CASE StartLive
  BY <1>18, SampledInvStart DEF StartLive
<1>19. CASE SetInputs /\ UNCHANGED mode
  <2> DEFINE in(v) == C.reference[RefStep(v, sim.step) + 1]
  <2>1. /\ UNCHANGED <<conf, samples, sim, mode>> /\ pc' = "advance"
        /\ fmu' = [v \in Car |-> SetReal(fmu[v], ChangedInputs(wrapper[v], in(v)))]
    BY <1>19 DEF SetInputs
  <2>2. ASSUME NEW v \in Car PROVE fmu'[v].metrics = fmu[v].metrics
    <3>1. PICK f, written : f = fmu[v] /\ written = ChangedInputs(wrapper[v], in(v))
      OBVIOUS
    <3>2. ComponentLike(f)
      BY <3>1 DEF DriveInv
    <3>3. SetReal(f, written).metrics = f.metrics
      BY <3>2 DEF SetReal, ComponentLike
    <3> QED
      BY <2>1, <3>1, <3>3
  <2>3. Car' = Car
    BY <2>1 DEF Car, C
  <2> QED
    BY <2>1, <2>2, <2>3 DEF SampledInv, MetricsRight
<1>20. CASE Advance /\ UNCHANGED mode
  <2>1. PICK errors : TickOf(errors)
    BY <1>20, AdvanceTick
  <2>2. sim.step \in Nat /\ sim'.step = sim.step + 1 /\ Car' = Car /\ pc' = "tick"
    BY <1>20, AdvanceTick
  <2>3. ASSUME mode # "replay", NEW v \in Car PROVE MetricsRight(v)'
    <3>1. TickMetrics(v, errors[v]) /\ errors[v] \in Nat
      BY <2>1 DEF TickOf
    <3>2. MetricsRight(v)
      BY <2>3 DEF SampledInv
    <3> QED
      BY <2>2, <3>1, <3>2, TickMeasures
  <2> QED
    BY <1>20, <2>2, <2>3 DEF SampledInv
<1>21. CASE UNCHANGED sessionVars
  BY <1>21, UnmeasuredKeeps DEF sessionVars
<1> QED
  BY <1>2, <1>3, <1>4, <1>5, <1>6, <1>7, <1>8, <1>9, <1>10, <1>11, <1>12, <1>13, <1>14, <1>15,
     <1>16, <1>17, <1>18, <1>19, <1>20, <1>21 DEF Next, Program, Step

LEMMA SampledInvRolling == SampledInv => RollingExact
<1> SUFFICES ASSUME SampledInv, mode # "replay", NEW v \in Car
             PROVE  LET m == fmu[v].metrics
                        window == LastOf(samples[v], PerfWindow)
                    IN /\ m.sum = Total(window) /\ m.count = Len(window)
                       /\ m.total = Total(samples[v]) /\ m.violations = Beyond(samples[v])
                       /\ m.count > 0 => Rolling(m) = Total(window) \div Len(window)
  BY DEF RollingExact
<1>1. PICK L \in Nat : \E p : MetricsOf(fmu[v].metrics, samples[v], L, p)
  BY DEF SampledInv, MetricsRight
<1>8. PICK p : MetricsOf(fmu[v].metrics, samples[v], L, p)
  BY <1>1
<1>2. PICK m, s, w : m = fmu[v].metrics /\ s = samples[v] /\ w = LastOf(s, PerfWindow)
  OBVIOUS
<1>3. /\ s \in [1 .. L -> Nat] /\ CostsUpTo(p, s, L)
      /\ m.count = IF L < PerfWindow THEN L ELSE PerfWindow
      /\ m.sum = p[L] - p[IF L < PerfWindow THEN 0 ELSE L - PerfWindow] /\ m.total = p[L]
      /\ m.violations = Beyond(s)
  BY <1>8, <1>2 DEF MetricsOf
<1>4. Len(s) = L /\ PerfWindow \in Nat \ {0}
  BY <1>3, FmuAssumption
<1>5. /\ Total(s) = p[L]
      /\ Total(w) = IF L < PerfWindow THEN p[L] - p[0] ELSE p[L] - p[L - PerfWindow]
      /\ Len(w) = IF L < PerfWindow THEN L ELSE PerfWindow
  <2>1. s \in [1 .. L -> Nat] /\ Len(s) = L /\ CostsUpTo(p, s, L)
    BY <1>3, <1>4
  <2>2. /\ Total(s) = p[L]
        /\ Total(LastOf(s, PerfWindow))
             = IF L < PerfWindow THEN p[L] - p[0] ELSE p[L] - p[L - PerfWindow]
        /\ Len(LastOf(s, PerfWindow)) = IF L < PerfWindow THEN L ELSE PerfWindow
    BY <1>4, <2>1, WindowTotal
  <2> QED
    BY <1>2, <2>2, Zenon
<1>6. m.sum = Total(w) /\ m.count = Len(w) /\ m.total = Total(s) /\ m.violations = Beyond(s)
  BY <1>3, <1>5
<1>7. m.count > 0 => Rolling(m) = Total(w) \div Len(w)
  BY <1>4, <1>5, <1>6 DEF Rolling
<1> QED
  BY <1>2, <1>6, <1>7

\* A frame is flagged for its tick or for the latest sample (recordFrame).
FlaggedRight(f, s) ==
  /\ f.rolling \in Int
  /\ \E j \in 1 .. Len(s) : /\ (f.t \div MetricPeriod) + 1 = j
                            /\ "soft" \in f.flags <=> f.error > 0 \/ s[j] > 0

HardOnes(frames) == {i \in DOMAIN frames : "hard" \in frames[i].flags}
Rollings(frames) == {0} \cup {frames[i].rolling : i \in DOMAIN frames}

\* What is counted agrees with what is recorded.
CountedRight(frames, s, hard, top) ==
  /\ \A i \in DOMAIN frames : FlaggedRight(frames[i], s)
  /\ hard = Cardinality(HardOnes(frames))
  /\ top \in Rollings(frames) /\ \A r \in Rollings(frames) : r <= top

LEMMA NothingCounted == CountedRight(<<>>, <<>>, 0, 0)
<1>1. PICK e : e = <<>> /\ DOMAIN e = {}
  OBVIOUS
<1>2. HardOnes(e) = {} /\ Rollings(e) = {0}
  BY <1>1 DEF HardOnes, Rollings
<1>3. Cardinality(HardOnes(e)) = 0
  BY <1>2, FS_EmptySet
<1>4. CountedRight(e, e, 0, 0)
  BY <1>1, <1>2, <1>3 DEF CountedRight
<1> QED
  BY <1>1, <1>4

LEMMA SampleKeepsCounts ==
  ASSUME NEW frames, NEW s, NEW L \in Nat, s \in [1 .. L -> Nat], NEW hard, NEW top,
         CountedRight(frames, s, hard, top), NEW x \in Nat
  PROVE  CountedRight(frames, Append(s, x), hard, top)
<1>1. PICK t : t = Append(s, x)
  OBVIOUS
<1>2. Len(s) = L /\ Len(t) = L + 1 /\ \A j \in 1 .. L : t[j] = s[j]
  <2>1. s \in Seq(Nat) /\ Len(s) = L
    OBVIOUS
  <2> QED
    BY <1>1, <2>1
<1>3. ASSUME NEW f, FlaggedRight(f, s) PROVE FlaggedRight(f, t)
  <2>1. PICK j \in 1 .. Len(s) : /\ (f.t \div MetricPeriod) + 1 = j
                                 /\ "soft" \in f.flags <=> f.error > 0 \/ s[j] > 0
    BY <1>3 DEF FlaggedRight
  <2>2. j \in 1 .. Len(t) /\ t[j] = s[j] /\ f.rolling \in Int
    BY <1>2, <1>3, <2>1 DEF FlaggedRight
  <2> QED
    BY <2>1, <2>2 DEF FlaggedRight
<1> QED
  BY <1>1, <1>3 DEF CountedRight

LEMMA FrameKeepsCounts ==
  ASSUME NEW frames, IsSequence(frames), NEW s, NEW hard, NEW top,
         CountedRight(frames, s, hard, top), NEW f, FlaggedRight(f, s)
  PROVE  CountedRight(Append(frames, f), s, IF "hard" \in f.flags THEN hard + 1 ELSE hard,
                      IF f.rolling > top THEN f.rolling ELSE top)
<1>1. PICK n \in Nat : n = Len(frames)
  BY DEF IsSequence
<1>2. PICK more : more = Append(frames, f)
  OBVIOUS
<1>3. /\ DOMAIN frames = 1 .. n /\ DOMAIN more = 1 .. n + 1
      /\ more[n + 1] = f /\ \A i \in 1 .. n : more[i] = frames[i]
  <2>1. /\ IsSequence(more) /\ Len(more) = n + 1
        /\ \A i \in 1 .. n + 1 : more[i] = IF i <= n THEN frames[i] ELSE f
    BY <1>1, <1>2, AppendIs, Zenon
  <2>2. DOMAIN frames = 1 .. n /\ DOMAIN more = 1 .. n + 1
    BY <1>1, <2>1 DEF IsSequence
  <2> QED
    BY <2>1, <2>2
<1>4. \A i \in DOMAIN more : FlaggedRight(more[i], s)
  BY <1>3 DEF CountedRight
<1>5. Cardinality(HardOnes(more)) = IF "hard" \in f.flags THEN hard + 1 ELSE hard
  <2>1. HardOnes(more) = IF "hard" \in f.flags THEN HardOnes(frames) \cup {n + 1}
                         ELSE HardOnes(frames)
    <3>1. 1 .. n + 1 = (1 .. n) \cup {n + 1}
      OBVIOUS
    <3> QED
      BY <1>3, <3>1 DEF HardOnes
  <2>2. HardOnes(frames) \in SUBSET (1 .. n)
    BY <1>3 DEF HardOnes
  <2>3. Cardinality(HardOnes(frames) \cup {n + 1}) = Cardinality(HardOnes(frames)) + 1
    BY <2>2, OneMore, Zenon
  <2> QED
    BY <2>1, <2>3 DEF CountedRight
<1>6. PICK high : high = IF f.rolling > top THEN f.rolling ELSE top
  OBVIOUS
<1>7. Rollings(more) = Rollings(frames) \cup {f.rolling}
  <2>1. \A i \in DOMAIN more : i = n + 1 \/ i \in DOMAIN frames
    BY <1>3
  <2>2. DOMAIN frames \subseteq DOMAIN more /\ n + 1 \in DOMAIN more
    BY <1>3
  <2>3. \A i \in DOMAIN frames : more[i] = frames[i]
    BY <1>3
  <2> QED
    BY <1>3, <2>1, <2>2, <2>3 DEF Rollings
<1>8. f.rolling \in Int /\ top \in Int
  <2>1. \A r \in Rollings(frames) : r \in Int
    BY DEF Rollings, CountedRight, FlaggedRight
  <2> QED
    BY <2>1 DEF CountedRight, FlaggedRight
<1>9. high \in Rollings(more) /\ \A r \in Rollings(more) : r <= high
  <2>1. \A r \in Rollings(frames) : r \in Int /\ r <= top
    BY DEF Rollings, CountedRight, FlaggedRight
  <2>2. top \in Rollings(frames)
    BY DEF CountedRight
  <2> QED
    BY <1>6, <1>7, <1>8, <2>1, <2>2
<1> QED
  BY <1>2, <1>4, <1>5, <1>6, <1>9 DEF CountedRight

\* The frames of a whole run are those of every decimation-th tick.
Timed(frames, n, d) == DOMAIN frames = 1 .. n /\ \A i \in 1 .. n : frames[i].t = (i - 1) * d

LEMMA TimesAre ==
  ASSUME NEW frames, NEW n \in Nat, NEW d \in Nat \ {0}, Timed(frames, n, d),
         NEW D \in Nat \ {0}, Written(n, D, d)
  PROVE  {frames[i].t : i \in DOMAIN frames} = {t \in 0 .. D - 1 : t % d = 0}
<1> USE DEF Timed
<1>1. ASSUME NEW i \in 1 .. n PROVE frames[i].t \in 0 .. D - 1 /\ frames[i].t % d = 0
  <2>1. PICK q \in Nat : q = i - 1 /\ q <= n - 1
    OBVIOUS
  <2>2. PICK k \in Int, m \in Int : k = q * d /\ m = (n - 1) * d /\ k = d * q + 0 /\ k >= 0
    OBVIOUS
  <2>3. k <= m
    BY <2>1, <2>2
  <2>6. m < D
    BY <2>2 DEF Written
  <2>4. k \in 0 .. D - 1
    <3> HIDE DEF Written
    <3>1. k \in Int /\ m \in Int /\ 0 <= k /\ k <= m /\ m < D
      BY <2>2, <2>3, <2>6
    <3> QED
      BY <3>1
  <2>5. k % d = 0
    BY <2>2, Remainder
  <2> QED
    BY <2>1, <2>2, <2>4, <2>5
<1>2. ASSUME NEW t \in 0 .. D - 1, t % d = 0 PROVE \E i \in 1 .. n : frames[i].t = t
  <2>1. PICK q \in Int, r \in 0 .. d - 1 : t = d * q + r /\ t % d = r
    BY t \in Int, Division, Zenon
  <2>2. t = q * d /\ t >= 0
    BY <1>2, <2>1
  <2>3. q >= 0
    BY <2>2
  <2>4. q < n
    <3>1. q * d < n * d
      BY <2>2 DEF Written
    <3> QED
      BY <3>1
  <2>5. q + 1 \in 1 .. n /\ (q + 1) - 1 = q
    BY <2>3, <2>4
  <2> QED
    BY <2>2, <2>5
<1> QED
  BY <1>1, <1>2

\* A share of samples that cover at most one period more than the run.
LEMMA ShareIs ==
  ASSUME NEW L \in Nat, NEW k \in 0 .. L, NEW M \in Nat \ {0}, NEW D \in Nat \ {0},
         Written(L, D, M)
  PROVE  (((100 * k) * M) \div D) * D < 100 * (D + M)
<1>1. PICK x \in Int, y \in Int : x = k * M /\ y = L * M /\ (L - 1) * M = y - M
  OBVIOUS
<1>2. x <= y /\ y < D + M
  BY <1>1 DEF Written
<1>3. PICK a \in Int : a = (100 * k) * M /\ a = 100 * x
  <2>1. (100 * k) * M = 100 * (k * M)
    OBVIOUS
  <2> QED
    BY <1>1, <2>1
<1>4. PICK q \in Int, r \in 0 .. D - 1 : a = D * q + r
  <2>1. \E q \in Int, r \in 0 .. D - 1 : a = D * q + r /\ a % D = r
    BY a \in Int, Division, Zenon
  <2> QED
    BY <2>1, Zenon
<1>5. a \div D = q
  BY <1>4, Quotient
<1>6. (a \div D) * D <= a
  <2>1. PICK z \in Int : z = D * q /\ z = q * D
    OBVIOUS
  <2> QED
    BY <1>4, <1>5, <2>1
<1> QED
  BY <1>2, <1>3, <1>6

\* finalizeSummary, of what was counted by then.
SummaryRight(s, v) ==
  /\ s.violations = fmu[v].metrics.violations
  /\ s.softPct = (100 * fmu[v].metrics.violations * MetricPeriod) \div C.duration
  /\ s.hard = sim.hard[v] /\ s.maxRolling = sim.maxRolling[v]

CountInv ==
  mode # "replay" =>
    /\ sim.finalized \in BOOLEAN /\ (sim.finalized <=> sim.step >= C.duration)
    /\ sim.step <= C.duration
    /\ \A v \in Car :
         /\ CountedRight(rec.frames[v], samples[v], sim.hard[v], sim.maxRolling[v])
         /\ IF sim.finalized THEN SummaryRight(rec.summary[v], v)
            ELSE rec.summary[v] = NoSummary

\* The CSV and the file of a run without a window are written at its end.
EndInv ==
  /\ mode = "headless" => /\ sim.left = C.duration - sim.step
                          /\ pc \in {"csv", "open", "save"} => sim.finalized
  /\ pc = "launch" /\ mode # "replay" => csv = <<>>
  /\ csv # <<>> => sim.finalized /\ mode # "live"

LEMMA NothingCountedYet ==
  ASSUME NEW v \in Car
  PROVE  /\ CountedRight(NewRecording.frames[v], <<>>, NewSim.hard[v], NewSim.maxRolling[v])
         /\ NewRecording.summary[v] = NoSummary
<1>1. /\ NewRecording.frames[v] = <<>> /\ NewRecording.summary[v] = NoSummary
      /\ NewSim.hard[v] = 0 /\ NewSim.maxRolling[v] = 0
  BY DEF NewRecording, NewSim
<1> QED
  BY <1>1, NothingCounted

LEMMA CountInvInit == Init => CountInv /\ EndInv
<1> SUFFICES ASSUME Init PROVE CountInv /\ EndInv
  OBVIOUS
<1>1. /\ conf \in DOMAIN Config /\ sim = NewSim /\ rec = NewRecording /\ csv = <<>>
      /\ \A v \in Car : samples[v] = <<>>
  BY DEF Init
<1>2. C.duration \in Nat \ {0}
  BY <1>1, ConfigTypes
<1>3. ~sim.finalized /\ sim.finalized \in BOOLEAN /\ sim.step = 0 /\ sim.left = C.duration
  BY <1>1 DEF NewSim
<1>4. CountInv
  BY <1>1, <1>2, <1>3, NothingCountedYet DEF CountInv
<1>5. EndInv
  BY <1>1, <1>2, <1>3 DEF EndInv, Init
<1> QED
  BY <1>4, <1>5

LEMMA CountInvStart ==
  ASSUME ModeInv, SampledInv, CountInv, EndInv, NEW next \in {"tick", "input"}, Start(next),
         UNCHANGED <<mode, csv>>, pc = "launch", mode # "replay"
  PROVE  CountInv' /\ EndInv'
<1>1. CASE pc' = "done" /\ UNCHANGED <<simVars, conf>>
  BY <1>1 DEF simVars, driveVars, CountInv, EndInv, SummaryRight, Car, C
<1>2. CASE /\ pc' = next /\ UNCHANGED <<conf, samples>> /\ sim' = NewSim /\ rec' = NewRecording
  <2>1. Car' = Car /\ C' = C /\ pc' \notin {"launch", "csv", "open", "save"}
    BY <1>2 DEF Car, C
  <2>2. \A v \in Car : samples'[v] = <<>>
    BY <1>2 DEF SampledInv
  <2>3. C.duration \in Nat \ {0}
    BY ConfigTypes DEF ModeInv
  <2>4. /\ ~sim'.finalized /\ sim'.finalized \in BOOLEAN /\ sim'.step = 0
        /\ sim'.left = C.duration
    BY <1>2 DEF NewSim
  <2>5. CountInv'
    BY <1>2, <2>1, <2>2, <2>3, <2>4, NothingCountedYet DEF CountInv
  <2>6. EndInv'
    BY <2>1, <2>3, <2>4 DEF EndInv
  <2> QED
    BY <2>5, <2>6
<1> QED
  BY <1>1, <1>2 DEF Start

\* What a tick leaves behind for a car.
TickLeaves(v, error) ==
  LET f == FrameOf(v, error)
      recording == sim.step % C.decimation = 0
  IN /\ rec'.frames[v] = IF recording THEN Append(rec.frames[v], f) ELSE rec.frames[v]
     /\ sim'.hard[v] = IF recording /\ error > 1 THEN sim.hard[v] + 1 ELSE sim.hard[v]
     /\ sim'.maxRolling[v] = IF recording /\ f.rolling > sim.maxRolling[v] THEN f.rolling
                             ELSE sim.maxRolling[v]
     /\ IF sim.step + 1 < C.duration \/ sim.finalized THEN rec'.summary[v] = rec.summary[v]
        ELSE rec'.summary[v] = SummaryOf(sim', v)

TickEnds ==
  /\ sim'.left = sim.left - 1
  /\ sim'.finalized = IF sim.step + 1 < C.duration \/ sim.finalized THEN sim.finalized ELSE TRUE

LEMMA RecordedLeaves ==
  ASSUME RunLike(sim), RecordingOf(rec, sim.step), NEW errors, NEW s, NEW r,
         s = Recorded(sim, rec, errors)[1], r = Recorded(sim, rec, errors)[2]
  PROVE  /\ RunLike(s) /\ s.step = sim.step /\ s.finalized = sim.finalized /\ s.left = sim.left
         /\ r.summary = rec.summary
         /\ r = [version |-> r.version, plant |-> r.plant, offsets |-> r.offsets,
                 meta |-> r.meta, summary |-> r.summary, frames |-> r.frames]
         /\ \A v \in Car :
              LET f == FrameOf(v, errors[v])
                  recording == sim.step % C.decimation = 0
              IN /\ r.frames[v] = IF recording THEN Append(rec.frames[v], f) ELSE rec.frames[v]
                 /\ s.hard[v] = IF recording /\ errors[v] > 1 THEN sim.hard[v] + 1
                                ELSE sim.hard[v]
                 /\ s.maxRolling[v] = IF recording /\ f.rolling > sim.maxRolling[v]
                                        THEN f.rolling ELSE sim.maxRolling[v]
<1>1. rec = [version |-> rec.version, plant |-> rec.plant, offsets |-> rec.offsets,
             meta |-> rec.meta, summary |-> rec.summary, frames |-> rec.frames]
  <2>1. PICK q : q = rec
    OBVIOUS
  <2>2. q = [version |-> Version, plant |-> CarPlant, offsets |-> q.offsets, meta |-> Meta,
             summary |-> q.summary, frames |-> q.frames]
    BY <2>1 DEF RecordingOf
  <2> QED
    BY <2>1, <2>2
<1>2. CASE sim.step % C.decimation # 0
  <2>1. s = sim /\ r = rec
    BY <1>2 DEF Recorded
  <2> QED
    BY <1>1, <1>2, <2>1
<1>3. CASE sim.step % C.decimation = 0
  <2> DEFINE h == [v \in Car |-> IF errors[v] > 1 THEN sim.hard[v] + 1 ELSE sim.hard[v]]
             x == [v \in Car |-> IF Rolling(fmu'[v].metrics) > sim.maxRolling[v]
                                   THEN Rolling(fmu'[v].metrics) ELSE sim.maxRolling[v]]
             g == [v \in Car |-> Append(rec.frames[v], FrameOf(v, errors[v]))]
  <2>1. s = [sim EXCEPT !.hard = h, !.maxRolling = x] /\ r = [rec EXCEPT !.frames = g]
    BY <1>3 DEF Recorded
  <2>2. ASSUME NEW v \in Car
        PROVE  /\ h[v] = IF errors[v] > 1 THEN sim.hard[v] + 1 ELSE sim.hard[v]
               /\ x[v] = IF FrameOf(v, errors[v]).rolling > sim.maxRolling[v]
                           THEN FrameOf(v, errors[v]).rolling ELSE sim.maxRolling[v]
               /\ g[v] = Append(rec.frames[v], FrameOf(v, errors[v]))
    BY DEF FrameOf
  <2> HIDE DEF h, x, g
  <2>3. /\ RunLike(s) /\ s.step = sim.step /\ s.finalized = sim.finalized /\ s.left = sim.left
        /\ s.hard = h /\ s.maxRolling = x
    BY <2>1 DEF RunLike
  <2>4. /\ r.summary = rec.summary /\ r.frames = g
        /\ r = [version |-> r.version, plant |-> r.plant, offsets |-> r.offsets,
                meta |-> r.meta, summary |-> r.summary, frames |-> r.frames]
    BY <1>1, <2>1
  <2> QED
    BY <1>3, <2>2, <2>3, <2>4
<1> QED
  BY <1>2, <1>3

LEMMA TickDoes ==
  ASSUME RunLike(sim), RecordingOf(rec, sim.step), NEW errors, TickOf(errors)
  PROVE  TickEnds /\ \A v \in Car : TickLeaves(v, errors[v])
<1>1. PICK s : s = Recorded(sim, rec, errors)[1]
  OBVIOUS
<1>2. PICK r : r = Recorded(sim, rec, errors)[2]
  OBVIOUS
<1>3. /\ RunLike(s) /\ s.step = sim.step /\ s.finalized = sim.finalized /\ s.left = sim.left
      /\ r.summary = rec.summary
      /\ r = [version |-> r.version, plant |-> r.plant, offsets |-> r.offsets,
              meta |-> r.meta, summary |-> r.summary, frames |-> r.frames]
      /\ \A v \in Car :
           LET f == FrameOf(v, errors[v])
               recording == sim.step % C.decimation = 0
           IN /\ r.frames[v] = IF recording THEN Append(rec.frames[v], f) ELSE rec.frames[v]
              /\ s.hard[v] = IF recording /\ errors[v] > 1 THEN sim.hard[v] + 1
                             ELSE sim.hard[v]
              /\ s.maxRolling[v] = IF recording /\ f.rolling > sim.maxRolling[v]
                                     THEN f.rolling ELSE sim.maxRolling[v]
  BY <1>1, <1>2, RecordedLeaves
<1>4. PICK u : u = [s EXCEPT !.step = @ + 1, !.left = @ - 1]
  OBVIOUS
<1>5. /\ RunLike(u) /\ u.step = sim.step + 1 /\ u.left = sim.left - 1
      /\ u.finalized = sim.finalized /\ u.hard = s.hard /\ u.maxRolling = s.maxRolling
  <2>1. PICK a, b : a = s.step + 1 /\ b = s.left - 1
    OBVIOUS
  <2>2. u = [s EXCEPT !.step = a, !.left = b]
    BY <1>4, <2>1
  <2>3. a \in Nat
    BY <1>3, <2>1 DEF RunLike
  <2> QED
    BY <1>3, <2>1, <2>2, <2>3 DEF RunLike
<1>6. sim' = Finalized(u, r)[1] /\ rec' = Finalized(u, r)[2]
  BY <1>1, <1>2, <1>4 DEF TickOf
<1>7. CASE sim.step + 1 < C.duration \/ sim.finalized
  <2>1. sim' = u /\ rec' = r
    BY <1>5, <1>6, <1>7 DEF Finalized
  <2>2. TickEnds
    BY <1>5, <1>7, <2>1 DEF TickEnds
  <2>3. ASSUME NEW v \in Car PROVE TickLeaves(v, errors[v])
    <3>1. /\ sim'.hard[v] = s.hard[v] /\ sim'.maxRolling[v] = s.maxRolling[v]
          /\ rec'.frames[v] = r.frames[v] /\ rec'.summary[v] = rec.summary[v]
      BY <1>3, <1>5, <2>1
    <3> QED
      BY <1>3, <1>7, <3>1 DEF TickLeaves
  <2> QED
    BY <2>2, <2>3
<1>8. CASE ~(sim.step + 1 < C.duration \/ sim.finalized)
  <2> DEFINE summary == [v \in Car |-> SummaryOf(u, v)]
  <2>1. sim' = [u EXCEPT !.finalized = TRUE] /\ rec' = [r EXCEPT !.summary = summary]
    BY <1>5, <1>6, <1>8 DEF Finalized
  <2>2. \A v \in Car : summary[v] = SummaryOf(u, v)
    OBVIOUS
  <2> HIDE DEF summary
  <2>3. /\ sim'.hard = u.hard /\ sim'.maxRolling = u.maxRolling /\ sim'.finalized
        /\ sim'.finalized = TRUE /\ sim'.left = u.left
    BY <1>5, <2>1 DEF RunLike
  <2>4. rec'.summary = summary /\ rec'.frames = r.frames
    BY <1>3, <2>1
  <2>5. \A v \in Car : SummaryOf(u, v) = SummaryOf(sim', v)
    BY <2>3 DEF SummaryOf
  <2>6. TickEnds
    BY <1>5, <1>8, <2>3 DEF TickEnds
  <2>7. ASSUME NEW v \in Car PROVE TickLeaves(v, errors[v])
    <3>1. rec'.summary[v] = SummaryOf(sim', v)
      BY <2>2, <2>4, <2>5
    <3>2. rec'.frames[v] = r.frames[v] /\ sim'.hard[v] = s.hard[v]
          /\ sim'.maxRolling[v] = s.maxRolling[v]
      BY <1>5, <2>3, <2>4
    <3> QED
      BY <1>3, <1>8, <3>1, <3>2 DEF TickLeaves
  <2> QED
    BY <2>6, <2>7
<1> QED
  BY <1>7, <1>8

\* The frame of a tick is flagged by the sample that was taken latest.
LEMMA FrameFlagged ==
  ASSUME NEW v, MetricsRight(v)', sim.step \in Nat, sim'.step = sim.step + 1, NEW error \in Nat
  PROVE  FlaggedRight(FrameOf(v, error), samples'[v])
<1>1. PICK L \in Nat : \E p : /\ MetricsOf(fmu'[v].metrics, samples'[v], L, p)
                             /\ Written(L, sim'.step, MetricPeriod)
  BY DEF MetricsRight
<1>2. PICK p : /\ MetricsOf(fmu'[v].metrics, samples'[v], L, p)
               /\ Written(L, sim'.step, MetricPeriod)
  BY <1>1
<1>3. PICK m, s, f : m = fmu'[v].metrics /\ s = samples'[v] /\ f = FrameOf(v, error)
  OBVIOUS
<1>4. PICK k \in Nat : k = sim.step
  OBVIOUS
<1>5. PICK M \in Nat \ {0} : M = MetricPeriod
  BY FmuAssumption
<1>6. (L - 1) * M < k + 1 /\ k + 1 <= L * M
  BY <1>2, <1>4, <1>5 DEF Written
<1>7. L > 0
  <2>1. L = 0 => L * M = 0
    BY <1>5
  <2> QED
    BY <1>6, <2>1
<1>8. PICK r \in Int : r = k - (L - 1) * M
  OBVIOUS
<1>9. L * M = (L - 1) * M + M /\ M * (L - 1) = (L - 1) * M /\ L - 1 \in Int
  OBVIOUS
<1>10. PICK x \in Int : x = (L - 1) * M /\ x < k + 1 /\ k + 1 <= x + M /\ x = M * (L - 1)
  BY <1>6, <1>9
<1>11. r \in 0 .. M - 1 /\ k = M * (L - 1) + r
  BY <1>8, <1>10
<1>12. k \div M = L - 1
  <2>1. PICK q \in Int : q = L - 1
    OBVIOUS
  <2>2. k \in Int /\ k = M * q + r
    BY <1>11, <2>1
  <2>3. k \div M = q
    BY <1>11, <2>2, Quotient
  <2> QED
    BY <2>1, <2>3
<1>13. f.t = k /\ f.rolling = Rolling(m)
       /\ ("soft" \in f.flags <=> m.violated \/ error > 0) /\ f.error = error
  BY <1>3, <1>4 DEF FrameOf
<1>14. s \in [1 .. L -> Nat] /\ m.violated = (s[L] > 0) /\ CostsUpTo(p, s, L)
       /\ m.sum = p[L] - p[IF L < PerfWindow THEN 0 ELSE L - PerfWindow]
       /\ m.count = IF L < PerfWindow THEN L ELSE PerfWindow
  BY <1>2, <1>3, <1>7 DEF MetricsOf
<1>15. f.rolling \in Int
  <2>1. PerfWindow \in Nat \ {0}
    BY FmuAssumption
  <2>2. m.sum \in Int
    <3>1. p \in [0 .. L -> Int]
      BY <1>14 DEF CostsUpTo
    <3>2. L \in 0 .. L /\ (IF L < PerfWindow THEN 0 ELSE L - PerfWindow) \in 0 .. L
      BY <2>1
    <3> QED
      BY <1>14, <3>1, <3>2
  <2>3. m.count \in Nat
    BY <1>14, <2>1
  <2>4. PICK y \in Int : y = m.sum
    BY <2>2
  <2>5. CASE m.count = 0
    BY <1>13, <2>5 DEF Rolling
  <2>6. CASE m.count # 0
    <3>1. PICK n \in Nat \ {0} : n = m.count
      BY <2>3, <2>6
    <3>2. y \div n \in Int
      OBVIOUS
    <3> QED
      BY <1>13, <2>4, <2>6, <3>1, <3>2 DEF Rolling
  <2> QED
    BY <2>5, <2>6
<1>16. Len(s) = L
  BY <1>14
<1>17. L \in 1 .. Len(s) /\ (f.t \div MetricPeriod) + 1 = L
  BY <1>5, <1>7, <1>12, <1>13, <1>16
<1>18. "soft" \in f.flags <=> f.error > 0 \/ s[L] > 0
  BY <1>13, <1>14
<1>19. FlaggedRight(f, s)
  BY <1>15, <1>17, <1>18 DEF FlaggedRight
<1> QED
  BY <1>3, <1>19

LEMMA TickCounts ==
  ASSUME NEW v \in Car, RecordingOf(rec, sim.step), MetricsRight(v), MetricsRight(v)',
         sim.step \in Nat, sim'.step = sim.step + 1, NEW error \in Nat,
         TickMetrics(v, error), TickLeaves(v, error),
         CountedRight(rec.frames[v], samples[v], sim.hard[v], sim.maxRolling[v])
  PROVE  CountedRight(rec'.frames[v], samples'[v], sim'.hard[v], sim'.maxRolling[v])
<1>1. PICK F : F = rec.frames[v]
  OBVIOUS
<1>2. PICK s : s = samples[v]
  OBVIOUS
<1>3. PICK t : t = samples'[v]
  OBVIOUS
<1>4. PICK h, x : h = sim.hard[v] /\ x = sim.maxRolling[v]
  OBVIOUS
<1>5. PICK f : f = FrameOf(v, error)
  OBVIOUS
<1>6. CountedRight(F, t, h, x)
  <2>1. CASE sim.step % MetricPeriod = 0
    <3>1. PICK L \in Nat : \E p : MetricsOf(fmu[v].metrics, samples[v], L, p)
      BY DEF MetricsRight
    <3>2. s \in [1 .. L -> Nat]
      BY <1>2, <3>1 DEF MetricsOf
    <3>3. t = Append(s, error)
      BY <1>2, <1>3, <2>1 DEF TickMetrics
    <3>4. CountedRight(F, s, h, x)
      BY <1>1, <1>2, <1>4
    <3>5. CountedRight(F, Append(s, error), h, x)
      BY <3>2, <3>4, SampleKeepsCounts
    <3> QED
      BY <3>3, <3>5
  <2>2. CASE sim.step % MetricPeriod # 0
    BY <1>1, <1>2, <1>3, <1>4, <2>2 DEF TickMetrics
  <2> QED
    BY <2>1, <2>2
<1>7. CASE sim.step % C.decimation = 0
  <2>1. FlaggedRight(f, t)
    BY <1>3, <1>5, FrameFlagged
  <2>2. IsSequence(F)
    <3>1. rec.meta.cars = C.cars
      BY DEF RecordingOf, Meta
    <3> QED
      BY <1>1, <3>1 DEF RecordingOf, IsRecording, Car
  <2>3. CountedRight(Append(F, f), t, IF "hard" \in f.flags THEN h + 1 ELSE h,
                     IF f.rolling > x THEN f.rolling ELSE x)
    BY <1>6, <2>1, <2>2, FrameKeepsCounts
  <2>4. "hard" \in f.flags <=> error > 1
    BY <1>5 DEF FrameOf
  <2>5. /\ rec'.frames[v] = Append(F, f)
        /\ sim'.hard[v] = IF "hard" \in f.flags THEN h + 1 ELSE h
        /\ sim'.maxRolling[v] = IF f.rolling > x THEN f.rolling ELSE x
    BY <1>1, <1>4, <1>5, <1>7, <2>4 DEF TickLeaves
  <2> QED
    BY <1>3, <2>3, <2>5
<1>8. CASE sim.step % C.decimation # 0
  <2>1. rec'.frames[v] = F /\ sim'.hard[v] = h /\ sim'.maxRolling[v] = x
    BY <1>1, <1>4, <1>8 DEF TickLeaves
  <2> QED
    BY <1>3, <1>6, <2>1
<1> QED
  BY <1>7, <1>8

LEMMA CountInvAdvance ==
  ASSUME ModeInv, DriveInv, RunInv, SampledInv, CountInv, EndInv, Advance, UNCHANGED <<mode, csv>>
  PROVE  CountInv' /\ EndInv'
<1>0. mode # "replay"
  BY DEF ModeInv, Advance
<1>1. PICK errors : TickOf(errors)
  BY AdvanceTick
<1>2. /\ sim.step \in Nat /\ sim'.step = sim.step + 1 /\ Car' = Car /\ C' = C /\ pc' = "tick"
      /\ RunLike(sim) /\ RecordingOf(rec, sim.step) /\ ~Finished /\ pc = "advance"
  BY <1>0, AdvanceTick DEF DriveInv, RunInv, Advance
<1>3. TickEnds /\ \A v \in Car : TickLeaves(v, errors[v])
  BY <1>1, <1>2, TickDoes
<1>4. /\ sim.finalized \in BOOLEAN /\ ~sim.finalized /\ sim.step < C.duration
      /\ C.duration \in Nat \ {0}
  BY <1>0, <1>2, ConfigTypes DEF CountInv, Finished, ModeInv
<1>5. /\ sim'.finalized \in BOOLEAN /\ (sim'.finalized <=> sim'.step >= C.duration)
      /\ sim'.step <= C.duration
  <2>1. CASE sim.step + 1 < C.duration
    <3>1. sim'.finalized = sim.finalized
      BY <1>3, <2>1 DEF TickEnds
    <3> QED
      BY <1>2, <1>4, <2>1, <3>1
  <2>2. CASE ~(sim.step + 1 < C.duration)
    <3>1. sim'.finalized = TRUE
      BY <1>3, <1>4, <2>2 DEF TickEnds
    <3>2. sim.step + 1 = C.duration
      BY <1>2, <1>4, <2>2
    <3>3. sim'.step >= C.duration /\ sim'.step <= C.duration
      BY <1>2, <1>4, <3>2
    <3>4. sim'.finalized \in BOOLEAN /\ sim'.finalized
      BY <3>1
    <3> QED
      BY <3>3, <3>4
  <2> QED
    BY <2>1, <2>2
<1>6. ASSUME NEW v \in Car
      PROVE  /\ CountedRight(rec'.frames[v], samples'[v], sim'.hard[v], sim'.maxRolling[v])
             /\ IF sim'.finalized THEN SummaryRight(rec.summary[v], v)'
                ELSE rec'.summary[v] = NoSummary
  <2>1. TickMetrics(v, errors[v]) /\ errors[v] \in Nat /\ TickLeaves(v, errors[v])
    BY <1>1, <1>3 DEF TickOf
  <2>2. MetricsRight(v)
    BY <1>0 DEF SampledInv
  <2>3. MetricsRight(v)'
    BY <1>2, <2>1, <2>2, TickMeasures
  <2>4. /\ CountedRight(rec.frames[v], samples[v], sim.hard[v], sim.maxRolling[v])
        /\ rec.summary[v] = NoSummary
    BY <1>0, <1>4 DEF CountInv
  <2>5. CountedRight(rec'.frames[v], samples'[v], sim'.hard[v], sim'.maxRolling[v])
    BY <1>2, <2>1, <2>2, <2>3, <2>4, TickCounts
  <2>6. CASE sim.step + 1 < C.duration
    <3>1. rec'.summary[v] = NoSummary /\ ~sim'.finalized
      BY <1>3, <1>4, <2>1, <2>4, <2>6 DEF TickLeaves, TickEnds
    <3> QED
      BY <2>5, <3>1
  <2>7. CASE ~(sim.step + 1 < C.duration)
    <3>1. rec'.summary[v] = SummaryOf(sim', v) /\ sim'.finalized
      BY <1>3, <1>4, <2>1, <2>7 DEF TickLeaves, TickEnds
    <3>2. SummaryRight(rec.summary[v], v)'
      BY <1>2, <3>1 DEF SummaryRight, SummaryOf
    <3> QED
      BY <2>5, <3>1, <3>2
  <2> QED
    BY <2>6, <2>7
<1>7. CountInv'
  BY <1>2, <1>5, <1>6 DEF CountInv
<1>8. EndInv'
  <2>1. csv' = <<>>
    BY <1>4 DEF EndInv
  <2>2. mode = "headless" => sim'.left = C.duration - sim'.step
    <3>1. mode = "headless" => sim.left = C.duration - sim.step
      BY DEF EndInv
    <3> QED
      BY <1>2, <1>3, <1>4, <3>1 DEF TickEnds
  <2> QED
    BY <1>2, <2>1, <2>2 DEF EndInv
<1> QED
  BY <1>7, <1>8

\* What counts nothing.
Uncounted ==
  /\ UNCHANGED <<conf, fmu, samples, rec, csv>>
  /\ sim' = sim \/ (mode = "live" /\ \E ticks : sim' = [sim EXCEPT !.left = ticks])
  /\ mode' \in {mode, "replay"} /\ (pc' = "launch" => pc = "launch" \/ mode' = "replay")
  /\ mode = "headless" /\ pc' \in {"csv", "open", "save"} =>
       pc \in {"csv", "open", "save"} \/ sim.finalized

LEMMA UncountedKeeps ==
  DriveInv /\ CountInv /\ EndInv /\ Uncounted => CountInv' /\ EndInv'
<1> SUFFICES ASSUME DriveInv, CountInv, EndInv, Uncounted PROVE CountInv' /\ EndInv'
  OBVIOUS
<1>1. /\ sim'.step = sim.step /\ sim'.finalized = sim.finalized /\ sim'.hard = sim.hard
      /\ sim'.maxRolling = sim.maxRolling /\ (mode # "live" => sim' = sim)
  BY DEF DriveInv, RunLike, Uncounted
<1>2. Car' = Car /\ C' = C
  BY DEF Uncounted, Car, C
<1>3. CountInv'
  BY <1>1, <1>2 DEF CountInv, Uncounted, SummaryRight
<1>4. EndInv'
  BY <1>1, <1>2 DEF EndInv, Uncounted
<1> QED
  BY <1>3, <1>4

LEMMA CountInvNext ==
  SessionInv /\ SampledInv /\ CountInv /\ EndInv /\ [Next]_sessionVars => CountInv' /\ EndInv'
<1> SUFFICES ASSUME ModeInv, DriveInv, RunInv, SampledInv, CountInv, EndInv, [Next]_sessionVars
             PROVE  CountInv' /\ EndInv'
  BY DEF SessionInv
<1> USE DEF Uncounted, simVars, driveVars, ioVars
<1>1. ASSUME NEW status, Quit(status) PROVE CountInv' /\ EndInv'
  <2>1. UNCHANGED <<conf, simVars, mode, csv>> /\ pc' = "done"
    BY <1>1 DEF Quit
  <2> QED
    BY <2>1, UncountedKeeps
<1>2. CASE LoadFile
  <2>1. CASE Quit(1)
    BY <1>1, <2>1
  <2>2. CASE mode = "replay" /\ UNCHANGED <<mode, sim, csv>>
    BY <2>2 DEF CountInv, EndInv
  <2> QED
    BY <1>2, <2>1, <2>2 DEF LoadFile
<1>3. CASE Stepped
  <2>1. mode = "headless" => sim.finalized
    <3>1. C.duration \in Nat \ {0} /\ sim.step \in Nat
      BY ConfigTypes DEF ModeInv, DriveInv, RunLike
    <3>2. mode = "headless" => sim.left = C.duration - sim.step
      BY DEF EndInv
    <3>3. mode = "headless" => (sim.finalized <=> sim.step >= C.duration)
      BY DEF CountInv
    <3>4. sim.left = 0 \/ sim.step >= C.duration
      BY <1>3 DEF Stepped, Finished
    <3> QED
      BY <3>1, <3>2, <3>3, <3>4
  <2> QED
    BY <1>3, <2>1, UncountedKeeps DEF Stepped, NoneButWindow
<1>4. CASE AppendCsv
  <2>1. mode = "headless"
    BY <1>4 DEF AppendCsv, ModeInv
  <2>2. sim.finalized
    BY <1>4, <2>1 DEF EndInv, AppendCsv
  <2>3. /\ UNCHANGED <<conf, fmu, samples, rec, sim, mode>> /\ pc' = "open"
    BY <1>4 DEF AppendCsv
  <2>4. CountInv'
    BY <2>3 DEF CountInv, SummaryRight, Car, C
  <2>5. EndInv'
    BY <2>1, <2>2, <2>3 DEF EndInv, C
  <2> QED
    BY <2>4, <2>5
<1>5. CASE Open
  <2>1. CASE Quit(0)
    BY <1>1, <2>1
  <2>2. CASE ~Quit(0)
    BY <1>5, <2>2, UncountedKeeps DEF Open
  <2> QED
    BY <2>1, <2>2
<1>6. CASE Save
  <2>1. CASE Quit(0)
    BY <1>1, <2>1
  <2>2. CASE ~Quit(0)
    BY <1>6, <2>2, UncountedKeeps DEF Save
  <2> QED
    BY <2>1, <2>2
<1>7. CASE Closed
  BY <1>1, <1>7 DEF Closed
<1>8. CASE HandleInput
  BY <1>8, UncountedKeeps DEF HandleInput, NoneButWindow
<1>9. CASE UpdateLive
  BY <1>9, UncountedKeeps DEF UpdateLive, Live
<1>10. CASE UpdateLiveCursor
  BY <1>10, UncountedKeeps DEF UpdateLiveCursor, NoneButWindow
<1>11. CASE Draw
  <2>1. mode # "headless" /\ pc' \in {"closed", "open", "input"}
    BY <1>11 DEF Draw, AfterWindow, ModeInv
  <2> QED
    BY <1>11, <2>1, UncountedKeeps DEF Draw, NoneButWindow
<1>12. CASE DrawBeyondEnd
  BY <1>12, UncountedKeeps DEF DrawBeyondEnd, NoneButWindow
<1>13. CASE \E by \in 0 .. C.maxAdvance : UpdateCursor(by)
  BY <1>13, UncountedKeeps DEF UpdateCursor, NoneButWindow
<1>14. CASE Kill
  BY <1>1, <1>14 DEF Kill
<1>15. CASE Relaunch
  BY <1>15, UncountedKeeps DEF Relaunch
<1>16. CASE CloseWindow
  <2>1. mode # "headless" /\ pc' \in {"closed", "open"}
    BY <1>16 DEF CloseWindow, AfterWindow, ModeInv
  <2> QED
    BY <1>16, <2>1, UncountedKeeps DEF CloseWindow, NoneButWindow
<1>17. CASE StartHeadless
  <2>1. Start("tick") /\ UNCHANGED <<mode, csv>> /\ pc = "launch" /\ mode # "replay"
    BY <1>17 DEF StartHeadless
  <2> QED
    BY <2>1, CountInvStart
<1>18. CASE StartLive
  <2>1. Start("input") /\ UNCHANGED <<mode, csv>> /\ pc = "launch" /\ mode # "replay"
    BY <1>18 DEF StartLive
  <2> QED
    BY <2>1, CountInvStart
<1>19. CASE SetInputs /\ UNCHANGED <<mode, csv>>
  <2>1. /\ UNCHANGED <<conf, samples, sim, rec, mode, csv>> /\ ~Finished /\ pc' = "advance"
    BY <1>19 DEF SetInputs
  <2>2. mode # "replay" => ~sim.finalized
    BY <2>1 DEF CountInv, Finished
  <2>3. CountInv'
    BY <2>1, <2>2 DEF CountInv, Car, C
  <2>4. EndInv'
    BY <2>1 DEF EndInv, C
  <2> QED
    BY <2>3, <2>4
<1>20. CASE Advance /\ UNCHANGED <<mode, csv>>
  BY <1>20, CountInvAdvance
<1>21. CASE UNCHANGED sessionVars
  BY <1>21, UncountedKeeps DEF sessionVars
<1> QED
  BY <1>2, <1>3, <1>4, <1>5, <1>6, <1>7, <1>8, <1>9, <1>10, <1>11, <1>12, <1>13, <1>14, <1>15,
     <1>16, <1>17, <1>18, <1>19, <1>20, <1>21 DEF Next, Program, Step

LEMMA CountInvSummary ==
  ModeInv /\ DriveInv /\ RunInv /\ SampledInv /\ CountInv /\ EndInv => SummaryAgrees
<1> SUFFICES ASSUME ModeInv, DriveInv, RunInv, SampledInv, CountInv, EndInv PROVE SummaryAgrees
  OBVIOUS
<1>1. ASSUME mode # "replay", NEW v \in Car
      PROVE  LET s == rec.summary[v]
                 frames == Frames(v)
             IN /\ \A i \in DOMAIN frames :
                     LET sampled == samples[v][(frames[i].t \div MetricPeriod) + 1]
                     IN "soft" \in frames[i].flags <=> frames[i].error > 0 \/ sampled > 0
                /\ ~sim.finalized => s = NoSummary /\ ~Finished
                /\ sim.finalized =>
                     /\ {frames[i].t : i \in DOMAIN frames} =
                          {t \in 0 .. C.duration - 1 : t % C.decimation = 0}
                     /\ s.hard = Cardinality({i \in DOMAIN frames : "hard" \in frames[i].flags})
                     /\ s.maxRolling = Max({0} \cup {frames[i].rolling : i \in DOMAIN frames})
                     /\ s.violations = Beyond(samples[v])
                     /\ s.softPct * C.duration < 100 * (C.duration + MetricPeriod)
  <2>1. PICK frames : frames = Frames(v)
    OBVIOUS
  <2>2. PICK s, taken : s = rec.summary[v] /\ taken = samples[v]
    OBVIOUS
  <2>3. CountedRight(frames, taken, sim.hard[v], sim.maxRolling[v])
    BY <1>1, <2>1, <2>2 DEF CountInv, Frames
  <2>4. \A i \in DOMAIN frames :
          "soft" \in frames[i].flags
            <=> frames[i].error > 0 \/ taken[(frames[i].t \div MetricPeriod) + 1] > 0
    BY <2>3 DEF CountedRight, FlaggedRight
  <2>5. ~sim.finalized => s = NoSummary /\ ~Finished
    BY <1>1, <2>2 DEF CountInv, Finished
  <2>6. ASSUME sim.finalized
        PROVE  /\ {frames[i].t : i \in DOMAIN frames} =
                    {t \in 0 .. C.duration - 1 : t % C.decimation = 0}
               /\ s.hard = Cardinality({i \in DOMAIN frames : "hard" \in frames[i].flags})
               /\ s.maxRolling = Max({0} \cup {frames[i].rolling : i \in DOMAIN frames})
               /\ s.violations = Beyond(taken)
               /\ s.softPct * C.duration < 100 * (C.duration + MetricPeriod)
    <3>1. SummaryRight(s, v)
      BY <1>1, <2>2, <2>6 DEF CountInv
    <3>2. /\ C.duration \in Nat \ {0} /\ C.decimation \in Nat \ {0}
          /\ MetricPeriod \in Nat \ {0} /\ sim.step \in Nat
      BY ConfigTypes, FmuAssumption DEF ModeInv, DriveInv, RunLike
    <3>3. sim.step = C.duration
      BY <1>1, <2>6, <3>2 DEF CountInv
    <3>4. {frames[i].t : i \in DOMAIN frames} =
            {t \in 0 .. C.duration - 1 : t % C.decimation = 0}
      <4>1. RecordingOf(rec, sim.step)
        BY <1>1 DEF RunInv
      <4>2. rec.meta = Meta /\ Meta.cars = C.cars /\ Meta.decimation = C.decimation
        BY <4>1 DEF RecordingOf, Meta
      <4>3. PICK n \in Nat : n = Len(frames) /\ Written(n, C.duration, C.decimation)
        BY <2>1, <3>3, <4>1 DEF RecordingOf, Written, Frames
      <4>4. IsSequence(frames) /\ \A i \in 1 .. Len(frames) : frames[i].t = (i - 1) * C.decimation
        BY <2>1, <4>1, <4>2 DEF RecordingOf, IsRecording, Frames, Car
      <4>5. DOMAIN frames = 1 .. n /\ \A i \in 1 .. n : frames[i].t = (i - 1) * C.decimation
        BY <4>3, <4>4 DEF IsSequence
      <4>6. PICK d \in Nat \ {0} : d = C.decimation
        BY <3>2
      <4>7. PICK D \in Nat \ {0} : D = C.duration
        BY <3>2
      <4>8. Written(n, D, d) /\ Timed(frames, n, d)
        BY <4>3, <4>5, <4>6, <4>7 DEF Timed
      <4>9. {frames[i].t : i \in DOMAIN frames} = {t \in 0 .. D - 1 : t % d = 0}
        BY <4>8, TimesAre
      <4> QED
        BY <4>6, <4>7, <4>9
    <3>5. s.hard = Cardinality({i \in DOMAIN frames : "hard" \in frames[i].flags})
      BY <2>3, <3>1 DEF CountedRight, HardOnes, SummaryRight
    <3>6. s.maxRolling = Max({0} \cup {frames[i].rolling : i \in DOMAIN frames})
      <4>1. Rollings(frames) \in SUBSET Int
        BY <2>3 DEF Rollings, CountedRight, FlaggedRight
      <4>2. Max(Rollings(frames)) = sim.maxRolling[v]
        BY <2>3, <4>1, MaxIs DEF CountedRight
      <4> QED
        BY <3>1, <4>2 DEF Rollings, SummaryRight
    <3>7. PICK L \in Nat : \E p : /\ MetricsOf(fmu[v].metrics, samples[v], L, p)
                                 /\ Written(L, sim.step, MetricPeriod)
      BY <1>1 DEF SampledInv, MetricsRight
    <3>8. /\ s.violations = Beyond(taken) /\ taken \in [1 .. L -> Nat]
          /\ Written(L, C.duration, MetricPeriod)
          /\ s.softPct = ((100 * Beyond(taken)) * MetricPeriod) \div C.duration
      BY <2>2, <3>1, <3>3, <3>7 DEF MetricsOf, SummaryRight
    <3>9. Beyond(taken) \in 0 .. L
      <4>1. {i \in DOMAIN taken : taken[i] > 0} \in SUBSET (1 .. L)
        BY <3>8
      <4>2. Cardinality({i \in DOMAIN taken : taken[i] > 0}) \in 0 .. L
        BY <4>1, OneMore, Zenon
      <4> QED
        BY <4>2, Zenon DEF Beyond
    <3>10. s.softPct * C.duration < 100 * (C.duration + MetricPeriod)
      <4>1. PICK D \in Nat \ {0} : D = C.duration
        BY <3>2
      <4>2. PICK M \in Nat \ {0} : M = MetricPeriod
        BY <3>2
      <4>3. PICK k \in 0 .. L : k = Beyond(taken)
        BY <3>9
      <4>4. (((100 * k) * M) \div D) * D < 100 * (D + M)
        <5>1. Written(L, D, M)
          BY <3>8, <4>1, <4>2
        <5> QED
          BY <5>1, ShareIs
      <4> QED
        BY <3>8, <4>1, <4>2, <4>3, <4>4, Zenon
    <3> QED
      BY <3>4, <3>5, <3>6, <3>8, <3>10
  <2> QED
    BY <2>1, <2>2, <2>4, <2>5, <2>6
<1>2. csv # <<>> => sim.finalized /\ mode # "live"
  BY DEF EndInv
<1>3. pc = "save" /\ mode = "headless" => sim.finalized
  BY DEF EndInv
<1> QED
  BY <1>1, <1>2, <1>3 DEF SummaryAgrees

\* The inductive invariant of what is measured and counted.
LEMMA MeasuredAlways == Spec => [](SampledInv /\ CountInv /\ EndInv)
<1>1. Init => SampledInv /\ CountInv /\ EndInv
  BY SampledInvInit, CountInvInit
<1>2. /\ SampledInv /\ CountInv /\ EndInv
      /\ SessionInv /\ [Next]_sessionVars
      => (SampledInv /\ CountInv /\ EndInv)'
  BY SampledInvNext, CountInvNext DEF SessionInv
<1> QED
  BY <1>1, <1>2, SessionInvAlways, PTL DEF Spec

\* updatePerformanceWindow, for every window, period of samples and sequence of errors: the
\* rolling sum is that of the latest samples, whatever the ring has overwritten, and the totals
\* are those of the run.
THEOREM RollingAlways == Spec => []RollingExact
<1> QED
  BY MeasuredAlways, SampledInvRolling, PTL

\* finalizeSummary and recordFrame, for every fleet, duration, decimation and period of samples:
\* the summary is made once, at the end, and says what the frames and the samples say; the CSV
\* has nothing of a run that was not finished.
THEOREM SummaryAlways == Spec => []SummaryAgrees
<1>1. SessionInv /\ SampledInv /\ CountInv /\ EndInv => SummaryAgrees
  BY CountInvSummary DEF SessionInv
<1> QED
  BY <1>1, SessionInvAlways, MeasuredAlways, PTL
=============================================================================
