------------------------------- MODULE SimRun -------------------------------
(***************************************************************************)
(* One run of the simulation: Simulation::start and step around the FMU    *)
(* wrapper, and what they leave in the recording.  The references come     *)
(* from the lap; the pulses of the scheduler, the errors of the plants and *)
(* the ages in the summary are chosen.                                     *)
(***************************************************************************)
EXTENDS FmuInstance, RunFile

CONSTANT Config  \* the invocations of the program, by name

\* pulses and errors: what the scheduler and a plant may do in a tick; fails: start() may
\* throw; oldest and closest: the data age and the closest call in the summary.
RunConfiguration(c) ==
  /\ {c.cars, c.duration, c.decimation, c.refresh} \subseteq Nat \ {0}
  /\ c.reference \in Seq(Inputs) /\ c.reference # <<>>
  /\ c.offsets \in [1 .. c.cars -> Nat]
  /\ c.pulses \subseteq SUBSET Trigger
  /\ c.errors \subseteq 0 .. 2
  /\ c.fails \in BOOLEAN
  /\ {c.oldest, c.closest} \subseteq Int

ASSUME RunAssumption == \A c \in DOMAIN Config : RunConfiguration(Config[c])

VARIABLES
  conf,     \* the name of the invocation
  pc,       \* what the program does next
  exit,     \* the exit status, -1 while it runs
  sim,      \* step_, finalized_, hardCount_ and maxRolling_, and the ticks that are left to do
  fmu,      \* the component of every car
  wrapper,  \* its FmuInstance
  rec,      \* rec_
  pred,     \* predCache_: the tick a prediction was made in and the tick it starts at
  asked,    \* history: the inputs and the pulses of the latest tick
  served,   \* history: what the plant was driven with then
  samples   \* history: the errors that were measured

driveVars == <<fmu, wrapper, asked, served>>
simVars == <<driveVars, sim, rec, pred, samples>>

C == Config[conf]
Car == 1 .. C.cars
CarsOf(c) == 1 .. Config[c].cars
Lap == Len(C.reference)
RefStep(v, i) == (i + C.offsets[v]) % Lap
Finished == sim.step >= C.duration

Pulsed == INSTANCE PulsedPlant WITH Car <- CarsOf, due <- pc = "advance"

NewSim == [step |-> 0, finalized |-> FALSE, left |-> C.duration, hard |-> [v \in Car |-> 0],
           maxRolling |-> [v \in Car |-> 0]]
NewRecording ==
  [version |-> Version, plant |-> CarPlant, offsets |-> C.offsets,
   meta |-> [cars |-> C.cars, decimation |-> C.decimation, duration |-> C.duration],
   summary |-> [v \in Car |-> NoSummary], frames |-> [v \in Car |-> <<>>]]
NoOverlay == [car |-> 0, from |-> -1, base |-> -1]
NothingAsked == [at |-> -1, inputs |-> [n \in Input |-> 0], triggers |-> {}]

\* Simulation::start; anything it throws ends the program.
Start(next) ==
  \/ /\ C.fails
     /\ pc' = "done" /\ exit' = 1
     /\ UNCHANGED <<simVars, conf>>
  \/ /\ pc' = next
     /\ fmu' = [v \in Car |-> Initialized]
     /\ wrapper' = [v \in Car |-> NewWrapper]
     /\ sim' = NewSim
     /\ rec' = NewRecording
     /\ pred' = [v \in Car |-> NoOverlay]
     /\ UNCHANGED <<conf, exit, asked, served, samples>>

\* finalizeSummary
SummaryOf(s, v) ==
  [violations |-> fmu'[v].metrics.violations,
   softPct |-> (100 * fmu'[v].metrics.violations * MetricPeriod) \div C.duration,
   hard |-> s.hard[v], maxRolling |-> s.maxRolling[v],
   oldest |-> C.oldest, closest |-> C.closest]

\* Fault: the summary is made before the last tick is counted.
FinalizedEarly(s, r) ==
  IF s.step + 1 < C.duration \/ s.finalized THEN <<s, r>>
  ELSE <<[s EXCEPT !.finalized = TRUE], [r EXCEPT !.summary = [v \in Car |-> SummaryOf(s, v)]]>>

Finalized(s, r) ==
  IF s.step < C.duration \/ s.finalized THEN <<s, r>>
  ELSE <<[s EXCEPT !.finalized = TRUE], [r EXCEPT !.summary = [v \in Car |-> SummaryOf(s, v)]]>>

\* step(), up to the scheduler: every car gets the references of the tick.
SetInputs ==
  /\ pc = "tick" /\ sim.left > 0 /\ ~Finished
  /\ pc' = "advance"
  /\ \E pulses \in [Car -> C.pulses] :
       LET in(v) == C.reference[RefStep(v, sim.step) + 1]
       IN /\ fmu' = [v \in Car |-> SetReal(fmu[v], ChangedInputs(wrapper[v], in(v)))]
          /\ wrapper' = [v \in Car |->
               [wrapper[v] EXCEPT !.inputs = in(v), !.inputsInitialized = TRUE]]
          /\ asked' = [v \in Car |-> [at |-> sim.step, inputs |-> in(v), triggers |-> pulses[v]]]
  /\ UNCHANGED <<conf, exit, sim, rec, pred, served, samples>>

\* recordFrame, for one car with its error.
FrameOf(v, error) ==
  LET m == fmu'[v].metrics
  IN [t |-> sim.step, ref |-> RefStep(v, sim.step), error |-> error, rolling |-> Rolling(m),
      flags |-> (IF m.violated \/ error > 0 THEN {"soft"} ELSE {})
                  \cup (IF error > 1 THEN {"hard"} ELSE {})
                  \cup (IF m.critical THEN {"critical"} ELSE {}),
      phys |-> sim.step]

Recorded(s, r, errors) ==
  IF s.step % C.decimation # 0 THEN <<s, r>>
  ELSE <<[s EXCEPT !.hard = [v \in Car |-> IF errors[v] > 1 THEN @[v] + 1 ELSE @[v]],
                   !.maxRolling = [v \in Car |->
                     IF Rolling(fmu'[v].metrics) > @[v] THEN Rolling(fmu'[v].metrics) ELSE @[v]]],
         [r EXCEPT !.frames = [v \in Car |-> Append(@[v], FrameOf(v, errors[v]))]]>>

\* The rest of step(): pulses, the plants, predictions, the recording.
Advance ==
  /\ pc = "advance"
  /\ pc' = "tick"
  /\ \E errors \in [Car -> C.errors] :
       LET pulsed(v) == SetBoolean(fmu[v], ChangedTriggers(wrapper[v], asked[v].triggers))
       IN /\ fmu' = [v \in Car |-> DoStep(pulsed(v), sim.step, errors[v])]
          /\ wrapper' = [v \in Car |-> [wrapper[v] EXCEPT !.triggers = asked[v].triggers,
                                                          !.triggersInitialized = TRUE]]
          /\ served' = [v \in Car |->
               [at |-> pulsed(v).time, inputs |-> pulsed(v).inputs,
                triggers |-> pulsed(v).triggers, gains |-> pulsed(v).gains]]
          /\ samples' = [v \in Car |->
               IF sim.step % MetricPeriod = 0 THEN Append(samples[v], errors[v]) ELSE samples[v]]
          /\ LET recorded == Recorded(sim, rec, errors)
                 stepped == [recorded[1] EXCEPT !.step = @ + 1, !.left = @ - 1]
                 done == Finalized(stepped, recorded[2])
             IN sim' = done[1] /\ rec' = done[2]
  /\ pred' = IF sim.step % C.refresh = 0
               THEN [v \in Car |->
                       [car |-> v, from |-> sim.step, base |-> RefStep(v, sim.step + 1)]]
               ELSE pred
  /\ UNCHANGED <<conf, exit, asked>>
=============================================================================
