# TLA+ models of the physics-derived timing harness

This directory holds the formal side of the co-simulation harness in `src/`: a
fleet of vehicles whose controllers run on a shared cloud server, simulated tick
by tick (one tick is `SimConfig::baseStep`, 0.1 ms) against an FMU (lateral motion) or a cart-pole.  The harness
answers questions about *timing*: how old is the sensor data behind the command
a vehicle applies, and what does the scheduler's choice do to it.  The models are
about that: which job reads which value in which tick.  Around it are models of what
feeds the scheduler and of what is kept of a run: the zones of the lap, the
predictions and their ageing, the FMU wrapper, the recording, the window and the
program from start to exit.  The numbers that the plants compute are left out; the
provenance of every value is kept, and a rollout is any deterministic function.

All paths below are relative to the directory that holds `src/` and `tla/`.

## 1. The system

| Component | State | Operations |
|---|---|---|
| **Task chain** `src/src/sched/TaskModel.*` (one per vehicle) | six jobs (`nextRelease, active, started, execTicks, ranTicks, band`), packets in flight on two networks, one provenance stamp per register under two merge conventions, publication holds, a two-bucket window of latch ages, miss counters | `beginTick` (release, kill or skip, list ready cloud jobs), `endTick` (advance granted jobs, publish, deliver, stamp, emit pulses), `setExtraNetDelay`, `setFHold`, `setBHold` |
| **Policy scheduler** `PolicyScheduler.cpp` | the chains, miss records | `onTick`: begin every chain, let the policy order the ready jobs, grant `min(nCores, ready)`, end every chain |
| **Policies** `policies/*.cpp` | mostly none; Frontier keeps the last finished Feedforward, AdaptiveGuard a threshold | `assign`: sort the ready list |
| **Plant: FMU** `LateralMotionControl.c`, `Fmu.cpp`, `LateralPlant.cpp` | registers `*_comp`/`*_out`, two ring buffers of 100 packets | `setInputs`, `applyTriggers`, `doStep` -> `process_trigger_events` |
| **Plant: cart-pole** `CartPolePlant.cpp` | the same registers, `deque` buffers | `doStep` |
| **FMU wrapper** `Fmu.cpp` | the last inputs and triggers written, and whether any were | `initialize`, `setInputs` and `applyTriggers` (both write what has changed only), `doStep` |
| **Simulation** `Simulation.cpp` | step counter, start offsets, prediction caches (oracle and honest), ring of past outputs, fidelity gate, frames, fleet statistics | `start`, `step` (build views, `onTick`, step every plant, check and refresh predictions, measure, record), `finalizeSummary` |
| **Predictor** `Predictor.cpp` | none between calls | `predictHold`: rollout of the held command, rescue, search for the point of no return |
| **Trajectory and zones** `Trajectory.cpp` | the references of a lap, a zone per tick | load, `computeTrackZones`, `zoneAt` |
| **Recording** `Recording.cpp` | header, offsets, summaries, frames | `save`, `load` of formats 2 to 5 |
| **Visualizer** `viz/Visualizer.cpp` | cursor, playing, selected car, cached overlay | `run`: handle keys, advance the run or the cursor, draw |
| **Command line** `main.cpp` | - | headless, live and replay mode, `--save`, `--csv`, `--select`, `--screenshot` |
| **Analysis tools** `tools/rta_solve.py`, `BOUND.md` | none | response-time analysis, end-to-end age bound, capacities |
| Sweep and reproduction tools, proof checks, FMI headers | - | batch drivers, randomised tests, declarations |

*Interaction.*  Everything runs in one thread, so the only interleaving is the
one that the simulated time creates: within a tick `Simulation::step` builds the
views (zone flags, extra delay, holds, aged predictions, recent ages), calls `onTick`, and then steps the plants
with the *pulses* (`VehicleTriggers`) that each chain emitted.  The chain model
never sees the plants' data and the plants never see the chain's stamps; the
harness relies on the two routing everything alike.  A live window advances the run
itself, a picture at a time, and turns into a replay of the run when that is over;
a recording joins two processes through a file.

*What is hard.*  The order of reads and publications inside one tick; jobs killed
or skipped at any point of their execution; packets with unequal delays that
overtake each other; a publication that is delayed past the decision that allowed
it; stale values read by policies; hand-derived bounds whose off-by-ones no
simulation happens to expose; circular arithmetic on the lap; predictions that age
between two refreshes; searches that start from an aged answer; inputs that keep
their level until they are written again; a file that is cut off.  `PROJECT.json` lists each hazard at its line.

*What makes each component correct.*

- Task chain: every release ends exactly once; no job publishes after being
  killed; a tick never both publishes and activates one kind (the FMU would do
  them in the wrong order); the stamps are what `DATA_AGE.md` says they are.
- FMU and cart-pole: each register holds the data the chain's stamp describes,
  and the two plants route alike.
- Latch window: no recent latch hidden, no old one shown.
- Zones: every manoeuvre lies within a z3 arc, padding included, over the lap seam
  too; a car is flagged exactly within the window around such an arc; start offsets
  keep their spacing.
- Predictor: a rollout takes steps of ten ticks and holds the reference in a step, so a
  violation is announced less than a step late, and both it and the point of no return
  are good up to the error this makes: a rescue from the announced point succeeds where
  the rollout is exact, whatever the search started from.
- FMU wrapper: the component sees in every tick exactly the inputs and pulses of that
  tick.
- Statistics: the numbers of one run agree with each other and with its frames.
- Recording: what is loaded is what was saved, up to what the format stores; of a file
  that was cut off nothing is invented.
- Visualizer and program: the overlay belongs to the frame in view, no frame is read
  that does not exist, every run ends.
- Bound: every timely schedule keeps the applied command within it, and every
  schedule of the fleet is as timely as the response-time analysis says.
- Policies: each is what its header says it is made of; none starves what it promised
  to serve.

## 2. Modules

| Module | Models | Kind |
|---|---|---|
| `TaskChain` | `TaskChainModel`, and `PolicyScheduler::onTick` for one vehicle | state machine |
| `ChainPlant` | `TaskChain` composed with the FMU's and the cart-pole's routing | composition |
| `AgeBound` | `layer1_bound_ticks` about the executions of `TaskChain` | restricted spec |
| `CorePolicies` | the policies as sort keys over the ready jobs | pure operators |
| `Fleet` | `PolicyScheduler::onTick` over the cloud jobs of all vehicles, with each policy | state machine |
| `FrontierFleet` | `Fleet` with the one policy that has a memory | state machine |
| `ResponseTime` | `hp_interference` and `solve_rta` of `rta_solve.py` | pure functions, against `Fleet` |
| `BandResponse` | the band bounds of `fleet_bound`, and the zone-band fleet under the membership premise of `PROOF_DRAFT.md` 3.1 | restricted spec |
| `LatchAge` | `recentLatchAgeTicks` and the rotation in `endTick` | pure operators |
| `TrackZones` | `computeTrackZones`, `packZoneOffsets` and the other start offsets | pure operators |
| `FleetOnTrack` | a fleet on a lap: `start`, `buildViews`, the latch window | state machine |
| `HeldCommand` | `predictHold` and the cart-pole's `predictHeld`: rollouts, rescue, search | pure operators |
| `Oracle` | the plants, the prediction caches, the honest predictor's ring, the fidelity gate | state machine over `FleetOnTrack` |
| `Instruments` | the fleet statistics of `Simulation::step` | composition: with `FleetOnTrack` and `Oracle` one whole step around the scheduler |
| `FmuInstance` | the FMU component (levels, setters, metrics) and the wrapper's change detection | pure operators |
| `RunFile` | `RunRecording::save` and `load` | pure operators |
| `SimRun` | `start`, `step`, `recordFrame`, `finalizeSummary` around the wrapper | actions |
| `Session` | `main`, the window's loop, processes and the file | state machine over `SimRun`, with fairness |
| `PulsedPlant` | plants that are told everything in every tick | abstract specification, implemented by `Session` |
| `MCTaskChain`, `MCChainPlant`, `MCAgeBound`, `MCFleet`, `MCResponseTime`, `MCHarness`, `MCSession` | small instances for TLC | |
| `Lemmas` | facts about numbers, sequences, finite sums, periodic work, induction and recursion | lemmas |
| `TaskChainProofs` | theorems about `TaskChain`: types, publications, the bookkeeping and the stamps | proofs |
| `AgeBoundProofs` | the end-to-end bound of `AgeBound` | proofs |
| `PlantProofs` | theorems about `ChainPlant`: the stamps and the two plants | proofs |
| `FleetProofs` | theorems about `Fleet` and `FrontierFleet` | proofs |
| `TrackProofs` | theorems about `FleetOnTrack`, for the behaviours of `Instruments` | proofs |
| `OracleProofs` | theorems about `HeldCommand`, `Oracle` and `Instruments`, likewise | proofs |
| `SessionProofs` | theorems about `Session`: the pulses (the refinement of `PulsedPlant`), the file, the window, the metrics | proofs |

Three families, then: the chain (`TaskChain` and what extends it), the fleet (`Fleet` and
what extends it), and the simulation around them (`FleetOnTrack` up to `Instruments` for
what the scheduler is told and what is measured; `SimRun` and `Session` for the plants'
inputs, the recording and the program).

An operator whose comment starts with *Fault* is no part of a model: it is what
its successor would be with a plausible bug, kept to show that the properties
notice it (`PROJECT.json`, "mutants").

### TaskChain

A tick is two actions.  `BeginTick` is `beginTick` for all six kinds:
`ReleaseIfDue` is `releaseIfDue`, with its two overrun policies; the view that
`buildViews` computes for the car is chosen freely from `Views`.  `EndTick(granted)`
is `endTick`; it is written as one operator per stage in the order of the code,
and a stage refers to what the previous ones have just written with primes, which
is how the code's sequential assignments read.  `granted` is any set of at most
`NCores` ready cloud jobs: the policies hand out `min(nCores, |ready|)` cores
over the whole fleet, so what one vehicle gets can be any such set, and every
property below holds whatever the policy.  In-vehicle jobs (Sensor, Actuator) run
without a core, as in the code.

| State | Code |
|---|---|
| `job[k]` | `TaskChainModel::Job` |
| `missed` | `missedByKind_` |
| `scReceiveAt`, `caReceiveAt` | the packet lists and their stamps |
| `sensComp` .. `actOut` | the stamps; `Lineage` pairs `stamp` (freshest) with `stampOld` (oldest direct input) |
| `bCurAct`, `bPubAct`, `ffCurAct`, `ffPubAct`, `ffFinDueAt` | the publication holds |
| `maxAge`, `latch` | worst ages and the latch window |
| `trig` | `VehicleTriggers` |
| `finished` | history variable: completions per kind |

Stamps are ticks, or -1 for "no sensor data yet", as in the code.  Execution and
transmission times come from finite sets (`ExecTicks`, `ScDelays`, `CaDelays`)
instead of the samplers; every execution time is at least 2, which is the code's
clamp at `TaskModel.cpp:100`.

### ChainPlant

`Simulation::step` as far as one vehicle's data is concerned: the chain's tick,
then `doStep` of both plants on the pulses.  The FMU is the two passes of
`process_trigger_events` (all `*_fin` and receptions, then all `*_act` and
sends); the cart-pole is its stage-by-stage sequence.  A register holds the tick of
the sensor sample it derives from; a command holds those of its three inputs.
`NetworkBuffer` is the FMU's `NETWORK_BUFFER_SIZE`; it drops a packet silently
when full, the chain's list does not.

### AgeBound

`BOUND.md` section 4 proves an end-to-end bound under preconditions P1-P3: every
job completes within its response-time bound `R`, fixed execution and network
times, `R <= T`.  `TimelyNext` keeps exactly the steps of `TaskChain` that meet P1
(`Timely`): no scheduler is modelled, so the result is about every schedule for
which the `R` values are right.  `Layer1Bound` is the published formula;
`TickBound` is the exact one for the executed chain.

### CorePolicies and Fleet

A policy sorts the ready jobs and takes the first `min(nCores, n)`.  In the model it
is a key per job (a tuple, compared lexicographically) and `Foremost`, the jobs that
fewer than `nCores` others precede.  Scores that a policy computes from real-valued
metrics (comfort urgency, predictions) are inputs: `ctx[v]`, chosen anew in every
tick.  The oracle and honest variants of a policy differ only in which
twin they read, so they are one operator.

`Fleet` keeps of every vehicle what the policies and the schedule depend on: its four cloud
jobs.  `BeginTick` pushes the zone flags and releases (`releaseIfDue`, with the band
stamped at release); `EndTick` asks the policy and works one tick on each granted job.
`missed` holds what the tick's releases found unfinished.  `release` is a history
variable: the code remembers only `nextRelease`, from which `beginTick` derives the
release that a policy sees.  The policies keep no state but Frontier, whose
`lastFDone_` is a variable of `FrontierFleet`, updated as in `assign`.

A behaviour of `Fleet` is one run of the program: its *configuration* (policy, cores,
overrun policy, duration, periods, first releases, execution times, and the views that
may occur) is a record, chosen among those of `Config` in the initial state and fixed from
then on (`conf`).  A run of the checker therefore covers several configurations, each
made for one question, and a property says which configurations it is about.

### ResponseTime and BandResponse

`Interference` and `SolveTask` are `hp_interference` and the fixed-point loop of
`solve_rta` (a recursive function, since the code's loop stops at the first `x` that
is large enough or beyond the period).  The bounds are computed for the very task
set that `Fleet` executes, and the properties say that no job of an admitted task (bound
at most its period) exceeds its bound.  `BandResponse` adds the premise of Lemma 2b: at
most `topK` distinct cars are flagged within any `2 * Tmax` ticks, *which* cars is free.

### TrackZones and FleetOnTrack

A lap is a ring of ticks, as it is in the code, which resamples it to one reference per
tick.  `CurvatureDelta` is the sliding window with its two monotone queues, `Padded` is
`addCircular` around every seed, `Bridged` the walk that begins at the first tick of a lane
change.  `Offsets` is the part of `start` that places the cars: given, packed into a zone,
drawn, or spread; what a random number decides is a choice among all the values it may
have.  Curvatures and thresholds are small integers.

`FleetOnTrack` moves every car one tick along the lap per step (in the code position is
the step plus the offset, modulo the lap), and derives the view a car's policy reads.  It
also latches commands of any age from a set at any time, since the window of recent ages
is read by the view: `latches` keeps the latches themselves, as a history variable.

### HeldCommand, Oracle, Instruments

The dynamics are the parameters `Physics`, `ErrorOf`, `Tendency`; everything around them is
the code's: a rollout step holds command and reference for `block` ticks; a rescue holds the
command through the latency and then steers with full authority; the search for the last
start that recovers brackets around the aged previous answer, gallops and bisects.  Loops
are recursive functions or the least index at which the loop stops.

`Oracle` is one `step()` for the plants and predictions, in the code's order: the plants
move, a fresh command is latched at the end of the tick, the fidelity gate compares, the
caches are refreshed (from the *new* state, for the *next* tick), the ring of past outputs
is written and then read.  `cache[v]` is `predCache_`, `predBaseStep_`, `ttpnrTicks_` and
`ttpnrBaseStep_`.  The command a car latches is free: a policy's effect on it is `Fleet`'s
subject.  `Instruments` adds what the step measures, from ages that are free too.

### FmuInstance, RunFile, SimRun, Session

An FMI input is a level.  `SetReal` and `SetBoolean` are the setters, among them the
tolerance below which a change of velocity is dropped; `ChangedInputs` and
`ChangedTriggers` are what the wrapper decides to write.  `DoStep` refuses a step at the
wrong time, as `fmi2DoStep` does.  `metrics` is `PerformanceMetrics` with its ring.

`Layout` lists the items that `save` writes in order, for every format that there has
been, and `Load` reads as `load` does, a missing item being zero.  A file is cut off between
two items, not within one.

`SimRun` splits `step()` where the scheduler stands: `SetInputs` is all before it,
`Advance` all after it; between the two lies the choice of pulses.  `Session` is the program:
`pc` says where in `main` or in the window's loop it is (launch, input, update, tick,
advance, cursor, draw, csv, open, save, closed, done).  A user presses at most one key
between two pictures, or closes the window; a process may die while it saves; a second
process may replay what the first one left.  `undefined` is where a vector was indexed
beyond its end.  The cursor counts half frames, so that it may stand between two.

`PulsedPlant` is what `Simulation::step` expects of its plants: each tick every plant is
driven once, by the references and pulses of that tick.  `Session` implements it with
`due <- pc = "advance"` and with `asked` and `served`, history variables for what a step
asked of a plant and what the component then held.

## 3. Runs

| Run | Question | Result |
|---|---|---|
| `path_reorder` | skip-next, 1 core, packets overtaking on both networks: do types and accounting hold, is fresh age <= path age | holds |
| `plant_path` | fixed delays, two packets in flight, kill-and-hold, 2 cores: are the stamps the provenance of the FMU's data, do the two plants agree, is a packet dropped, are the merger's stamps the shortcut and the path, does the applied command ever regress | holds |
| `plant_zone_delay` | the stamps when zones delay commands | **violated** (finding 1) |
| `plant_hold` | Feedforward and Controller holds with kills: who owns a publication, is the dose reached, is Feedforward's staleness stamp right | holds |
| `ff_hold_extra` | the hold together with `--ff-extra-ms` | **violated** (finding 2) |
| `age_bound` | do all timely schedules keep the bound, and by how much | holds; `TickBound` is reached exactly |
| `policies` | does EDF on one core miss anything at utilisation 1; does an overloaded partition disturb a vehicle on another core; is only every k-th Estimator release served; is Hybrid TimeToUnsafe below the guard and ContextAware above; is Frontier's record of completions right, is demoted Feedforward's staleness bounded under overload, does an endangered car keep what the adaptive guard grants it, is Frontier without demotion the adaptive guard | holds |
| `aguard_saturated` | does the adaptive guard at its cap put every finite TTPNR first | **violated** (finding 3) |
| `response_times` | do jobs of admitted tasks complete within their solved bounds: full and limited carry-in, and the age-path kinds in the two-band system | holds |
| `band_feedforward` | the band bound of Feedforward | **violated** (finding 4) |
| `harness` | one `Simulation::step` around the scheduler: zones against the curvature, start offsets, flags and recent ages in the views, predictions and their ageing, the search under every warm start, the honest predictor's delayed state, the fidelity gate, the statistics | holds |
| `session` | the program from start to exit: the performance window, the summary, every file format, a process that dies while saving and one that replays what is left, the overlay under any keys, the refinement of `PulsedPlant`, the end of every run | holds |

*Bounds of the chain runs.*  `MaxStep` (12 to 40 ticks) ends a run, so the state space is
finite; TLC's deadlock check is off because a run stops there, as the simulation does at
its duration.  Periods are 2 to 6 ticks, so that a run holds several hyperperiods
of releases; a kind a run does not ask about is first released after `MaxStep`.  Execution
times of 2 and 3 in periods of 3 to 5 make both completion and overrun possible under every
overrun policy.  In `path_reorder` both networks delay by 1 or 6 ticks, while the Sensor and
the Merger send every 4: a packet is overtaken on either network, an estimate may be
older than the feedback it meets, and within the 14 ticks the Actuator applies commands with
two different stamps, one whose maximum ages differ, and one that goes back to older data.
`plant_path` has a sensor delay of 3 in a period of 2: two packets are in flight, and its
buffer of 3 is exactly what `BuffersSuffice` demands.  The stages start when the first packet
arrives, and two cores are left to the Estimator, the Controller and the Merger, two of which
need a core all the time: every grant short of all three, and with it every kill, occurs.
`plant_hold` has a hold (8) that spans two Feedforward periods (4), so that completions are
suppressed and pending publications meet both zone and no-zone ticks.
In `age_bound` every stage has its own period and response time, so that no two terms of
the bound can be confused; the exact bound is attained within the 40 ticks (with one tick
less TLC finds the schedule that exceeds it).

*Bounds of the fleet runs.*  A configuration's duration takes the place of `MaxStep`.

- `policies`: *edf* covers two hyperperiods of every phasing at utilisation
  2/4 + 2/8 + 3/12; *partition* gives the lone vehicle utilisation 1 and its neighbours 2;
  *eskip* has a Controller that delays the Estimator jobs that are served, so that a decision
  by the wrong release shows; in *hybrid* two cars change between given up, below the guard,
  above it and at ease from tick to tick.  In *calm* and *endangered* Frontier's one core is
  overloaded by the Estimators alone, so that only the heartbeat ever serves Feedforward:
  in *calm* nobody is in danger, and the staleness bound is missed by one tick only (with
  two ticks less TLC finds the schedule that exceeds it); in *endangered* cars are in danger
  and flagged for a while.
- `response_times`: *phased* is one vehicle under every phasing, with a Controller that is
  delayed beyond what an analysis without carry-in admits; *fleet* releases three vehicles
  at tick 0 and kills the last one's jobs, so that admitted tasks run above ones that
  overrun; *band* covers three periods of the slow kinds of three cars, so that a car's band
  changes and its elevated and base jobs overlap.

*Bounds of `harness`.*  One configuration per question.  *curvature* and *seeds* are every
lap of 7 ticks with three curvatures and every lap of 9 ticks with a seed or none in each
place: windows, paddings and gaps of 0 to 3 ticks meet the seam in every position, the
filled gaps and the ones too long to fill included, and a lap that is all lane change.
*pack3* (every lap of 12 ticks), *pack4*, *draw2* and *draw3* place two to four cars, with and
without room.
*latching* lets any age be latched in any tick over three buckets.  *car* and *coarse* are a
lateral plant that integrates its command twice, with a bend in the lap or none and commands
latched at any time: violations, rescues, failed rescues and horizons all occur, and
`SearchSound` tries *every* warm start, not only the one of the cache.  *coarse* has a rollout
step of two ticks, a grid of four and a horizon of twelve; *pole* is the cart-pole with a
rollout step of two and shoves every nine ticks.  Bends and shoves begin inside a rollout
step, so that a rollout is off, and violations are announced as late as the property
allows; searches answer where the rollout is exact and where it is not.  *measured* is
two cars driving through z3 of a packed lap with ages on both sides of every budget.

*Bounds of `session`.*  Runs of three to five ticks with a metric period of 2 and a
performance window of 2, which fills and wraps; pulses of two triggers, which is what change
detection and level inputs can confuse (the code's 16 are alike); velocities 12, 13, 15 with a
tolerance of 1, so that two changes that are each ignored would add up.  Two cars
for the overlay, the summaries and `[`/`]`.  Every format from 1 to 6 is loaded at every
length a cut may leave; a saved file is cut off at every length and then replayed.

*Fairness.*  `Session` assumes weak fairness of the program's own steps: it is one thread
in a loop, and the operating system lets it run.  It assumes strong fairness of an
`UpdateCursor` by half a frame or more: the cursor advances by the time since the previous
picture, and time passes between two pictures if not between every two.  Nothing is assumed
of the user, of `Kill` or of a second launch.  Under this `EveryRunEnds`: a headless run
comes to its exit status; playback reaches the last frame and stops, also when a live run ends
underneath it; a screenshot is taken and the window closes.  The other modules assume no
fairness: a tick always happens there, and what must eventually happen is stated with a
deadline in ticks (`FStalenessBounded`, the response times), which is stronger.

*Findings.*

1. `plant_zone_delay`: the zone's extra network delay is read when the Merger
   finishes, so a command sent outside the zone can overtake one sent inside, also
   with fixed transmission times.  The chain model delivers by arrival time, the FMU in sending order,
   and the stamps then describe another packet's data.  `DATA_AGE.md:176-178`
   claims FIFO for the fixed modes.
2. `ff_hold_extra`: the hold is tested on completion only, so a publication
   already pending from `--ff-extra-ms` fires inside a hold that began in between;
   `TaskModel.h:116-118` says publishes are suppressed until the dose is reached.
3. `aguard_saturated`: the guard's cap (450 ms) is below the prediction horizon
   (500 ms), so the adaptive guard never becomes pure TimeToUnsafe, as
   `AdaptiveGuard.cpp:17-19` has it.
4. `band_feedforward`: in the two-band system a flagged car's Merger outranks its own
   Feedforward, which the statically ordered solve does not count when that car is
   last in the base order; Feedforward exceeds its solved bound.  The age bound does
   not use it, and with equal periods the last Merger's own bound covers the
   Feedforward's deadline, so no verdict of `PROOF_DRAFT.md` changes; the printed
   `R_F` is not a bound.

*Met while modelling.*  These are stated in the modules' properties as the code has them;
each is a corner that a reader of the code should know.

- A gap that runs into the first z3 tick of the lap is not bridged (`Trajectory.cpp:244`),
  though the comment at `:186-188` has a whole manoeuvre as one segment.
  `ZonesCoverManeuvers` makes the exception; `ManeuverIsOneSegment` is the comment's form.
- `packZoneOffsets` walks the zone with a running distance from the lap's first tick, so two
  cars in the zone on either side of the seam may stand closer than the spacing.
  `OffsetsSpaced` makes the exception; `PackedSpaced` is the comment's form.
- The cart-pole's search never probes the horizon, so the point of no return of a pole at
  ease is a grid step below it, where `Predictor.h:45-47` says that the horizon stands for
  "not within".  `HorizonMeansRelaxed` is the header's form.
- The zone flag is exact while no z3 arc is shorter than the window.  The padding
  alone gives arcs of 2001 ticks, and the window is 2400; the arcs of the lap in the
  repository have 19 400 ticks or more.
- The share of soft violations counts a whole metric period for every sample, and exceeds 100
  by less than one period when the duration is no multiple of it.
- A live overlay starts one tick after the frame it is shown with; the one a replay computes
  starts at the frame's own tick (for the car as for the cart-pole).
- A file that was cut off loads without an error (from its version on); the window may then
  index beyond the end of a vector.  So it may when `--select` names a car beyond the fleet.
- The wrapper adds up the time it passes to `fmi2DoStep`; the sum's error stays below the
  component's tolerance for more ticks than any run has, so no step is refused.
  `Simulation` ignores the returned status.

## 4. Theorems

Each theorem holds for every value of the constants that the named assumptions of its
modules admit.  For the chain (`TaskSetAssumption`) these are any periods, offsets,
execution times of at least two ticks, delays, views, both overrun policies and any number
of cores; for the age bound (`BoundAssumption`) also any response times up to the period;
for the fleet (`FleetAssumption`) any set of configurations, over any number of vehicles and
cores, where the execution times of a kind are finitely many (`sampleExecTicks` draws them
between a best and a worst case); for the track any laps, curvatures, windows, refresh periods, stalenesses and
dynamics; for the program any number of cars, any lap, offsets, pulses and tolerance, any
keys, file and format.  No bound on the length of a run is needed.

| Theorem | Statement | Further assumption |
|---|---|---|
| `TypeCorrect` | `Spec => []TypeOK` | - |
| `PublicationOwned` | `Spec => []PendingPublishOwned` | - |
| `PulsesDisjoint` | `Spec => []NoPublishWithActivate` | - |
| `KilledNeverPublishes` | `Spec => []KilledJobNeverPublishes` | - |
| `HoldReached` | `Spec => FDoseReached` | `UniformHold` |
| `ReleasesBalance` | `Spec => []ReleasesAccounted` | - |
| `FreshBoundsPath` | `Spec => []FreshNoOlderThanPath` | - |
| `MergerConventions` | `Spec => []MergerReadsShortcutAndPath` | `FixedDelays` |
| `AppliedMonotone` | `Spec => AppliedNeverRegresses` | `FixedDelays` |
| `AgeBounded` | `TimelySpec => []AgeWithinBound` | - |
| `StalenessExact` | `PlantSpec => []StalenessShadowsFmu` | - |
| `BuffersHold` | `PlantSpec => []NoPacketDropped` | `FixedDelays`, `BuffersSuffice` |
| `StampsExact` | `PlantSpec => []StampsShadowFmu` | `FixedDelays`, `BuffersSuffice` |
| `RoutingsEquivalent` | `PlantSpec => []RoutingsAgree` | `FixedDelays`, `BuffersSuffice` |
| `Decimation` | `FrontierSpec => []OnlyEveryKthServed` | - |
| `HeartbeatFollows` | `FrontierSpec => []HeartbeatClock` | - |
| `HybridIsSliced` | `FrontierSpec => []HybridSlices` | - |
| `AblationExact` | `FrontierSpec => [](NobodyGivenUp => AblationIsAdaptiveGuard)` | `~RmAlloc` |
| `RescueExact` | `FrontierSpec => [](NobodyGivenUp => RescueKept)` | `~RmAlloc` |
| `EdfOptimal` | `FrontierSpec => []NothingMissed` | - |
| `PartitionsIsolate` | `FrontierSpec => []PartitionIsolated` | - |
| `RecentWindowExact` | `HarnessSpec => []RecentLatchWindow` | - |
| `FlagTestExact` | `HarnessSpec => []FlagExact` | - |
| `SpacedStarts` | `HarnessSpec => []OffsetsSpaced` | - |
| `ManeuversCovered` | `HarnessSpec => []ZonesCoverManeuvers` | - |
| `HonestPredictions` | `HarnessSpec => []HonestSeesDelayed` | - |
| `GateExact` | `HarnessSpec => []FidelityExact` | `Dynamics` |
| `SearchExact` | `HarnessSpec => []SearchSound` | - |
| `AgedPredictions` | `HarnessSpec => []AgedPredictionSound` | `Dynamics`, `HardBound` an integer |
| `StatisticsConsistent` | `HarnessSpec => []StatisticsAgree` | - |
| `SyncedAlways` | `Spec => []DriveInv` | - |
| `ProgramPulses` | `Spec => PulsedSpec` | - |
| `RoundTripAlways` | `Spec => []RoundTrip` | - |
| `OverlayAlways` | `Spec => []OverlayOfFrame` | - |
| `ReplayDefinedAlways` | `Spec => []ReplayDefined` | - |
| `RollingAlways` | `Spec => []RollingExact` | - |
| `SummaryAlways` | `Spec => []SummaryAgrees` | - |

*What the further assumptions say.*

- `UniformHold`: `--ff-extra-ms` is zero and all zones demand the same hold.  The first half
  cannot be dropped (`ff_hold_extra`).
- `FixedDelays`: the networks' delays are fixed and no zone adds to them; `plant_zone_delay`
  shows that it cannot be dropped.
- `BuffersSuffice`: a delay is at most the time in which the buffer's slots but two are filled.
  The code's buffer has 100 slots, its periods are 50 and 200 ticks, its delays 160 at most.
- `~RmAlloc`: the environment variable `CPS_FRONTIER_RM_ALLOC`, an ablation of its own, is not
  set (`Frontier.cpp:67`), which is the default.
- `NobodyGivenUp`: no car is beyond rescue *and* given up by triage.  Triage is off by default
  (`Simulation.h:114`), and Frontier knows no such tier, while the adaptive guard does; with
  a car given up the two differ, as they do in the code.
- `Dynamics`: some set of states contains the one at rest, is closed under `Physics`, and has
  integer errors.  The code's states are vectors of doubles, of which the gate and the search
  for a violation compare one component, the latter with a bound that is an integer here.

*Arguments: the chain.*

- **TypeCorrect** rests on two facts about queues: delivering the packet that
  `fireDue` picks leaves a sequence of packets (`RemoveAtElements`), and when a
  packet is due there is one that is due first (`LeastExists`, which gives the
  least element of a set of naturals).
- **Publication.**  None of the three invariants is inductive.  `PublicationInv`
  adds `JobOnTime` (a release is never overdue, a running job's implicit deadline
  is at most a period away, it needs two ticks or more) and
  `ActivatedSinceRelease` (a job that has started, or whose publication is pending,
  was activated since the latest release, under kill-and-hold).  The two-tick
  clamp is what makes `NoFinishWithActivate` true, and the clamp to
  `nextRelease - 1` is what keeps a pending publication out of the tick in which the
  next job overwrites it.
- **HoldReached** adds that a pending publication has already reached the dose
  (`HoldInv`).
- **ReleasesBalance** counts a release once as running, completed or missed (`Accounted`);
  the three cases of `ReleaseIfDue` and a completion each keep
  `nextRelease = Offset + Period * Accounted`.
- **FreshBoundsPath** needs the ordering of the two stamps for every packet in
  flight as well (`LineageInv`); it needs nothing about arrival order.
- **MergerConventions, AppliedMonotone** strengthen the two properties to a chain of
  inequalities down the registers (`Downstream`) and say that packets in flight lie, in
  sending order, between the register they come from and the one they go to
  (`InOrder`).  At most one packet is sent per tick, so a fixed delay gives
  strictly increasing arrival times, and the packet `fireDue` picks is the front
  one (`FrontIsFirstDue`).
- **AgeBounded** bounds the age of every register's data down the chain (`AgeInv`).  A register
  ages by one in every tick until its stage publishes again; in the tick before that, what is
  in it was read `Period + Response - 2` ticks ago (`Refresh`), so `StageEnd` has one fact for
  all five stages: the bound on what a stage reads plus its `Refresh` bounds what it has
  written.  While a job runs, the time left to its own completion is part of the bound.  A
  network adds its delay, and the last packet to arrive or to be sent stands for
  the register (`NetworkTick`, which uses that the queue is in order).  The sum is
  `TickBound`, at least ten ticks below the published bound (`PublishedIsLooser`).
- **StampsExact, BuffersHold, RoutingsEquivalent.**  The chain's packet lists and the FMU's
  buffers hold the same packets in the same order (`FmuShadow`), which is a correspondence of
  sequences, element by element (`Carries`).  It survives a tick because the FMU's push
  succeeds: the arrival times of packets in flight are at least a period apart, counted back
  from the next release of the job that sends them (`Spaced`), so that a full buffer would hold
  a packet that is overdue, and none is.  The two passes of the FMU and the stages of the cart-pole give the same
  registers because no kind publishes and activates in one tick (`PulsesDisjoint`): the
  theorem about the chain is what makes the two plants alike.
- **StalenessExact** needs none of that: it is about `ff` alone, which crosses no network.

*Arguments: the fleet.*

- `FleetInv` (types, and no release overdue) is inductive for every policy.
- **Decimation.**  A job that has any core time was granted some; `EskipProbe` lists only every
  k-th release, and a job keeps its release while it runs.
- **HeartbeatFollows.**  A completion is recorded in the tick of its last grant, at the clock
  that Frontier reads off the *other* jobs' releases; `ClockOfReady` says that this clock is
  never ahead of the step and within a period of it.
- **AblationExact, RescueExact, HybridIsSliced** compare two sorted lists.  Keys
  with a common shape are ordered by what comes first and then by the rest (`PrecedesPrefix`).
  Two keys that order the ready jobs alike serve the same jobs (`SameForemost`); a job that
  has no more predecessors under one key than under the other keeps its core
  (`KeepsPlace`); one that `nCores` others precede gets none (`NoCore`).  Frontier's key
  is the guard's with a demotion in front, so an endangered car's jobs are preceded by fewer;
  the jobs that a heartbeat lifts come after them.  For Hybrid the tiers are separated by
  the first component, so the jobs below the guard are served as if they were alone.
  The proof of `HybridIsSliced` found that the model's cases for a car overlapped
  (given up, and at ease): TLC evaluates the first that holds, but the meaning of such a
  `CASE` leaves it open.  The code's `if`s are in order, and the guards now say so.
- **EdfOptimal.**  "The work fits" is a statement about utilization, "nothing is missed" one
  about ticks.  Between them stands the demand: what is left of the running jobs
  that are due by tick `d`, and all of the jobs that will have been released and be due by then.
  `EdfInv` says that for every `d` from now on this is at most the time until `d`.  It holds at
  the start because each task's demand is at most its share of the time (`DemandWithin`,
  `FleetFits`).  A release moves work from "will be released" to "is left" and changes no demand
  (`DueBegun`); a tick of work takes one from it, for every deadline by which anything is left to
  do, as the job that EDF serves is due no later (`DueGiven`).  The demand due in the tick of a release is
  zero, so the job it replaces is finished (`NothingLate`).
- **PartitionsIsolate.**  `OwnInv` follows rate-monotonic order on the vehicle's core.  A job has
  been kept from its core for less than its period, all of that time by what
  was released of more frequent kinds meanwhile (`Kept`), and is done by a point before its
  deadline (`DoneIn`).  With harmonic periods a period of the job holds whole numbers of
  the others' periods, so what it can be kept by in one is their full share and no more
  (`FullShare`).  That its core serves it in this order, whatever the other vehicles do, is `PrmServes`.
  The proof found that the property has to ask for a core: the policy returns
  nothing when there is none, and everything is missed then.
- Both rest on sums over a finite set (`SumOver`), which the model's `FitsOneCore` takes by a fold
  in an order that nothing says; `SharesSum` says that every order gives the same.

*Arguments: the track and the predictions.*

- **RecentWindowExact.**  The two buckets know the latches of the last two bucket lengths
  (`WindowKnows`): the current one has an age at least that of every latch since it began, the
  previous one for the bucket before, each is the age of a latch that is recent, and a bucket
  begins at a multiple of the bucket length.  The invariant speaks of the window as it
  is *before* rotation, any number of buckets behind.
- **FlagTestExact.**  An arc of at least the window's length that meets the window covers one
  of its ends, or the window lies within the arc (`ThreePoints`).  `ArcCovers` says that a
  lane-change tick belongs to a run of at least that length, over the seam too; places on the
  lap are compared as integers, not as their remainders (`WrapStep`).  That a packed fleet
  starts on the lap at all (`PackedPlaced`) is a fact about two walks over it.
- **SpacedStarts.**  Each pass of `packZoneOffsets` keeps an invariant tick by tick
  (`ZoneFilled`, `RestFilled`): the places so far are apart, and while cars are left every
  zone tick is at most the spacing behind one, every other tick closer than that to one.
  If a car were left over in the end, every tick of the lap would be next to one of the
  fewer places; of as many ticks as there are cars, each twice the spacing from the next, two
  would be next to the same place (`RoomLeft`, the pigeonhole principle).  So no car falls
  back to the even spread, except when the zone is absent, and the even spread is wide enough
  then (`EvenApart`).  A sorted draw is apart by induction over the cars (`DrawApart`).
- **ManeuversCovered.**  Zones do not change, so the property is one of the lap that a run
  starts with; what is to be shown is what four computations give, one after another.  A
  queue of the sliding window holds every place of the window, or a later one that beats it,
  and the curvature falls along the queue (`QueueHolds`, kept by a push); so its front is the
  greatest of the window, the code's difference is the variation around the tick
  (`DeltaIsVariation`), and a tick is a seed for the code exactly when it is one for the
  property.  `addCircular` over the seam is the set of places within the padding
  (`RangeIsRing`).  A gap between lane changes is known by its first tick (`GapsMeet`), so a
  bridged tick belongs to one filled gap, and a tick that is not bridged to a whole gap that
  was too long or ran into the first lane change (`QuietRun`), which is also the first
  bridged tick (`FirstBridged`).  A z3 arc begins at a padded tick, hence a padding before a
  seed, and goes on for the padding behind it (`LongArcs`).
- **HonestPredictions.**  Slot `j % RingSize` holds the output of tick `j` for the last
  `RingSize` ticks (`RingHolds`), as two ticks less than `RingSize` apart never share a slot;
  a prediction is of the output `staleness` ticks before (`MadeFrom`).  A refresh that
  searches for the point of no return and one that does not roll out the same states
  (`HeldAlike`), and no search changes the time to violation (`ViolationAlike`).
- **GateExact.**  While the command is held, the car is where the rollout has it
  (`GateFollows`).  In the tick in which a new command is latched the comparison still
  precedes it.
- **Rollouts and searches** are recursive functions.  `RecursionDefines` says that a recursion
  over a range of numbers has a solution, so that the `CHOOSE` it stands for meets its
  equation (`HeldDefined`); what holds all along is then shown by `StepByStep`, an induction
  with a set of numbers in the place of a predicate.
- **SearchExact.**  Galloping keeps a start that recovers below, and a start that fails above
  or none (`GallopFinds`); bisection halves what is between them down to one point of the
  grid, with both facts kept (`BisectFinds`).  Nothing is assumed of recoverability, which
  need not be monotone.  The bracket is below the violation, because the last start tried is
  the last grid point before it (`LastStartIsLast`).  The answer is the horizon instead of that
  start's tick exactly if no violation is ahead and the start is the grid's last.
- **AgedPredictions.**  While a command is held the plant moves, tick by tick, along the path
  that begins where its prediction was made (`CameTo`, part of `AgedInv`), and what lies ahead of
  it is the rest of that path (`PathGoesOn`).  The prediction was rolled out in steps of `block`
  ticks, not along that path; at the ends of its steps the two differ by `RolloutError` at
  most (`GreatestDifference`, `Within`).  So a violation at the end of a step is one on the
  path up to that error (`TtvStands`, `Nearly`), and one that lasts as long as a step contains
  a step's end (`MultipleWithin`), at which the rollout sees it: the first it sees is not later
  (`BreachIsFirst`).  The inductive invariant adds what the caches know: the violation is
  the rollout's first (`TtvKnows`), and the rescue from the announced point succeeds
  (`PnrKnows`), for the car's search and the cart-pole's (`PnrRescues`).  A rescue is always
  simulated tick by tick, so from the same state it ends alike (`RescueAlike`, `PnrStands`).
- **StatisticsConsistent.**  `MeasuredInv` follows each instrument by itself.  A count that is
  kept of every tick is `Tallied`: its histogram sums to the ticks counted, and its maximum is
  the greatest bin that is not empty; one more tick keeps both (`TalliedOne`).  The other parts
  relate two instruments: in a tick the cars near their point of no return are a subset of those
  in danger, and a smaller tau counts a superset (`OldMonotone`, `DangerCounted`), so the maxima
  are ordered as the counts are.  The closest call needs to know that what is cached are numbers
  of ticks, whatever the search answered (`PredictionType`, `CachesTyped`).  The packed zone
  needs to know that its cars are still where they were put in the first tick that is counted
  (`StartsHere`), which they are because a packed fleet starts on the lap (`PackedPlaced`).

*Arguments: the program.*

- **ProgramPulses** says that the program implements `PulsedPlant`.  A step of the program
  that drives the plants is a step of the abstract one only if wrapper and component agree
  beforehand; `DriveInv` says so.  Between two calls a wrapper that has written triggers
  remembers exactly the component's, one that has written inputs remembers them up to a
  velocity that differs by at most `Tol`, and the component's time is the run's step.
  Velocities do not drift apart because the component compares with what *it* holds, not with
  the previous call (`InputsArrive`).  `PulsesArrive` is why a pulse lasts one tick.  All
  other actions leave plants, wrappers and the run alone, or only count (`AroundIsUntouched`,
  `UntouchedKeepsDriveInv`); a new run starts with a wrapper that claims to know nothing
  (`FreshPair`).  `StepIsPulsed` puts the cases together.
- **RoundTripAlways.**  The layout of a file is a concatenation of pieces, of which the last
  is itself a flattened sequence, a piece per car.  `FlattenLays` says where the pieces of a
  flattened sequence lie, `LayoutLays` where every item of a file does, and `LoadReads` that
  `load` looks for it there: of a prefix, each number read is the one written or zero, and no
  car's frames begin anywhere else.  `FileInv` says that the file is a prefix of the layout of
  what is being saved, whichever process looks at it.  It needs `RecordingOf`: a run has the
  same number of frames for every car, one every `decimation` ticks (`Written`, `TickRecorded`),
  as has, by assumption (`IsRecording` in `SessionAssumption`), the recording that a file of an
  earlier run is of.
- **OverlayAlways, ReplayDefinedAlways.**  `WindowInv` says what the cursor and the frame are in
  each of the loop's places, that whatever is cached was computed of the car and the frame it is
  filed under (`CacheRight`), and that what is shown is right when it was drawn.  What the
  simulation predicts is that of the latest refresh (`PredictionOf`, in `RunInv`), which is why a
  live overlay and a replayed one agree.
- **RollingAlways.**  `MetricsOf` relates the FMU's registers to partial sums of the costs: the
  rolling sum is the difference of two of them, and the ring holds the latest costs at places
  that differ (`PlacesApart`), so what a new sample overwrites is the cost to subtract
  (`MeasuredOne`).  A total over a sequence is defined by a fold in an order that nothing
  says; `SumAny` shows, by induction over the cardinality of the set, that every order gives
  the same sum, hence that of the partial sums (`TotalIs`, `WindowTotal`).
- **SummaryAlways.**  Every frame's soft flag is that of the sample taken latest, which later
  samples do not change; the counts and the greatest rolling average follow the frames one by
  one (`CountedRight`).  `CountInv` adds that the summary is what was counted once the duration
  is reached, and not there before; `EndInv` that a run without a window has exactly the
  remaining ticks left to do, so that it writes its CSV and its file at the end.

*Only model-checked.*

- `FStalenessBounded`: how old Feedforward's work may get depends on the load of the
  configuration, so the property is one of the configuration that is checked and not of all.
- `WithinResponse`, `WithinBandResponse`: a global response-time analysis, whose argument is about
  the work that jobs carry into an interval from before it.
- `EveryRunEnds`: liveness under fairness, which is outside the proof system's reach.

The library's theorems of induction take a predicate and are outside its reach.  Induction
over numbers is proved in `Lemmas` for sets; each recursive definition is shown to
solve its equation where it is used.

## 5. Not modelled

- Numbers: plant dynamics, estimator matrices, controller gains, the cart-pole's integrator.
  The error that a rollout makes by its numbers is left out with them: the vehicle matrices
  of a rounded velocity (`velQuantum`), the pole's integration by 1 ms at once.
  `RolloutError` is that of holding the reference alone.
  Nothing here says that a command is *good*, only how old it is, and that a prediction is
  about the plant it was made from.  The predictor's cached vehicle matrices are part of
  `Physics`.
- The Feedforward half of a command packet in `TaskChain`: the code carries
  `ffPubAct` of the merged value only as a statistic; `ChainPlant` follows the data itself.
- Who gets the cores, in `TaskChain`: any choice is allowed there, which is sound for
  every property of a chain; `Fleet` has the policies but not the chains' data.  Views are
  free in `Fleet` for the same reason; `FleetOnTrack` and `Oracle` say which ones occur.
- What `EskipProbe` serves under skip-next: the release that it decides by is derived from
  `nextRelease`, which every skipped release moves on, so nothing is claimed there.
- In `Simulation`: the reference error of `--qzone-eps`, the predictor's own run time, the
  peak actuation, the printed report.
- Reading the track's CSV files and resampling them; loading the FMU's library and
  releasing the component.
- In the Visualizer: everything that is drawn but for which frame and overlay it is of, the
  camera, the playback speed (time is free between two pictures).
- In `main.cpp`: parsing and validating arguments, `makePolicy`, the printed summary.
- A file that is cut off within an item.  `load` would read the rest of that item as
  zero or, for a count, as a smaller number; the model cuts between items.
- Capacity sweeps and cross-checks of `rta_solve.py`; batch drivers and proof checks.
- The vendored FMI headers.

## 6. Plan

What is left, in this order.

1. **The fleet**: `FStalenessBounded` from the heartbeat's clock and the head of Frontier's order.
2. **Composition**: `Fleet` as a source of grants for `TaskChain` (its projection on one
   vehicle is a behaviour of the chain), so that the chain theorems hold for each policy;
   `FleetOnTrack` as the source of its views.
3. **The cart-pole's search**: what `PoleBisect` does promise, next to the car's `SearchSound`.
