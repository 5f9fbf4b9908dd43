----------------------------- MODULE FmuInstance -----------------------------
(***************************************************************************)
(* One component of the Bosch FMU behind the wrapper that drives it.  FMI  *)
(* inputs are levels: they keep their value until they are written again.  *)
(* The wrapper writes only what has changed since its previous call.       *)
(***************************************************************************)
EXTENDS Integers, Sequences

CONSTANTS
  Trigger,      \* the trigger inputs (the code has 16)
  Tol,          \* TOL: a smaller change of the velocity is ignored
  MetricPeriod, \* ticks between two performance samples (the code has 100)
  PerfWindow    \* PERF_WINDOW_SIZE

ASSUME FmuAssumption ==
  /\ Tol \in Nat
  /\ {MetricPeriod, PerfWindow} \subseteq Nat \ {0}

Input == {"ff0", "ff1", "velocity"}
Inputs == [Input -> Int]

Distance(x, y) == IF x < y THEN y - x ELSE x - y

-----------------------------------------------------------------------------
(* PerformanceMetrics *)

NewMetrics ==
  [ring |-> [i \in 0 .. PerfWindow - 1 |-> 0], head |-> 0, count |-> 0, sum |-> 0, total |-> 0,
   violated |-> FALSE, violations |-> 0, critical |-> FALSE]

\* Fault: the window forgets a sample as soon as it is full.
SampledEarly(m, x) ==
  [m EXCEPT !.sum = (IF m.count >= PerfWindow - 1 THEN m.sum - m.ring[m.head] ELSE m.sum) + x,
            !.ring[m.head] = x,
            !.count = IF m.count < PerfWindow - 1 THEN m.count + 1 ELSE m.count,
            !.head = (m.head + 1) % PerfWindow]

\* updatePerformanceWindow
Sampled(m, x) ==
  [m EXCEPT !.sum = (IF m.count = PerfWindow THEN m.sum - m.ring[m.head] ELSE m.sum) + x,
            !.ring[m.head] = x,
            !.count = IF m.count < PerfWindow THEN m.count + 1 ELSE m.count,
            !.head = (m.head + 1) % PerfWindow]

\* computePerformance: error 1 is beyond ERROR_THRESHOLD, the cost grows with the error.
Cost(error) == 2 * error

Measured(m, error, ff0) ==
  [Sampled(m, Cost(error)) EXCEPT
     !.total = @ + Cost(error),
     !.violated = error > 0,
     !.violations = IF error > 0 THEN @ + 1 ELSE @,
     !.critical = Distance(ff0, 0) > 0]

\* rolling_average
Rolling(m) == IF m.count = 0 THEN 0 ELSE m.sum \div m.count

-----------------------------------------------------------------------------
(* The component *)

\* After fmi2Instantiate; every parameter is zero.
NewComponent ==
  [time |-> 0, inputs |-> [n \in Input |-> IF n = "velocity" THEN 10 ELSE 0],
   triggers |-> {}, gains |-> "zero", metrics |-> NewMetrics]

\* fmi2SetReal, for the inputs written.
SetReal(f, written) ==
  [f EXCEPT !.inputs = [n \in Input |->
     IF n \notin DOMAIN written THEN f.inputs[n]
     ELSE IF n = "velocity" /\ Distance(f.inputs[n], written[n]) <= Tol THEN f.inputs[n]
     ELSE written[n]]]

\* fmi2SetBoolean
SetBoolean(f, written) ==
  [f EXCEPT !.triggers =
     {i \in Trigger : IF i \in DOMAIN written THEN written[i] ELSE i \in f.triggers}]

\* fmi2ExitInitializationMode: references and triggers are reset, the velocity is not.
ExitInitialization(f) ==
  [f EXCEPT !.inputs = [n \in Input |-> IF n = "velocity" THEN f.inputs[n] ELSE 0],
            !.triggers = {}, !.metrics = NewMetrics]

\* fmi2DoStep by one base step, which is refused at the wrong time.  The plant moves and is
\* measured; what the triggers do to its registers is in ChainPlant.
DoStep(f, now, error) ==
  IF f.time # now THEN f
  ELSE [f EXCEPT !.time = @ + 1,
                 !.metrics = IF f.time % MetricPeriod = 0
                               THEN Measured(@, error, f.inputs["ff0"]) ELSE @]

-----------------------------------------------------------------------------
(* The wrapper *)

NewWrapper ==
  [inputsInitialized |-> FALSE, inputs |-> [n \in Input |-> 0],
   triggersInitialized |-> FALSE, triggers |-> {}]

\* FmuInstance::initialize: the importer has to push the documented gains itself.
Initialized == ExitInitialization([NewComponent EXCEPT !.gains = "documented"])

\* setInputs
ChangedInputs(w, in) ==
  LET changed == {n \in Input : ~w.inputsInitialized \/ in[n] # w.inputs[n]}
  IN [n \in changed |-> in[n]]

\* Fault: pulses are written, but nothing is when they end.
RaisedTriggers(w, t) == [i \in t \ w.triggers |-> TRUE]

\* applyTriggers
ChangedTriggers(w, t) ==
  LET changed == {i \in Trigger : ~w.triggersInitialized \/ (i \in t) # (i \in w.triggers)}
  IN [i \in changed |-> i \in t]
=============================================================================
