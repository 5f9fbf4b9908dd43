------------------------------ MODULE AgeBound ------------------------------
(***************************************************************************)
(* The end-to-end data-age bound (BOUND.md section 4, layer1_bound_ticks   *)
(* of tools/rta_solve.py) about the chain that the harness executes.       *)
(* Response[k] bounds the time from a job's release to its completion,     *)
(* whatever scheduler brings it about; execution and network times are     *)
(* fixed (--exec worst, avg or best).                                      *)
(***************************************************************************)
EXTENDS TaskChain

CONSTANTS
  C,          \* execution time, per kind
  Response,   \* response-time bound, per kind
  ScDelay,    \* the fixed transmission times
  CaDelay

Stages == TaskKind \ {"Feedforward"}   \* Feedforward carries no sensor data

ASSUME BoundAssumption ==
  /\ C \in [TaskKind -> Nat \ {0, 1}]
  /\ \A k \in TaskKind : ExecTicks[k] = {C[k]}
  /\ ScDelays = {ScDelay} /\ CaDelays = {CaDelay}
  /\ Response \in [TaskKind -> Nat]
  /\ \A k \in Stages : C[k] <= Response[k] /\ Response[k] <= Period[k]
  /\ \A k \in InVehicle : Response[k] = C[k]
  /\ \A v \in Views : v.extraNetDelay = 0 /\ v.bzHold = 0

\* Precondition P1, at a tick's start: a job still active can complete in this
\* tick at the earliest, and that is not later than Response ticks after release.
Timely ==
  \A k \in Stages :
    job[k].active => step < job[k].nextRelease - Period[k] + Response[k]

TimelyNext == Next /\ (phase = "end" => Timely')

TimelySpec == Init /\ [][TimelyNext]_vars

\* Publication gap of a stage (Lemma 1): the register it writes to is refreshed
\* at least this often.
Gap(k) == Period[k] + Response[k] - C[k]

Layer1Bound ==
  C["Sensor"] + ScDelay + Period["Sensor"]
  + Response["Estimator"] + Gap("Estimator")
  + Response["Controller"] + Gap("Controller")
  + Response["Merger"] + Gap("Merger") + CaDelay
  + C["Actuator"] + Period["Actuator"]

\* The tick-exact form.  A stage's register is read, at the latest, in the tick
\* before its next value is published, Period + Response - 2 ticks after the
\* activation behind the old one; a late activation (Response - C) only makes the
\* data fresher, so no stage is charged it a second time as Layer1Bound does.
TickBound ==
  (Period["Sensor"] + C["Sensor"] + ScDelay - 2)
  + (Period["Estimator"] + Response["Estimator"] - 2)
  + (Period["Controller"] + Response["Controller"] - 2)
  + (Period["Merger"] + Response["Merger"] + CaDelay - 2)
  + (Period["Actuator"] + C["Actuator"] - 2)

-----------------------------------------------------------------------------
(* Properties *)

\* BOUND.md section 4: under P1-P3 the path age of the applied command, hold time
\* included, never exceeds the published bound.  The bound that endTick's timing really
\* gives is reached, and lies at least ten ticks (plus the Response - C of the cloud
\* stages) below it.
AgeWithinBound ==
  /\ maxAge.stampOld <= TickBound
  /\ TickBound + 10 <= Layer1Bound
=============================================================================
