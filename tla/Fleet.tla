-------------------------------- MODULE Fleet -------------------------------
(***************************************************************************)
(* The fleet's cloud jobs on shared cores: PolicyScheduler::onTick over    *)
(* all vehicles.  A tick is a BeginTick (zone flags, then releases) and an *)
(* EndTick (the policy's choice, then one tick of work per granted job).   *)
(* In-vehicle jobs need no core and do not interact; TaskChain has them.   *)
(***************************************************************************)
EXTENDS CorePolicies, FiniteSetsExt

CONSTANTS
  NVehicles,
  Config  \* the configurations of a run, by name

Vehicle == 0 .. NVehicles - 1
Task == Vehicle \X CloudKind

(* SimConfig and the task set of one run.  offsets are the tables of first releases that
   the run may start from; a task that a configuration is not about is first released
   after its duration.  execTicks are the times a job may be sampled with, which lie between
   a best and a worst case; views are what the policy may read of the vehicles in a tick. *)
Configuration ==
  [policy : {"rm", "prm", "edf", "zband", "eskip", "context", "ttu", "hybrid", "aguard",
             "frontier"},
   nCores : Nat, overrun : {"KillAndHold", "SkipNext"}, duration : Nat,
   period : [CloudKind -> Nat \ {0}],
   offsets : (SUBSET [Task -> Nat]) \ {{}},
   execTicks : [CloudKind -> (SUBSET (Nat \ {0, 1})) \ {{}}],
   views : (SUBSET [Vehicle -> Scores]) \ {{}}]

ASSUME FleetAssumption ==
  /\ NVehicles \in Nat
  /\ \A c \in DOMAIN Config :
       /\ Config[c] \in Configuration
       /\ \A k \in CloudKind : IsFiniteSet(Config[c].execTicks[k])

VARIABLES
  conf,    \* the name of the run's configuration
  step,    \* the tick being simulated
  phase,   \* "begin" or "end": which half of the tick comes next
  ctx,     \* the vehicles' views in this tick
  job,     \* TaskChainModel::Job per vehicle and cloud kind
  missed   \* the jobs that this tick's releases found unfinished

fleetVars == <<conf, step, phase, ctx, job, missed>>

This == Config[conf]
Period == This.period
ExecTicks == This.execTicks
NCores == This.nCores

\* release: when the job was really released (history); the code has only nextRelease.
Job == [release : Nat, nextRelease : Nat, active : BOOLEAN,
        execTicks : Nat, ranTicks : Nat, band : {0, 1}]

Late(t) == step >= job[t].nextRelease /\ job[t].active

Released(t, exec, flagged) ==
  [release |-> step, nextRelease |-> job[t].nextRelease + Period[t[2]], active |-> TRUE,
   execTicks |-> exec, ranTicks |-> 0,
   band |-> IF flagged /\ t[2] # "Feedforward" THEN 0 ELSE 1]

ReleaseIfDue(t, exec, flagged) ==
  CASE step < job[t].nextRelease -> job[t]
    [] Late(t) /\ This.overrun = "SkipNext" -> [job[t] EXCEPT !.nextRelease = @ + Period[t[2]]]
    [] OTHER -> Released(t, exec, flagged)

\* The ready list of beginTick.
ReadyJob(t) ==
  [vehicle |-> t[1], kind |-> t[2], period |-> Period[t[2]],
   releaseStep |-> job[t].nextRelease - Period[t[2]],
   deadlineStep |-> job[t].nextRelease,
   remainingTicks |-> job[t].execTicks - job[t].ranTicks,
   band |-> job[t].band]

Ready == {ReadyJob(t) : t \in {u \in Task : job[u].active}}

\* The tasks whose ready jobs are in chosen.
Tasks(chosen) == {<<r.vehicle, r.kind>> : r \in chosen}

\* advance(), for a job that was granted a core in this tick.
Worked(j) == [j EXCEPT !.ranTicks = @ + 1, !.active = j.ranTicks + 1 < j.execTicks]

\* CorePolicy::assign of the stateless policies; nothing is asked of a policy when
\* there is nothing to share out.
Assign(policy, ready) ==
  IF ready = {} \/ NCores = 0 THEN {}
  ELSE CASE policy = "rm"      -> RateMonotonic(ready, NCores)
         [] policy = "prm"     -> PartitionedRM(ready, NCores)
         [] policy = "edf"     -> Edf(ready, NCores)
         [] policy = "zband"   -> ZoneBand(ready, NCores)
         [] policy = "eskip"   -> EskipProbe(ready, NCores)
         [] policy = "context" -> ContextAware(ready, NCores, ctx)
         [] policy = "ttu"     -> TimeToUnsafe(ready, NCores, ctx)
         [] policy = "hybrid"  -> Hybrid(ready, NCores, ctx)
         [] policy = "aguard"  -> AdaptiveGuard(ready, NCores, ctx)

-----------------------------------------------------------------------------
(* Specification *)

Init ==
  /\ conf \in DOMAIN Config
  /\ step = 0 /\ phase = "begin" /\ ctx \in This.views
  /\ \E offset \in This.offsets :
       job = [t \in Task |-> [release |-> 0, nextRelease |-> offset[t], active |-> FALSE,
                              execTicks |-> 0, ranTicks |-> 0, band |-> 1]]
  /\ missed = {}

\* The tasks that sample an execution time in this tick.
Releasing == {t \in Task : step >= job[t].nextRelease /\ ~(Late(t) /\ This.overrun = "SkipNext")}

Samples == {f \in [Releasing -> UNION {ExecTicks[k] : k \in CloudKind}] :
              \A t \in Releasing : f[t] \in ExecTicks[t[2]]}

BeginTick ==
  /\ phase = "begin" /\ step < This.duration
  /\ phase' = "end"
  /\ ctx' \in This.views
  /\ \E exec \in Samples :
       job' = [t \in Task |->
                 ReleaseIfDue(t, IF t \in Releasing THEN exec[t] ELSE 0,
                              ctx'[t[1]].zoneFlagged)]
  /\ missed' = {t \in Task : Late(t)}
  /\ UNCHANGED <<conf, step>>

Grant(chosen) ==
  /\ phase = "end"
  /\ job' = [t \in Task |-> IF t \in Tasks(chosen) THEN Worked(job[t]) ELSE job[t]]
  /\ step' = step + 1 /\ phase' = "begin"
  /\ UNCHANGED <<conf, ctx, missed>>

EndTick == Grant(Assign(This.policy, Ready))

Next == BeginTick \/ EndTick

Spec == Init /\ [][Next]_fleetVars

-----------------------------------------------------------------------------
(* Properties *)

\* The tasks that are released in a run.
TaskSet(c) == {t \in Task : \E offset \in c.offsets : offset[t] <= c.duration}

Wcet(c, t) == CHOOSE x \in c.execTicks[t[2]] : \A y \in c.execTicks[t[2]] : y <= x

\* Utilisation of tasks at most one, scaled by the product of the periods.
FitsOneCore(c, tasks) ==
  LET H == ProductSet({c.period[t[2]] : t \in tasks})
  IN MapThenSumSet(LAMBDA t : Wcet(c, t) * (H \div c.period[t[2]]), tasks) <= H

\* EDF on one core is optimal: a job is found unfinished at its implicit deadline only if
\* the utilisation exceeds one, whatever the first releases.
NothingMissed ==
  (This.policy = "edf" /\ NCores = 1 /\ missed # {}) => ~FitsOneCore(This, TaskSet(This))

Harmonic(c, tasks) ==
  \A s, t \in tasks : c.period[s[2]] % c.period[t[2]] = 0 \/ c.period[t[2]] % c.period[s[2]] = 0

\* A vehicle that has a core to itself misses nothing that rate-monotonic order could make
\* on one core, however overloaded the other partitions are (PartitionedRM.cpp: no
\* migration, no work stealing).
PartitionIsolated ==
  (This.policy = "prm" /\ NCores > 0) =>
    \A v \in {t[1] : t \in missed} :
      LET own == {t \in TaskSet(This) : t[1] = v}
      IN \/ \E u \in Vehicle \ {v} : u % NCores = v % NCores
         \/ ~(Harmonic(This, own) /\ FitsOneCore(This, own))

\* EskipProbe.cpp:2-5: only every k-th release of the Estimator is ever granted a core;
\* the others die unstarted at the next release.  Under skip-next they do not die, and
\* the release that the policy sees slides.
OnlyEveryKthServed ==
  \A t \in Task :
    (/\ This.policy = "eskip" /\ This.overrun = "KillAndHold"
     /\ t[2] = "Estimator" /\ job[t].active /\ job[t].ranTicks > 0)
      => (job[t].release \div Period["Estimator"]) % SkipFactor = 0

UrgentJobs ==
  {r \in Ready : ctx[r.vehicle].ttpnr < GuardMs /\ ~Unsavable(r.vehicle, ctx)}
ForsakenJobs == {r \in Ready : Unsavable(r.vehicle, ctx)}

\* Hybrid.cpp:5-20: the cars below the guard are served first and exactly as TimeToUnsafe
\* would serve them alone; with none of them (and none given up) Hybrid is ContextAware;
\* cars given up get only what nobody else wants.
HybridSlices ==
  (phase = "end" /\ This.policy = "hybrid") =>
    LET granted == Assign("hybrid", Ready)
    IN /\ granted \cap UrgentJobs = TimeToUnsafe(UrgentJobs, NCores, ctx)
       /\ UrgentJobs \cup ForsakenJobs = {} => granted = Assign("context", Ready)
       /\ granted \ UrgentJobs # {} => UrgentJobs \subseteq granted
       /\ granted \cap ForsakenJobs # {} => Ready \ ForsakenJobs \subseteq granted

\* Predictions are capped at this horizon, which stands for "not within it".
HorizonMs == 500

\* AdaptiveGuard.cpp:17-19: once every guard is at its cap, every car with a finite
\* TTPNR is in the emergency tier, so none of them waits while a car without one is served.
SaturatedIsTimeToUnsafe ==
  (phase = "end" /\ \A v \in Vehicle : Theta(v, ctx) = GuardCapMs) =>
    LET granted == Assign("aguard", Ready)
    IN \A r \in granted, q \in Ready \ granted :
         ctx[q.vehicle].ttpnr < HorizonMs => ctx[r.vehicle].ttpnr < HorizonMs
=============================================================================
