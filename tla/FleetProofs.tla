---------------------------- MODULE FleetProofs -----------------------------
(***************************************************************************)
(* Theorems about the core policies, for every fleet, task set and choice  *)
(* of views that FleetAssumption admits: Estimator decimation serves only  *)
(* every k-th release, Frontier's memory follows the completions, Hybrid   *)
(* is TimeToUnsafe above the guard and ContextAware without it, and        *)
(* Frontier takes nothing from the cars that the adaptive guard protects.  *)
(* A policy is its sort key, so much of this is about how keys compare.    *)
(* The last sections are schedulability theory, of this code: that no      *)
(* deadline is missed under EDF on one core, and under rate-monotonic      *)
(* order on a core of one's own, if the work fits.                         *)
(***************************************************************************)
EXTENDS FrontierFleet, Lemmas, TLAPS

-----------------------------------------------------------------------------
(* The fleet's state *)

FleetType ==
  /\ conf \in DOMAIN Config
  /\ step \in Nat /\ phase \in {"begin", "end"}
  /\ ctx \in This.views
  /\ job \in [Task -> Job]

\* No release is overdue, and no job outlives its deadline by its release.
JobOnTime(t) ==
  /\ (IF phase = "end" THEN step + 1 ELSE step) <= job[t].nextRelease
  /\ job[t].active => /\ Period[t[2]] <= job[t].nextRelease
                      /\ job[t].nextRelease <= step + Period[t[2]]
                      /\ This.overrun = "KillAndHold" =>
                           job[t].release = job[t].nextRelease - Period[t[2]]

FleetInv == FleetType /\ \A t \in Task : JobOnTime(t)

LEMMA ConfigType ==
  ASSUME conf \in DOMAIN Config
  PROVE  /\ NCores \in Nat /\ This.duration \in Nat
         /\ This.overrun \in {"KillAndHold", "SkipNext"}
         /\ \A k \in CloudKind : Period[k] \in Nat \ {0} /\ ExecTicks[k] \subseteq Nat
         /\ This.offsets \subseteq [Task -> Nat]
         /\ This.views \subseteq [Vehicle -> Scores]
<1>1. This \in Configuration
  BY FleetAssumption DEF This
<1>2. /\ This.nCores \in Nat /\ This.duration \in Nat
      /\ This.overrun \in {"KillAndHold", "SkipNext"}
      /\ This.period \in [CloudKind -> Nat \ {0}]
      /\ This.offsets \in SUBSET [Task -> Nat]
      /\ This.execTicks \in [CloudKind -> (SUBSET (Nat \ {0, 1})) \ {{}}]
      /\ This.views \in SUBSET [Vehicle -> Scores]
  BY <1>1 DEF Configuration
<1> QED
  BY <1>2 DEF NCores, Period, ExecTicks

LEMMA TaskParts == \A t \in Task : t[1] \in Vehicle /\ t[2] \in CloudKind /\ t = <<t[1], t[2]>>
BY DEF Task

LEMMA FleetJob ==
  ASSUME job \in [Task -> Job], NEW t \in Task
  PROVE  /\ job[t] \in Job
         /\ job[t].release \in Nat /\ job[t].nextRelease \in Nat
         /\ job[t].active \in BOOLEAN
         /\ job[t].execTicks \in Nat /\ job[t].ranTicks \in Nat
BY DEF Job

LEMMA FleetStart == Init => FleetInv
<1> SUFFICES ASSUME Init PROVE FleetInv
  OBVIOUS
<1>1. PICK offset \in This.offsets :
        job = [t \in Task |-> [release |-> 0, nextRelease |-> offset[t], active |-> FALSE,
                               execTicks |-> 0, ranTicks |-> 0, band |-> 1]]
  BY DEF Init
<1>2. conf \in DOMAIN Config /\ offset \in [Task -> Nat]
  BY <1>1, ConfigType DEF Init
<1>3. ASSUME NEW t \in Task PROVE job[t] \in Job /\ JobOnTime(t)
  BY <1>1, <1>2 DEF Init, Job, JobOnTime
<1>4. job \in [Task -> Job]
  BY <1>1, <1>3
<1> QED
  BY <1>2, <1>3, <1>4 DEF Init, FleetInv, FleetType

LEMMA FleetBegin == FleetInv /\ BeginTick => FleetInv'
<1> SUFFICES ASSUME FleetInv, BeginTick PROVE FleetInv'
  OBVIOUS
<1>1. /\ conf \in DOMAIN Config /\ conf' = conf /\ step \in Nat /\ step' = step
      /\ phase = "begin" /\ phase' = "end" /\ job \in [Task -> Job]
      /\ This' = This /\ ctx' \in This.views
  BY DEF FleetInv, FleetType, BeginTick, This
<1>2. PICK exec \in Samples :
        job' = [t \in Task |->
                  ReleaseIfDue(t, IF t \in Releasing THEN exec[t] ELSE 0,
                               ctx'[t[1]].zoneFlagged)]
  BY DEF BeginTick
<1>3. ASSUME NEW t \in Task PROVE job'[t] \in Job /\ JobOnTime(t)'
  <2>1. /\ job[t].nextRelease \in Nat /\ step <= job[t].nextRelease
        /\ job[t] \in Job /\ Period[t[2]] \in Nat \ {0} /\ t[2] \in CloudKind
        /\ Period' = Period
    <3>1. job[t].nextRelease \in Nat /\ job[t] \in Job
      BY <1>1, FleetJob
    <3>2. t[2] \in CloudKind /\ Period[t[2]] \in Nat \ {0}
      BY <1>1, TaskParts, ConfigType
    <3>3. step <= job[t].nextRelease
      BY <1>1 DEF FleetInv, JobOnTime
    <3> QED
      BY <1>1, <3>1, <3>2, <3>3 DEF Period
  <2>2. CASE step < job[t].nextRelease
    <3>1. job'[t] = job[t]
      BY <1>1, <1>2, <2>1, <2>2 DEF ReleaseIfDue, Late
    <3> QED
      BY <1>1, <2>1, <2>2, <3>1 DEF FleetInv, JobOnTime
  <2>3. CASE ~(step < job[t].nextRelease) /\ Late(t) /\ This.overrun = "SkipNext"
    <3>1. job'[t] = [job[t] EXCEPT !.nextRelease = @ + Period[t[2]]]
      BY <1>2, <2>3 DEF ReleaseIfDue
    <3>2. job[t].nextRelease + Period[t[2]] \in Nat
      BY <2>1
    <3>3. /\ job'[t] \in Job /\ job'[t].nextRelease = job[t].nextRelease + Period[t[2]]
      BY <2>1, <3>1, <3>2 DEF Job
    <3> QED
      BY <1>1, <2>1, <2>3, <3>3 DEF JobOnTime
  <2>4. CASE ~(step < job[t].nextRelease) /\ ~(Late(t) /\ This.overrun = "SkipNext")
    <3>1. t \in Releasing
      BY <1>1, <2>1, <2>4 DEF Releasing
    <3>2. job'[t] = Released(t, exec[t], ctx'[t[1]].zoneFlagged)
      BY <1>2, <2>4, <3>1 DEF ReleaseIfDue
    <3>3. exec[t] \in Nat
      BY <1>1, <2>1, <3>1, ConfigType DEF Samples
    <3>4. job[t].nextRelease + Period[t[2]] \in Nat
      BY <2>1
    <3>5. job'[t] \in Job
      BY <1>1, <3>2, <3>3, <3>4 DEF Released, Job
    <3>6. /\ job'[t].nextRelease = job[t].nextRelease + Period[t[2]]
          /\ job'[t].release = step
      BY <3>2 DEF Released
    <3> QED
      BY <1>1, <2>1, <2>4, <3>5, <3>6 DEF JobOnTime
  <2> QED
    BY <2>2, <2>3, <2>4
<1>4. job' \in [Task -> Job]
  BY <1>2, <1>3
<1>5. FleetType'
  BY <1>1, <1>4 DEF FleetType
<1> QED
  BY <1>3, <1>5 DEF FleetInv

\* A job that is granted a core is ready.
LEMMA GrantedActive ==
  ASSUME NEW chosen, chosen \subseteq Ready, NEW t \in Tasks(chosen)
  PROVE  t \in Task /\ job[t].active /\ ReadyJob(t) \in chosen
<1>1. PICK r \in chosen : t = <<r.vehicle, r.kind>>
  BY DEF Tasks
<1>2. PICK u \in Task : r = ReadyJob(u) /\ job[u].active
  BY <1>1 DEF Ready
<1>3. t = u
  BY <1>1, <1>2, TaskParts DEF ReadyJob
<1> QED
  BY <1>1, <1>2, <1>3

LEMMA FleetGrant ==
  ASSUME FleetInv, NEW chosen, chosen \subseteq Ready, Grant(chosen)
  PROVE  FleetInv'
<1>1. /\ conf \in DOMAIN Config /\ conf' = conf /\ step \in Nat /\ step' = step + 1
      /\ phase = "end" /\ phase' = "begin" /\ job \in [Task -> Job]
      /\ This' = This /\ Period' = Period /\ ctx \in This.views /\ ctx' = ctx
      /\ job' = [t \in Task |-> IF t \in Tasks(chosen) THEN Worked(job[t]) ELSE job[t]]
  BY DEF FleetInv, FleetType, Grant, This, Period
<1>2. ASSUME NEW t \in Task
      PROVE  /\ job'[t] \in Job
             /\ job'[t].nextRelease = job[t].nextRelease
             /\ job'[t].release = job[t].release
             /\ job'[t].active => job[t].active
  <2>1. job[t] \in Job /\ job[t].ranTicks + 1 \in Nat
        /\ (job[t].ranTicks + 1 < job[t].execTicks) \in BOOLEAN
    BY <1>1, FleetJob
  <2>2. CASE t \in Tasks(chosen)
    <3>1. job'[t] = [job[t] EXCEPT !.ranTicks = @ + 1,
                                   !.active = job[t].ranTicks + 1 < job[t].execTicks]
      BY <1>1, <2>2 DEF Worked
    <3>2. job[t].active
      BY <2>2, GrantedActive
    <3>3. job'[t] \in Job
      BY <2>1, <3>1, ZenonT(30) DEF Job
    <3>4. job'[t].nextRelease = job[t].nextRelease /\ job'[t].release = job[t].release
      <4>1. {"nextRelease", "release", "ranTicks", "active"} \subseteq DOMAIN job[t]
        BY <2>1 DEF Job
      <4> QED
        BY <3>1, <4>1
    <3> QED
      BY <3>2, <3>3, <3>4
  <2>3. CASE t \notin Tasks(chosen)
    BY <1>1, <2>1, <2>3
  <2> QED
    BY <2>2, <2>3
<1>3. ASSUME NEW t \in Task PROVE JobOnTime(t)'
  <2>1. /\ job[t].nextRelease \in Nat /\ Period[t[2]] \in Nat
        /\ step + 1 <= job[t].nextRelease
    BY <1>1, FleetJob, TaskParts, ConfigType DEF FleetInv, JobOnTime
  <2>2. job[t].active => /\ Period[t[2]] <= job[t].nextRelease
                         /\ job[t].nextRelease <= step + Period[t[2]]
                         /\ This.overrun = "KillAndHold" =>
                              job[t].release = job[t].nextRelease - Period[t[2]]
    BY DEF FleetInv, JobOnTime
  <2> QED
    BY <1>1, <1>2, <2>1, <2>2 DEF JobOnTime
<1>4. job' \in [Task -> Job]
  BY <1>1, <1>2
<1>5. FleetType'
  BY <1>1, <1>4 DEF FleetType
<1> QED
  BY <1>3, <1>5 DEF FleetInv

\* A policy hands cores to ready jobs only.
LEMMA AssignReady ==
  ASSUME FleetInv, This.policy # "frontier"
  PROVE  Assign(This.policy, Ready) \subseteq Ready
<1>1. This.policy \in {"rm", "prm", "edf", "zband", "eskip", "context", "ttu", "hybrid",
                       "aguard"}
  BY FleetAssumption DEF FleetInv, FleetType, This, Configuration
<1> QED
  BY <1>1 DEF Assign, RateMonotonic, PartitionedRM, Edf, ZoneBand, EskipProbe, ContextAware,
              TimeToUnsafe, Hybrid, AdaptiveGuard, Foremost

LEMMA FrontierReady ==
  ASSUME NEW nCores, NEW views, NEW fDemote
  PROVE  Frontier(Ready, nCores, views, lastFDone, fDemote) \subseteq Ready
BY DEF Frontier, Foremost

LEMMA FleetStep == FleetInv /\ [FrontierNext]_frontierVars => FleetInv'
<1> SUFFICES ASSUME FleetInv, [FrontierNext]_frontierVars PROVE FleetInv'
  OBVIOUS
<1>1. CASE Begin
  BY <1>1, FleetBegin DEF Begin
<1>2. CASE StatelessEnd
  BY <1>2, AssignReady, FleetGrant DEF StatelessEnd, EndTick
<1>3. CASE FrontierEnd
  <2>1. PICK chosen : /\ Grant(chosen)
                      /\ \/ chosen = {}
                         \/ chosen = Frontier(Ready, NCores, ctx, lastFDone, TRUE)
    BY <1>3 DEF FrontierEnd
  <2>2. chosen \subseteq Ready
    BY <2>1, FrontierReady
  <2> QED
    BY <2>1, <2>2, FleetGrant
<1>4. CASE UNCHANGED frontierVars
  BY <1>4 DEF frontierVars, fleetVars, FleetInv, FleetType, JobOnTime, This, Period
<1> QED
  BY <1>1, <1>2, <1>3, <1>4 DEF FrontierNext

LEMMA FleetInvariant == FrontierSpec => []FleetInv
<1>1. FrontierInit => FleetInv
  BY FleetStart DEF FrontierInit
<1> QED
  BY <1>1, FleetStep, PTL DEF FrontierSpec

-----------------------------------------------------------------------------
(* Estimator decimation *)

LEMMA DecimationBegin ==
  ASSUME FleetInv, OnlyEveryKthServed, BeginTick
  PROVE  OnlyEveryKthServed'
<1>1. /\ conf' = conf /\ This' = This /\ Period' = Period /\ job \in [Task -> Job]
  BY DEF FleetInv, FleetType, BeginTick, This, Period
<1>2. PICK exec \in Samples :
        job' = [t \in Task |->
                  ReleaseIfDue(t, IF t \in Releasing THEN exec[t] ELSE 0,
                               ctx'[t[1]].zoneFlagged)]
  BY DEF BeginTick
<1>3. ASSUME NEW t \in Task, This.overrun = "KillAndHold"
      PROVE  job'[t] = job[t] \/ job'[t].ranTicks = 0
  BY <1>2, <1>3 DEF ReleaseIfDue, Released
<1> QED
  BY <1>1, <1>3 DEF OnlyEveryKthServed

LEMMA DecimationGrant ==
  ASSUME FleetInv, OnlyEveryKthServed, NEW chosen, chosen \subseteq Ready, Grant(chosen),
         This.policy = "eskip" => \A r \in chosen : r.kind = "Estimator" => AllowedE(r)
  PROVE  OnlyEveryKthServed'
<1>1. /\ This' = This /\ Period' = Period /\ job \in [Task -> Job]
      /\ job' = [t \in Task |-> IF t \in Tasks(chosen) THEN Worked(job[t]) ELSE job[t]]
  BY DEF FleetInv, FleetType, Grant, This, Period
<1> SUFFICES ASSUME NEW t \in Task, This.policy = "eskip", This.overrun = "KillAndHold",
                    t[2] = "Estimator", job'[t].active, job'[t].ranTicks > 0
             PROVE  (job'[t].release \div Period["Estimator"]) % SkipFactor = 0
  BY <1>1 DEF OnlyEveryKthServed
<1>2. CASE t \in Tasks(chosen)
  <2>1. job[t].active /\ ReadyJob(t) \in chosen
    BY <1>2, GrantedActive
  <2>2. AllowedE(ReadyJob(t))
    BY <2>1 DEF ReadyJob
  <2>3. job[t].release = job[t].nextRelease - Period[t[2]]
    BY <2>1 DEF FleetInv, JobOnTime
  <2>4. job'[t] = [job[t] EXCEPT !.ranTicks = @ + 1,
                                 !.active = job[t].ranTicks + 1 < job[t].execTicks]
    BY <1>1, <1>2 DEF Worked
  <2>5. job'[t].release = job[t].release
    BY <1>1, <2>4, FleetJob DEF Job
  <2> QED
    BY <2>2, <2>3, <2>5 DEF AllowedE, ReadyJob
<1>3. CASE t \notin Tasks(chosen)
  BY <1>1, <1>3 DEF OnlyEveryKthServed
<1> QED
  BY <1>2, <1>3

\* EskipProbe.cpp:2-5: whatever the load and the phasing, an Estimator job that gets any
\* core time is a k-th release.
THEOREM Decimation == FrontierSpec => []OnlyEveryKthServed
<1>1. FrontierInit => OnlyEveryKthServed
  BY DEF FrontierInit, Init, OnlyEveryKthServed
<1>2. FleetInv /\ OnlyEveryKthServed /\ [FrontierNext]_frontierVars => OnlyEveryKthServed'
  <2> SUFFICES ASSUME FleetInv, OnlyEveryKthServed, [FrontierNext]_frontierVars
               PROVE  OnlyEveryKthServed'
    OBVIOUS
  <2>1. CASE Begin
    BY <2>1, DecimationBegin DEF Begin
  <2>2. CASE StatelessEnd
    <3>1. PICK chosen : /\ Grant(chosen) /\ chosen = Assign(This.policy, Ready)
                        /\ chosen \subseteq Ready
      BY <2>2, AssignReady DEF StatelessEnd, EndTick
    <3>2. This.policy = "eskip" => \A r \in chosen : r.kind = "Estimator" => AllowedE(r)
      BY <3>1 DEF Assign, EskipProbe, Foremost
    <3> QED
      BY <3>1, <3>2, DecimationGrant
  <2>3. CASE FrontierEnd
    <3>1. PICK chosen : /\ Grant(chosen)
                        /\ \/ chosen = {}
                           \/ chosen = Frontier(Ready, NCores, ctx, lastFDone, TRUE)
      BY <2>3 DEF FrontierEnd
    <3>2. chosen \subseteq Ready /\ This.policy # "eskip"
      BY <2>3, <3>1, FrontierReady DEF FrontierEnd
    <3> QED
      BY <3>1, <3>2, DecimationGrant
  <2>4. CASE UNCHANGED frontierVars
    BY <2>4 DEF frontierVars, fleetVars, OnlyEveryKthServed, This, Period
  <2> QED
    BY <2>1, <2>2, <2>3, <2>4 DEF FrontierNext
<1> QED
  BY <1>1, <1>2, FleetInvariant, PTL DEF FrontierSpec

-----------------------------------------------------------------------------
(* Frontier's memory *)

\* The clock read off the ready jobs: the latest of their releases.
LEMMA ClockOfReady ==
  ASSUME FleetInv, Ready # {}, phase = "end"
  PROVE  /\ NowEst(Ready) \in Nat /\ NowEst(Ready) <= step
         /\ \A r \in Ready : r.releaseStep \in Nat /\ r.releaseStep <= NowEst(Ready)
<1>1. ASSUME NEW r \in Ready PROVE r.releaseStep \in Nat /\ r.releaseStep <= step
  <2>1. PICK t \in Task : job[t].active /\ r = ReadyJob(t)
    BY DEF Ready
  <2>2. /\ job[t].nextRelease \in Nat /\ step \in Nat /\ Period[t[2]] \in Nat
        /\ Period[t[2]] <= job[t].nextRelease /\ job[t].nextRelease <= step + Period[t[2]]
    BY <2>1, FleetJob, TaskParts, ConfigType DEF FleetInv, FleetType, JobOnTime
  <2>3. r.releaseStep = job[t].nextRelease - Period[t[2]]
    BY <2>1 DEF ReadyJob
  <2> QED
    BY <2>2, <2>3
<1> DEFINE Before == {step - r.releaseStep : r \in Ready}
<1>2. PICK least \in Before : \A other \in Before : least <= other
  <2>1. Before \subseteq Nat /\ Before # {}
    BY <1>1 DEF FleetInv, FleetType
  <2> HIDE DEF Before
  <2> QED
    BY <2>1, LeastExists
<1>3. PICK latest \in Ready : least = step - latest.releaseStep
  BY <1>2
<1>4. \A r \in Ready : r.releaseStep <= latest.releaseStep
  <2> SUFFICES ASSUME NEW r \in Ready PROVE r.releaseStep <= latest.releaseStep
    OBVIOUS
  <2>1. step - latest.releaseStep <= step - r.releaseStep
    BY <1>2, <1>3
  <2> QED
    BY <1>1, <2>1 DEF FleetInv, FleetType
<1> DEFINE Latest(t) == \A r \in Ready : r.releaseStep <= t
<1>5. NowEst(Ready) \in {r.releaseStep : r \in Ready} /\ Latest(NowEst(Ready))
  <2>1. NowEst(Ready) = CHOOSE t \in {r.releaseStep : r \in Ready} : Latest(t)
    BY DEF NowEst
  <2>2. latest.releaseStep \in {r.releaseStep : r \in Ready} /\ Latest(latest.releaseStep)
    BY <1>4
  <2> HIDE DEF Latest
  <2> QED
    BY <2>1, <2>2
<1> QED
  BY <1>1, <1>5

\* The record of a completion is at most a period behind it.
HeartbeatInv ==
  /\ lastFDone \in [Vehicle -> Nat] /\ fDoneAt \in [Vehicle -> Nat]
  /\ HeartbeatClock

LEMMA HeartbeatEnd ==
  ASSUME FleetInv, HeartbeatInv, FrontierEnd
  PROVE  HeartbeatInv'
<1>1. PICK chosen : /\ Grant(chosen)
                    /\ \/ chosen = {}
                       \/ chosen = Frontier(Ready, NCores, ctx, lastFDone, TRUE)
                    /\ lastFDone' = FDone(chosen, Ready, lastFDone)
                    /\ fDoneAt' = [v \in Vehicle |->
                         IF job[Feedforward(v)].active /\ ~job'[Feedforward(v)].active
                           THEN step ELSE fDoneAt[v]]
  BY DEF FrontierEnd
<1>2. /\ chosen \subseteq Ready /\ phase = "end" /\ step \in Nat /\ job \in [Task -> Job]
      /\ This' = This /\ Period' = Period
      /\ job' = [t \in Task |-> IF t \in Tasks(chosen) THEN Worked(job[t]) ELSE job[t]]
  BY <1>1, FrontierReady DEF Grant, FleetInv, FleetType, This, Period
<1>3. ASSUME NEW v \in Vehicle
      PROVE  /\ lastFDone'[v] \in Nat /\ fDoneAt'[v] \in Nat
             /\ lastFDone'[v] <= fDoneAt'[v]
             /\ fDoneAt'[v] - lastFDone'[v] < Period["Feedforward"]
  <2> DEFINE t == Feedforward(v)
             done == \E r \in chosen : /\ r.vehicle = v /\ r.kind = "Feedforward"
                                       /\ r.remainingTicks <= 1
  <2>1. t \in Task /\ t[2] = "Feedforward" /\ t[1] = v
    BY DEF Feedforward, Task, CloudKind, KindRank
  <2>2. lastFDone'[v] = IF done THEN NowEst(Ready) ELSE lastFDone[v]
    BY <1>1 DEF HeartbeatInv, FDone
  <2>3. fDoneAt'[v] = IF job[t].active /\ ~job'[t].active THEN step ELSE fDoneAt[v]
    BY <1>1
  <2> HIDE DEF t
  <2>4. done <=> job[t].active /\ ~job'[t].active
    <3>1. job[t].ranTicks \in Nat /\ job[t].execTicks \in Nat /\ job[t] \in Job
      BY <1>2, <2>1, FleetJob
    <3>2. ASSUME done PROVE t \in Tasks(chosen) /\ job[t].ranTicks + 1 >= job[t].execTicks
      <4>1. PICK r \in chosen : /\ r.vehicle = v /\ r.kind = "Feedforward"
                                /\ r.remainingTicks <= 1
        BY <3>2
      <4>2. t = <<r.vehicle, r.kind>>
        BY <4>1 DEF t, Feedforward
      <4>3. PICK u \in Task : r = ReadyJob(u)
        BY <1>2, <4>1 DEF Ready
      <4>4. u = t
        BY <4>2, <4>3, TaskParts DEF ReadyJob
      <4> QED
        BY <3>1, <4>1, <4>2, <4>3, <4>4 DEF Tasks, ReadyJob
    <3>3. ASSUME t \in Tasks(chosen)
          PROVE  /\ job[t].active /\ ReadyJob(t) \in chosen
                 /\ job'[t].active <=> job[t].ranTicks + 1 < job[t].execTicks
      <4>1. job'[t] = [job[t] EXCEPT !.ranTicks = @ + 1,
                                     !.active = job[t].ranTicks + 1 < job[t].execTicks]
        BY <1>2, <2>1, <3>3 DEF Worked
      <4>2. job'[t].active <=> job[t].ranTicks + 1 < job[t].execTicks
        BY <3>1, <4>1 DEF Job
      <4>3. job[t].active /\ ReadyJob(t) \in chosen
        BY <1>2, <3>3, GrantedActive
      <4> QED
        BY <4>2, <4>3
    <3>4. t \notin Tasks(chosen) => job'[t] = job[t]
      BY <1>2, <2>1
    <3>5. ASSUME job[t].active, ~job'[t].active PROVE done
      <4>1. ReadyJob(t) \in chosen /\ job[t].ranTicks + 1 >= job[t].execTicks
        BY <3>1, <3>3, <3>4, <3>5
      <4> QED
        BY <2>1, <3>1, <4>1 DEF ReadyJob
    <3> QED
      BY <3>1, <3>2, <3>3, <3>5
  <2>5. CASE done
    <3>1. ReadyJob(t) \in Ready
      BY <2>1, <2>4, <2>5 DEF Ready
    <3>2. /\ NowEst(Ready) \in Nat /\ NowEst(Ready) <= step
          /\ ReadyJob(t).releaseStep <= NowEst(Ready)
      BY <1>2, <3>1, ClockOfReady
    <3>3. /\ step + 1 <= job[t].nextRelease /\ job[t].nextRelease \in Nat
          /\ Period["Feedforward"] \in Nat
      BY <1>2, <2>1, FleetJob, TaskParts, ConfigType DEF FleetInv, FleetType, JobOnTime
    <3>4. ReadyJob(t).releaseStep = job[t].nextRelease - Period["Feedforward"]
      BY <2>1 DEF ReadyJob
    <3> QED
      BY <1>2, <2>2, <2>3, <2>4, <2>5, <3>2, <3>3, <3>4
  <2>6. CASE ~done
    BY <2>2, <2>3, <2>4, <2>6 DEF HeartbeatInv, HeartbeatClock
  <2> QED
    BY <2>5, <2>6
<1>4. lastFDone' \in [Vehicle -> Nat] /\ fDoneAt' \in [Vehicle -> Nat]
  BY <1>1, <1>3 DEF FDone, HeartbeatInv
<1> QED
  BY <1>2, <1>3, <1>4 DEF HeartbeatInv, HeartbeatClock

LEMMA HeartbeatInvariant == FrontierSpec => []HeartbeatInv
<1>1. FrontierInit => HeartbeatInv
  <2> SUFFICES ASSUME FrontierInit PROVE HeartbeatInv
    OBVIOUS
  <2>1. Period["Feedforward"] \in Nat \ {0}
    BY ConfigType DEF FrontierInit, Init, CloudKind, KindRank
  <2> QED
    BY <2>1 DEF FrontierInit, HeartbeatInv, HeartbeatClock
<1>2. FleetInv /\ HeartbeatInv /\ [FrontierNext]_frontierVars => HeartbeatInv'
  <2> SUFFICES ASSUME FleetInv, HeartbeatInv, [FrontierNext]_frontierVars
               PROVE  HeartbeatInv'
    OBVIOUS
  <2>1. CASE Begin
    BY <2>1 DEF Begin, BeginTick, HeartbeatInv, HeartbeatClock, This, Period
  <2>2. CASE StatelessEnd
    BY <2>2 DEF StatelessEnd, EndTick, Grant, HeartbeatInv, HeartbeatClock, This, Period
  <2>3. CASE FrontierEnd
    BY <2>3, HeartbeatEnd
  <2>4. CASE UNCHANGED frontierVars
    BY <2>4 DEF frontierVars, fleetVars, HeartbeatInv, HeartbeatClock, This, Period
  <2> QED
    BY <2>1, <2>2, <2>3, <2>4 DEF FrontierNext
<1> QED
  BY <1>1, <1>2, FleetInvariant, PTL DEF FrontierSpec

\* Frontier reads its clock off other jobs' releases and records a completion when it grants
\* the last tick; still the record never runs ahead, and lags by less than a period.
THEOREM HeartbeatFollows == FrontierSpec => []HeartbeatClock
<1>1. HeartbeatInv => HeartbeatClock
  BY DEF HeartbeatInv
<1> QED
  BY <1>1, HeartbeatInvariant, PTL

-----------------------------------------------------------------------------
(* Keys *)

\* What concatenation does to sequences of integers.
Joined(a, s, m, n) ==
  /\ a \o s \in Seq(Int) /\ Len(a \o s) = m + n /\ DOMAIN (a \o s) = 1 .. m + n
  /\ DOMAIN a = 1 .. m /\ DOMAIN s = 1 .. n
  /\ \A i \in 1 .. m : a[i] \in Int /\ (a \o s)[i] = a[i]
  /\ \A i \in 1 .. n : s[i] \in Int /\ (a \o s)[m + i] = s[i]

LEMMA JoinedKey ==
  ASSUME NEW a \in Seq(Int), NEW s \in Seq(Int), NEW m, m = Len(a), NEW n, n = Len(s)
  PROVE  m \in Nat /\ n \in Nat /\ Joined(a, s, m, n)
<1>1. /\ m \in Nat /\ n \in Nat /\ DOMAIN a = 1 .. m /\ DOMAIN s = 1 .. n
  BY LenProperties
<1>2. /\ a \o s \in Seq(Int) /\ Len(a \o s) = m + n
      /\ \A i \in 1 .. m + n : (a \o s)[i] = IF i <= m THEN a[i] ELSE s[i - m]
  BY ConcatProperties
<1>3. DOMAIN (a \o s) = 1 .. m + n
  BY <1>2, LenProperties
<1>4. \A i \in 1 .. m : a[i] \in Int
  BY ElementOfSeq
<1>5. \A i \in 1 .. n : s[i] \in Int
  BY ElementOfSeq
<1>6. \A i \in 1 .. m : (a \o s)[i] = a[i]
  BY <1>1, <1>2
<1>7. ASSUME NEW i \in 1 .. n PROVE (a \o s)[m + i] = s[i]
  <2>1. m + i \in 1 .. m + n /\ ~(m + i <= m) /\ (m + i) - m = i
    BY <1>1
  <2> QED
    BY <1>2, <2>1
<1> QED
  BY <1>1, <1>2, <1>3, <1>4, <1>5, <1>6, <1>7 DEF Joined

\* Keys with a common shape are ordered by what they put first, then by the rest.
LEMMA PrecedesPrefix ==
  ASSUME NEW a \in Seq(Int), NEW b \in Seq(Int), Len(a) = Len(b),
         NEW s \in Seq(Int), NEW t \in Seq(Int), Len(s) = Len(t)
  PROVE  Precedes(a \o s, b \o t) <=> Precedes(a, b) \/ (a = b /\ Precedes(s, t))
<1>0. PICK m, n, x, y : m = Len(a) /\ n = Len(s) /\ x = a \o s /\ y = b \o t
  OBVIOUS
<1>a. m \in Nat /\ n \in Nat /\ Joined(a, s, m, n)
  <2>1. m = Len(a) /\ n = Len(s)
    BY <1>0
  <2> QED
    BY <2>1, JoinedKey
<1>b. Joined(b, t, m, n)
  <2>1. m = Len(b) /\ n = Len(t)
    BY <1>0
  <2> QED
    BY <2>1, JoinedKey
<1>1. m \in Nat /\ n \in Nat /\ DOMAIN a = 1 .. m /\ DOMAIN s = 1 .. n
  BY <1>a DEF Joined
<1>2. DOMAIN x = 1 .. m + n
  BY <1>0, <1>a DEF Joined
<1>3. /\ \A i \in 1 .. m : a[i] \in Int /\ x[i] = a[i]
      /\ \A i \in 1 .. n : s[i] \in Int /\ x[m + i] = s[i]
  BY <1>0, <1>a DEF Joined
<1>4. /\ DOMAIN b = 1 .. m
      /\ \A i \in 1 .. m : b[i] \in Int /\ y[i] = b[i]
      /\ \A i \in 1 .. n : t[i] \in Int /\ y[m + i] = t[i]
  BY <1>0, <1>b DEF Joined
<1>5. ASSUME Precedes(x, y) PROVE Precedes(a, b) \/ (a = b /\ Precedes(s, t))
  <2>1. PICK i \in 1 .. m + n : x[i] < y[i] /\ \A j \in 1 .. (i - 1) : x[j] = y[j]
    BY <1>1, <1>2, <1>3, <1>5 DEF Precedes
  <2>2. CASE i <= m
    <3>0. i \in 1 .. m /\ \A j \in 1 .. (i - 1) : j \in 1 .. m
      BY <1>1, <1>2, <1>3, <2>2
    <3>1. a[i] < b[i] /\ \A j \in 1 .. (i - 1) : a[j] = b[j]
      BY <1>1, <1>2, <1>3, <1>4, <2>1, <3>0
    <3> QED
      BY <1>1, <1>2, <1>3, <3>0, <3>1 DEF Precedes
  <2>3. CASE i > m
    <3>0. \A j \in 1 .. m : j \in 1 .. (i - 1)
      BY <1>1, <1>2, <1>3, <2>3
    <3>1. \A j \in 1 .. m : a[j] = b[j]
      BY <1>1, <1>2, <1>3, <1>4, <2>1, <3>0
    <3>2. a = b
      <4>1. \A j \in 1 .. Len(a) : a[j] = b[j]
        BY <1>0, <3>1
      <4> QED
        BY <4>1, SeqEqual
    <3>3. PICK k \in 1 .. n : i = m + k
      <4>1. i - m \in 1 .. n /\ i = m + (i - m)
        BY <1>1, <1>2, <1>3, <2>3
      <4> QED
        BY <4>1
    <3>4. s[k] < t[k]
      BY <1>1, <1>2, <1>3, <1>4, <2>1, <3>3
    <3>5. ASSUME NEW j \in 1 .. (k - 1) PROVE s[j] = t[j]
      <4>1. m + j \in 1 .. (i - 1) /\ j \in 1 .. n
        BY <1>1, <1>2, <1>3, <3>3
      <4> QED
        BY <1>1, <1>2, <1>3, <1>4, <2>1, <4>1
    <3> QED
      BY <1>1, <1>2, <1>3, <3>2, <3>4, <3>5 DEF Precedes
  <2> QED
    BY <1>1, <1>2, <1>3, <2>2, <2>3
<1>6. ASSUME Precedes(a, b) PROVE Precedes(x, y)
  <2>1. PICK i \in 1 .. m : a[i] < b[i] /\ \A j \in 1 .. (i - 1) : a[j] = b[j]
    BY <1>1, <1>2, <1>3, <1>6 DEF Precedes
  <2>2. i \in 1 .. m + n /\ \A j \in 1 .. (i - 1) : j \in 1 .. m
    BY <1>1, <1>2, <1>3
  <2>3. x[i] < y[i] /\ \A j \in 1 .. (i - 1) : x[j] = y[j]
    BY <1>1, <1>2, <1>3, <1>4, <2>1, <2>2
  <2> QED
    BY <1>1, <1>2, <1>3, <2>2, <2>3 DEF Precedes
<1>7. ASSUME a = b, Precedes(s, t) PROVE Precedes(x, y)
  <2>1. PICK k \in 1 .. n : s[k] < t[k] /\ \A j \in 1 .. (k - 1) : s[j] = t[j]
    BY <1>1, <1>2, <1>3, <1>7 DEF Precedes
  <2>2. PICK i \in 1 .. m + n : i = m + k
    <3>1. m + k \in 1 .. m + n
      BY <1>1, <1>2, <1>3
    <3> QED
      BY <3>1
  <2>3. x[i] < y[i]
    BY <1>1, <1>2, <1>3, <1>4, <2>1, <2>2
  <2>4. ASSUME NEW j \in 1 .. (i - 1) PROVE x[j] = y[j]
    <3>1. CASE j \in 1 .. m
      BY <1>1, <1>2, <1>3, <1>4, <1>7, <3>1
    <3>2. CASE j > m
      <4>1. PICK h \in 1 .. (k - 1) : j = m + h
        <5>1. j - m \in 1 .. (k - 1) /\ j = m + (j - m)
          BY <1>1, <1>2, <1>3, <2>2, <3>2
        <5> QED
          BY <5>1
      <4>2. h \in 1 .. n
        BY <1>1, <1>2, <1>3
      <4> QED
        BY <1>1, <1>2, <1>3, <1>4, <2>1, <4>1, <4>2
    <3> QED
      BY <1>1, <1>2, <1>3, <2>2, <3>1, <3>2
  <2> QED
    BY <1>1, <1>2, <1>3, <2>2, <2>3, <2>4 DEF Precedes
<1> QED
  BY <1>0, <1>5, <1>6, <1>7

\* The order of keys of one and of four components.
LEMMA Precedes1 ==
  ASSUME NEW a \in Int, NEW b \in Int
  PROVE  Precedes(<<a>>, <<b>>) <=> a < b
<1>1. DOMAIN <<a>> = {1} /\ <<a>>[1] = a /\ <<b>>[1] = b
  OBVIOUS
<1>2. 1 .. (1 - 1) = {}
  OBVIOUS
<1> QED
  BY <1>1, <1>2, Zenon DEF Precedes

LEMMA Precedes4 ==
  ASSUME NEW a \in Int, NEW b \in Int, NEW c \in Int, NEW d \in Int,
         NEW e \in Int, NEW f \in Int, NEW g \in Int, NEW h \in Int
  PROVE  Precedes(<<a, b, c, d>>, <<e, f, g, h>>)
           <=> a < e \/ (a = e /\ (b < f \/ (b = f /\ (c < g \/ (c = g /\ d < h)))))
BY DEF Precedes

\* A key that starts with a larger number never precedes.
LEMMA LargerHead ==
  ASSUME NEW x \in Seq(Int), NEW y \in Seq(Int), Len(x) >= 1, Len(y) >= 1, y[1] < x[1]
  PROVE  ~Precedes(x, y)
<1>1. DOMAIN x = 1 .. Len(x) /\ Len(x) \in Nat
  BY LenProperties
<1>2. SUFFICES ASSUME NEW i \in 1 .. Len(x), x[i] < y[i], \A j \in 1 .. (i - 1) : x[j] = y[j]
               PROVE  FALSE
  BY <1>1 DEF Precedes
<1>3. x[1] \in Int /\ y[1] \in Int
  <2>1. 1 \in 1 .. Len(x) /\ 1 \in 1 .. Len(y)
    BY LenProperties
  <2> QED
    BY <2>1, ElementOfSeq
<1>4. CASE i = 1
  BY <1>2, <1>3, <1>4
<1>5. CASE i # 1
  <2>1. 1 \in 1 .. (i - 1)
    BY <1>1, <1>5
  <2> QED
    BY <1>2, <1>3, <2>1
<1> QED
  BY <1>4, <1>5

LEMMA SixInts ==
  ASSUME NEW a \in Int, NEW b \in Int, NEW c \in Int,
         NEW d \in Int, NEW e \in Int, NEW f \in Int
  PROVE  /\ <<a, b, c, d, e, f>> \in Seq(Int) /\ Len(<<a, b, c, d, e, f>>) = 6
         /\ <<a, b, c, d, e, f>>[1] = a
<1> DEFINE k == <<a, b, c, d, e, f>>
<1>1. Len(k) = 6
  OBVIOUS
<1>2. DOMAIN k = 1 .. 6
  OBVIOUS
<1>3. \A i \in 1 .. 6 : k[i] \in Int
  <2>1. k[1] = a /\ k[2] = b /\ k[3] = c /\ k[4] = d /\ k[5] = e /\ k[6] = f
    OBVIOUS
  <2>2. \A i \in 1 .. 6 : i = 1 \/ i = 2 \/ i = 3 \/ i = 4 \/ i = 5 \/ i = 6
    OBVIOUS
  <2> HIDE DEF k
  <2> QED
    BY <2>1, <2>2
<1>4. k = [i \in 1 .. 6 |-> k[i]]
  OBVIOUS
<1>5. k[1] = a
  OBVIOUS
<1>6. k \in [1 .. 6 -> Int]
  <2> HIDE DEF k
  <2> QED
    BY <1>3, <1>4
<1> QED
  <2> HIDE DEF k
  <2>1. k \in Seq(Int)
    BY <1>6, SeqDef
  <2> QED
    BY <1>1, <1>5, <2>1 DEF k

\* The jobs that one sort puts first in a part of the jobs are the first of that part in
\* another, when the jobs before them are the same.
LEMMA SameForemost ==
  ASSUME NEW f, NEW g, NEW n, DOMAIN g \subseteq DOMAIN f,
         \A r \in DOMAIN g, q \in DOMAIN f :
           Precedes(f[q], f[r]) <=> q \in DOMAIN g /\ Precedes(g[q], g[r])
  PROVE  Foremost(n, f) \cap DOMAIN g = Foremost(n, g)
<1>1. ASSUME NEW r \in DOMAIN g
      PROVE  {q \in DOMAIN f : Precedes(f[q], f[r])} = {q \in DOMAIN g : Precedes(g[q], g[r])}
  OBVIOUS
<1> QED
  BY <1>1 DEF Foremost

\* Whoever has no more jobs before him than one who is served is served.
LEMMA KeepsPlace ==
  ASSUME NEW f, NEW g, IsFiniteSet(DOMAIN g), NEW n \in Nat,
         NEW r \in Foremost(n, g), NEW q \in DOMAIN f,
         \A p \in DOMAIN f : Precedes(f[p], f[q]) => p \in DOMAIN g /\ Precedes(g[p], g[r])
  PROVE  q \in Foremost(n, f)
<1> DEFINE F == {p \in DOMAIN f : Precedes(f[p], f[q])}
           G == {p \in DOMAIN g : Precedes(g[p], g[r])}
<1>1. F \subseteq G /\ G \subseteq DOMAIN g
  OBVIOUS
<1>2. IsFiniteSet(G)
  BY <1>1, FS_Subset
<1>3. Cardinality(G) < n
  BY DEF Foremost
<1> HIDE DEF F, G
<1>4. IsFiniteSet(F) /\ Cardinality(F) <= Cardinality(G)
  BY <1>1, <1>2, FS_Subset
<1>5. Cardinality(F) \in Nat /\ Cardinality(G) \in Nat
  BY <1>2, <1>4, FS_CardinalityType
<1>6. Cardinality(F) < n
  BY <1>3, <1>4, <1>5
<1> QED
  BY <1>6 DEF F, Foremost

\* Without a core nobody is served.
LEMMA NoCore ==
  ASSUME NEW f, IsFiniteSet(DOMAIN f)
  PROVE  Foremost(0, f) = {}
<1> SUFFICES ASSUME NEW r \in Foremost(0, f) PROVE FALSE
  OBVIOUS
<1> DEFINE F == {q \in DOMAIN f : Precedes(f[q], f[r])}
<1>1. IsFiniteSet(F)
  BY FS_Subset
<1>2. Cardinality(F) < 0
  BY DEF Foremost
<1> QED
  BY <1>1, <1>2, FS_CardinalityType

-----------------------------------------------------------------------------
(* The ready list *)

LEMMA ReadyParts ==
  ASSUME FleetInv, NEW r \in Ready
  PROVE  /\ r.vehicle \in Vehicle /\ r.kind \in CloudKind
         /\ StaticOrder(r) \in Seq(Int) /\ Len(StaticOrder(r)) = 3
<1>1. PICK t \in Task : r = ReadyJob(t)
  BY DEF Ready
<1>2. t[1] \in Vehicle /\ t[2] \in CloudKind /\ Period[t[2]] \in Nat
  BY TaskParts, ConfigType DEF FleetInv, FleetType
<1>3. r.vehicle = t[1] /\ r.kind = t[2] /\ r.period = Period[t[2]]
  BY <1>1 DEF ReadyJob
<1>4. r.vehicle \in Int /\ KindRank[r.kind] \in Int /\ r.period \in Int
  BY <1>2, <1>3, FleetAssumption DEF Vehicle, CloudKind, KindRank
<1> QED
  BY <1>2, <1>3, <1>4 DEF StaticOrder

LEMMA ReadyFinite == FleetInv => IsFiniteSet(Ready)
<1> DEFINE A == {u \in Task : job[u].active}
           f == [t \in A |-> ReadyJob(t)]
<1>1. IsFiniteSet(Vehicle)
  BY FleetAssumption, FS_Interval DEF Vehicle
<1>2. CloudKind = {"Estimator", "Controller", "Feedforward", "Merger"}
  BY DEF CloudKind, KindRank
<1>3. IsFiniteSet(CloudKind)
  <2>1. IsFiniteSet({"Estimator"}) /\ IsFiniteSet({"Controller"})
        /\ IsFiniteSet({"Feedforward"}) /\ IsFiniteSet({"Merger"})
    BY FS_Singleton
  <2>2. IsFiniteSet({"Estimator"} \cup {"Controller"})
        /\ IsFiniteSet({"Feedforward"} \cup {"Merger"})
    BY <2>1, FS_Union
  <2>3. IsFiniteSet(({"Estimator"} \cup {"Controller"}) \cup ({"Feedforward"} \cup {"Merger"}))
    BY <2>2, FS_Union
  <2>4. CloudKind = ({"Estimator"} \cup {"Controller"}) \cup ({"Feedforward"} \cup {"Merger"})
    BY <1>2
  <2> QED
    BY <2>3, <2>4
<1>4. IsFiniteSet(Task)
  BY <1>1, <1>3, FS_Product DEF Task
<1>5. IsFiniteSet(A)
  BY <1>4, FS_Subset
<1>6. f \in Surjection(A, Ready)
  <2>1. f \in [A -> Ready]
    BY DEF Ready
  <2>2. \A r \in Ready : \E t \in A : f[t] = r
    BY DEF Ready
  <2> HIDE DEF A, f
  <2> QED
    BY <2>1, <2>2 DEF Surjection
<1> HIDE DEF A, f
<1> QED
  BY <1>5, <1>6, FS_Surjection

\* What a policy reads of the car of a ready job.
LEMMA ReadyScores ==
  ASSUME FleetInv, NEW r \in Ready
  PROVE  /\ ctx[r.vehicle].urgency \in Int /\ -ctx[r.vehicle].urgency \in Int
         /\ ctx[r.vehicle].ttpnr \in Int
         /\ ctx[r.vehicle].ttv \in Int /\ ctx[r.vehicle].clearance \in Int
<1>1. ctx \in [Vehicle -> Scores] /\ r.vehicle \in Vehicle
  BY ConfigType, ReadyParts DEF FleetInv, FleetType
<1>2. PICK s \in Scores : s = ctx[r.vehicle]
  BY <1>1
<1>3. s.urgency \in Int /\ s.ttpnr \in Nat /\ s.ttv \in Nat /\ s.clearance \in Int
  BY DEF Scores
<1>4. -s.urgency \in Int
  BY <1>3
<1> QED
  BY <1>2, <1>3, <1>4

-----------------------------------------------------------------------------
(* Frontier and the adaptive guard *)

GuardHead(v) ==
  CASE Unsavable(v, ctx) -> Hopeless
    [] ~Unsavable(v, ctx) /\ Endangered(v, ctx) -> Emergency(v, ctx)
    [] OTHER -> Comfort(v, ctx)

GuardOrder(ready) == [r \in ready |-> GuardHead(r.vehicle) \o StaticOrder(r)]

FrontierOrder(ready, fDemote) ==
  [r \in ready |-> FrontierKey(r, ready, ctx, lastFDone, fDemote) \o StaticOrder(r)]

\* No car is given up for lost.
NobodyGivenUp == \A v \in Vehicle : ~Unsavable(v, ctx)

LEMMA GuardServes == \A n : AdaptiveGuard(Ready, n, ctx) = Foremost(n, GuardOrder(Ready))
BY DEF AdaptiveGuard, GuardOrder, GuardHead

LEMMA FrontierServes ==
  ASSUME NEW n, NEW fDemote
  PROVE  Frontier(Ready, n, ctx, lastFDone, fDemote) = Foremost(n, FrontierOrder(Ready, fDemote))
BY DEF Frontier, FrontierOrder

LEMMA GuardKey ==
  ASSUME FleetInv, NobodyGivenUp, NEW r \in Ready
  PROVE  LET v == r.vehicle
         IN /\ Endangered(v, ctx) =>
                 GuardHead(v) = <<0, ctx[v].ttpnr, ctx[v].clearance, ctx[v].ttv>>
            /\ ~Endangered(v, ctx) => GuardHead(v) = <<1, -ctx[v].urgency, 0, 0>>
            /\ GuardHead(v) \in Seq(Int) /\ Len(GuardHead(v)) = 4
<1> DEFINE v == r.vehicle
<1>1. ~Unsavable(v, ctx)
  BY ReadyParts DEF NobodyGivenUp
<1>2. /\ ctx[v].ttpnr \in Int /\ ctx[v].ttv \in Int /\ ctx[v].clearance \in Int
      /\ -ctx[v].urgency \in Int
  BY ReadyScores
<1>3. CASE Endangered(v, ctx)
  <2>1. GuardHead(v) = <<0, ctx[v].ttpnr, ctx[v].clearance, ctx[v].ttv>>
    BY <1>1, <1>3 DEF GuardHead, Emergency
  <2> QED
    BY <1>2, <1>3, <2>1
<1>4. CASE ~Endangered(v, ctx)
  <2>1. GuardHead(v) = <<1, -ctx[v].urgency, 0, 0>>
    BY <1>1, <1>4 DEF GuardHead, Comfort
  <2> QED
    BY <1>2, <1>4, <2>1
<1> QED
  BY <1>3, <1>4

\* A key of Frontier: with nobody demoted it says what the adaptive guard's says.
LEMMA AblatedKey ==
  ASSUME FleetInv, ~RmAlloc, NEW r \in Ready
  PROVE  LET v == r.vehicle
             head == FrontierKey(r, Ready, ctx, lastFDone, FALSE)
         IN /\ Endangered(v, ctx) =>
                 head = <<0, 1, ctx[v].ttpnr, ctx[v].clearance, ctx[v].ttv, 0>>
            /\ ~Endangered(v, ctx) => head = <<1, 1, -ctx[v].urgency, 0, 0, 0>>
            /\ head \in Seq(Int) /\ Len(head) = 6
<1> DEFINE v == r.vehicle
           head == FrontierKey(r, Ready, ctx, lastFDone, FALSE)
<1>1. ~Demoted(r, ctx, FALSE) /\ ~Starved(r, Ready, ctx, lastFDone, FALSE)
  BY DEF Demoted, Starved
<1>2. /\ ctx[v].ttpnr \in Int /\ ctx[v].ttv \in Int /\ ctx[v].clearance \in Int
      /\ -ctx[v].urgency \in Int
  BY ReadyScores
<1>3. CASE Endangered(v, ctx)
  <2>1. head = <<0, 1, ctx[v].ttpnr, ctx[v].clearance, ctx[v].ttv, 0>>
    BY <1>1, <1>3 DEF FrontierKey
  <2>2. PICK p, c, t : p = ctx[v].ttpnr /\ c = ctx[v].clearance /\ t = ctx[v].ttv
    OBVIOUS
  <2>3. <<0, 1, p, c, t, 0>> \in Seq(Int) /\ Len(<<0, 1, p, c, t, 0>>) = 6
    BY <1>2, <2>2, SixInts
  <2> QED
    BY <1>3, <2>1, <2>2, <2>3
<1>4. CASE ~Endangered(v, ctx)
  <2>1. head = <<1, 1, -ctx[v].urgency, 0, 0, 0>>
    BY <1>1, <1>4 DEF FrontierKey
  <2>2. PICK u : u = -ctx[v].urgency
    OBVIOUS
  <2>3. <<1, 1, u, 0, 0, 0>> \in Seq(Int) /\ Len(<<1, 1, u, 0, 0, 0>>) = 6
    BY <1>2, <2>2, SixInts
  <2> QED
    BY <1>4, <2>1, <2>2, <2>3
<1> QED
  BY <1>3, <1>4

\* Without the demotion Frontier compares two jobs as the adaptive guard does.
LEMMA AblatedOrder ==
  ASSUME FleetInv, ~RmAlloc, NobodyGivenUp, NEW q \in Ready, NEW r \in Ready
  PROVE  Precedes(FrontierOrder(Ready, FALSE)[q], FrontierOrder(Ready, FALSE)[r])
           <=> Precedes(GuardOrder(Ready)[q], GuardOrder(Ready)[r])
<1>1. PICK a, b, g, h, s, t :
        /\ a = FrontierKey(q, Ready, ctx, lastFDone, FALSE)
        /\ b = FrontierKey(r, Ready, ctx, lastFDone, FALSE)
        /\ g = GuardHead(q.vehicle) /\ h = GuardHead(r.vehicle)
        /\ s = StaticOrder(q) /\ t = StaticOrder(r)
  OBVIOUS
<1>2. PICK v, w : v = q.vehicle /\ w = r.vehicle
  OBVIOUS
<1>3. PICK dq, dr : dq = Endangered(v, ctx) /\ dr = Endangered(w, ctx)
  OBVIOUS
<1>4. PICK pq, cq, tq, uq : /\ pq = ctx[v].ttpnr /\ cq = ctx[v].clearance /\ tq = ctx[v].ttv
                            /\ uq = -ctx[v].urgency
  OBVIOUS
<1>5. PICK pr, cr, tr, ur : /\ pr = ctx[w].ttpnr /\ cr = ctx[w].clearance /\ tr = ctx[w].ttv
                            /\ ur = -ctx[w].urgency
  OBVIOUS
<1>6. /\ pq \in Int /\ cq \in Int /\ tq \in Int /\ uq \in Int
      /\ pr \in Int /\ cr \in Int /\ tr \in Int /\ ur \in Int
  BY <1>2, <1>4, <1>5, ReadyScores
<1>7. /\ a \in Seq(Int) /\ b \in Seq(Int) /\ Len(a) = Len(b)
      /\ g \in Seq(Int) /\ h \in Seq(Int) /\ Len(g) = Len(h)
      /\ s \in Seq(Int) /\ t \in Seq(Int) /\ Len(s) = Len(t)
  BY <1>1, AblatedKey, GuardKey, ReadyParts
<1>8. /\ dq => a = <<0, 1, pq, cq, tq, 0>> /\ g = <<0, pq, cq, tq>>
      /\ ~dq => a = <<1, 1, uq, 0, 0, 0>> /\ g = <<1, uq, 0, 0>>
  BY <1>1, <1>2, <1>3, <1>4, AblatedKey, GuardKey
<1>9. /\ dr => b = <<0, 1, pr, cr, tr, 0>> /\ h = <<0, pr, cr, tr>>
      /\ ~dr => b = <<1, 1, ur, 0, 0, 0>> /\ h = <<1, ur, 0, 0>>
  BY <1>1, <1>2, <1>3, <1>5, AblatedKey, GuardKey
<1>10. Precedes(a, b) <=> Precedes(g, h)
  <2>1. CASE dq /\ dr
    <3>1. /\ a = <<0, 1, pq, cq, tq, 0>> /\ b = <<0, 1, pr, cr, tr, 0>>
          /\ g = <<0, pq, cq, tq>> /\ h = <<0, pr, cr, tr>>
      BY <1>8, <1>9, <2>1
    <3>2. Precedes(<<0, 1, pq, cq, tq, 0>>, <<0, 1, pr, cr, tr, 0>>)
            <=> pq < pr \/ (pq = pr /\ (cq < cr \/ (cq = cr /\ tq < tr)))
      BY <1>6 DEF Precedes
    <3>3. Precedes(<<0, pq, cq, tq>>, <<0, pr, cr, tr>>)
            <=> pq < pr \/ (pq = pr /\ (cq < cr \/ (cq = cr /\ tq < tr)))
      BY <1>6, SMTT(30) DEF Precedes
    <3> QED
      BY <3>1, <3>2, <3>3
  <2>2. CASE dq /\ ~dr
    <3>1. /\ a = <<0, 1, pq, cq, tq, 0>> /\ b = <<1, 1, ur, 0, 0, 0>>
          /\ g = <<0, pq, cq, tq>> /\ h = <<1, ur, 0, 0>>
      BY <1>8, <1>9, <2>2
    <3>2. Precedes(<<0, 1, pq, cq, tq, 0>>, <<1, 1, ur, 0, 0, 0>>)
            <=> TRUE
      BY <1>6 DEF Precedes
    <3>3. Precedes(<<0, pq, cq, tq>>, <<1, ur, 0, 0>>)
            <=> TRUE
      BY <1>6, SMTT(30) DEF Precedes
    <3> QED
      BY <3>1, <3>2, <3>3
  <2>3. CASE ~dq /\ dr
    <3>1. /\ a = <<1, 1, uq, 0, 0, 0>> /\ b = <<0, 1, pr, cr, tr, 0>>
          /\ g = <<1, uq, 0, 0>> /\ h = <<0, pr, cr, tr>>
      BY <1>8, <1>9, <2>3
    <3>2. Precedes(<<1, 1, uq, 0, 0, 0>>, <<0, 1, pr, cr, tr, 0>>)
            <=> FALSE
      BY <1>6 DEF Precedes
    <3>3. Precedes(<<1, uq, 0, 0>>, <<0, pr, cr, tr>>)
            <=> FALSE
      BY <1>6, SMTT(30) DEF Precedes
    <3> QED
      BY <3>1, <3>2, <3>3
  <2>4. CASE ~dq /\ ~dr
    <3>1. /\ a = <<1, 1, uq, 0, 0, 0>> /\ b = <<1, 1, ur, 0, 0, 0>>
          /\ g = <<1, uq, 0, 0>> /\ h = <<1, ur, 0, 0>>
      BY <1>8, <1>9, <2>4
    <3>2. Precedes(<<1, 1, uq, 0, 0, 0>>, <<1, 1, ur, 0, 0, 0>>)
            <=> uq < ur
      BY <1>6 DEF Precedes
    <3>3. Precedes(<<1, uq, 0, 0>>, <<1, ur, 0, 0>>)
            <=> uq < ur
      BY <1>6, SMTT(30) DEF Precedes
    <3> QED
      BY <3>1, <3>2, <3>3
  <2> QED
    BY <2>1, <2>2, <2>3, <2>4
<1>11. a = b <=> g = h
  <2>1. CASE dq /\ dr
    BY <1>8, <1>9, <2>1
  <2>2. CASE dq /\ ~dr
    BY <1>8, <1>9, <2>2
  <2>3. CASE ~dq /\ dr
    BY <1>8, <1>9, <2>3
  <2>4. CASE ~dq /\ ~dr
    BY <1>8, <1>9, <2>4
  <2> QED
    BY <2>1, <2>2, <2>3, <2>4
<1>12. Precedes(a \o s, b \o t) <=> Precedes(g \o s, h \o t)
  <2>1. Precedes(a \o s, b \o t) <=> Precedes(a, b) \/ (a = b /\ Precedes(s, t))
    BY <1>7, PrecedesPrefix
  <2>2. Precedes(g \o s, h \o t) <=> Precedes(g, h) \/ (g = h /\ Precedes(s, t))
    BY <1>7, PrecedesPrefix
  <2> QED
    BY <1>10, <1>11, <2>1, <2>2
<1> QED
  BY <1>1, <1>12 DEF FrontierOrder, GuardOrder

LEMMA AblationHolds ==
  ASSUME FleetInv, ~RmAlloc, NobodyGivenUp
  PROVE  AblationIsAdaptiveGuard
<1> SUFFICES ASSUME phase = "end", This.policy = "frontier", Ready # {}
             PROVE  Frontier(Ready, NCores, ctx, lastFDone, FALSE) = Assign("aguard", Ready)
  BY DEF AblationIsAdaptiveGuard
<1>1. DOMAIN FrontierOrder(Ready, FALSE) = Ready /\ DOMAIN GuardOrder(Ready) = Ready
  BY DEF FrontierOrder, GuardOrder
<1>2. PICK f, g : f = FrontierOrder(Ready, FALSE) /\ g = GuardOrder(Ready)
  OBVIOUS
<1>3. Foremost(NCores, f) \cap DOMAIN g = Foremost(NCores, g)
  <2>1. /\ DOMAIN g \subseteq DOMAIN f
        /\ \A r \in DOMAIN g, q \in DOMAIN f :
             Precedes(f[q], f[r]) <=> q \in DOMAIN g /\ Precedes(g[q], g[r])
    BY <1>1, <1>2, AblatedOrder
  <2> QED
    BY <2>1, SameForemost
<1>4. Foremost(NCores, f) \subseteq DOMAIN g
  BY <1>1, <1>2 DEF Foremost
<1>5. CASE NCores = 0
  <2>1. Assign("aguard", Ready) = {}
    BY <1>5 DEF Assign
  <2>2. Foremost(NCores, f) = {}
    BY <1>1, <1>2, <1>5, NoCore, ReadyFinite
  <2> QED
    BY <1>2, <2>1, <2>2, FrontierServes
<1>6. CASE NCores # 0
  <2>1. Assign("aguard", Ready) = AdaptiveGuard(Ready, NCores, ctx)
    BY <1>6 DEF Assign
  <2> QED
    BY <1>2, <1>3, <1>4, <2>1, FrontierServes, GuardServes
<1> QED
  BY <1>5, <1>6

\* Frontier.cpp:56-57: without Feedforward's demotion Frontier shares out the cores exactly
\* as the adaptive guard does, for any ready list, any views and any heartbeat memory.  Two
\* conditions say where the code means it: the rate-monotonic ablation is not selected as
\* well (CPS_FRONTIER_RM_ALLOC), and no car is given up, which Frontier never does.
THEOREM AblationExact ==
  ~RmAlloc => (FrontierSpec => [](NobodyGivenUp => AblationIsAdaptiveGuard))
<1> SUFFICES ASSUME ~RmAlloc PROVE FrontierSpec => [](NobodyGivenUp => AblationIsAdaptiveGuard)
  OBVIOUS
<1>1. FleetInv => (NobodyGivenUp => AblationIsAdaptiveGuard)
  BY AblationHolds
<1> QED
  BY <1>1, FleetInvariant, PTL

\* A key of Frontier: 0 leads the keys of endangered cars' jobs that are not demoted, and
\* 1 all others.
LEMMA FrontierHead ==
  ASSUME FleetInv, HeartbeatInv, phase = "end", ~RmAlloc, NEW r \in Ready
  PROVE  LET v == r.vehicle
             head == FrontierKey(r, Ready, ctx, lastFDone, TRUE)
         IN /\ head \in Seq(Int) /\ Len(head) = 6
            /\ Endangered(v, ctx) /\ ~Demoted(r, ctx, TRUE) =>
                 head = <<0, 1, ctx[v].ttpnr, ctx[v].clearance, ctx[v].ttv, 0>>
            /\ ~(Endangered(v, ctx) /\ ~Demoted(r, ctx, TRUE)) => head[1] = 1
<1> DEFINE v == r.vehicle
           head == FrontierKey(r, Ready, ctx, lastFDone, TRUE)
<1>1. PICK p, c, t, u, s :
        /\ p = ctx[v].ttpnr /\ c = ctx[v].clearance /\ t = ctx[v].ttv
        /\ u = -ctx[v].urgency /\ s = -Starve(r, Ready, lastFDone)
  OBVIOUS
<1>2. p \in Int /\ c \in Int /\ t \in Int /\ u \in Int
  BY <1>1, ReadyScores
<1>3. s \in Int
  <2>1. NowEst(Ready) \in Nat
    BY ClockOfReady
  <2>2. lastFDone[v] \in Nat
    BY ReadyParts DEF HeartbeatInv
  <2>3. NowEst(Ready) - lastFDone[v] \in Int
    BY <2>1, <2>2
  <2> QED
    BY <1>1, <2>3 DEF Starve
<1>4. CASE Starved(r, Ready, ctx, lastFDone, TRUE)
  <2>1. Demoted(r, ctx, TRUE)
    BY <1>4 DEF Starved
  <2>2. head = <<1, 0, s, 0, 0, 1>>
    BY <1>1, <1>4, <2>1 DEF FrontierKey
  <2>3. /\ <<1, 0, s, 0, 0, 1>> \in Seq(Int) /\ Len(<<1, 0, s, 0, 0, 1>>) = 6
        /\ <<1, 0, s, 0, 0, 1>>[1] = 1
    BY <1>3, SixInts
  <2>4. head[1] = 1
    BY <2>2, <2>3
  <2> HIDE DEF head
  <2>5. head \in Seq(Int) /\ Len(head) = 6
    BY <2>2, <2>3
  <2> QED
    BY <2>1, <2>4, <2>5 DEF head
<1>5. CASE /\ ~Starved(r, Ready, ctx, lastFDone, TRUE)
           /\ Endangered(v, ctx) /\ ~Demoted(r, ctx, TRUE)
  <2>1. head = <<0, 1, p, c, t, 0>>
    BY <1>1, <1>5 DEF FrontierKey
  <2>2. <<0, 1, p, c, t, 0>> \in Seq(Int) /\ Len(<<0, 1, p, c, t, 0>>) = 6
    BY <1>2, SixInts
  <2> QED
    BY <1>1, <1>5, <2>1, <2>2
<1>6. CASE /\ ~Starved(r, Ready, ctx, lastFDone, TRUE)
           /\ ~(Endangered(v, ctx) /\ ~Demoted(r, ctx, TRUE))
  <2>1. PICK f : f = IF Demoted(r, ctx, TRUE) THEN 1 ELSE 0
    OBVIOUS
  <2>2. head = <<1, 1, u, 0, 0, f>>
    BY <1>1, <1>6, <2>1 DEF FrontierKey
  <2>3. f \in Int
    BY <2>1
  <2>4. /\ <<1, 1, u, 0, 0, f>> \in Seq(Int) /\ Len(<<1, 1, u, 0, 0, f>>) = 6
        /\ <<1, 1, u, 0, 0, f>>[1] = 1
    BY <1>2, <2>3, SixInts
  <2>5. head[1] = 1
    BY <2>2, <2>4
  <2> HIDE DEF head
  <2>6. head \in Seq(Int) /\ Len(head) = 6
    BY <2>2, <2>4
  <2> QED
    BY <1>6, <2>5, <2>6 DEF head
<1> QED
  BY <1>4, <1>5, <1>6

\* What the adaptive guard gives an endangered car Frontier gives it too.
LEMMA RescueHolds ==
  ASSUME FleetInv, HeartbeatInv, ~RmAlloc, NobodyGivenUp
  PROVE  RescueKept
<1> DEFINE granted == Frontier(Ready, NCores, ctx, lastFDone, TRUE)
<1> SUFFICES ASSUME phase = "end", This.policy = "frontier",
                    NEW r \in Assign("aguard", Ready), r \notin granted,
                    Endangered(r.vehicle, ctx), ~Demoted(r, ctx, TRUE)
             PROVE  FALSE
  BY DEF RescueKept, Demoted
<1>1. NCores \in Nat
  BY ConfigType DEF FleetInv, FleetType
<1>2. r \in Foremost(NCores, GuardOrder(Ready))
  BY GuardServes DEF Assign
<1>3. DOMAIN GuardOrder(Ready) = Ready /\ DOMAIN FrontierOrder(Ready, TRUE) = Ready
  BY DEF GuardOrder, FrontierOrder
<1>4. r \in Ready
  BY <1>2, <1>3 DEF Foremost
<1>5. ASSUME NEW p \in Ready, Precedes(FrontierOrder(Ready, TRUE)[p], FrontierOrder(Ready, TRUE)[r])
      PROVE  Precedes(GuardOrder(Ready)[p], GuardOrder(Ready)[r])
  <2>1. PICK a, b, g, h, s, t :
          /\ a = FrontierKey(p, Ready, ctx, lastFDone, TRUE)
          /\ b = FrontierKey(r, Ready, ctx, lastFDone, TRUE)
          /\ g = GuardHead(p.vehicle) /\ h = GuardHead(r.vehicle)
          /\ s = StaticOrder(p) /\ t = StaticOrder(r)
    OBVIOUS
  <2>2. PICK v, w : v = p.vehicle /\ w = r.vehicle
    OBVIOUS
  <2>3. PICK pq, cq, tq : pq = ctx[v].ttpnr /\ cq = ctx[v].clearance /\ tq = ctx[v].ttv
    OBVIOUS
  <2>4. PICK pr, cr, tr : pr = ctx[w].ttpnr /\ cr = ctx[w].clearance /\ tr = ctx[w].ttv
    OBVIOUS
  <2>5. /\ pq \in Int /\ cq \in Int /\ tq \in Int
        /\ pr \in Int /\ cr \in Int /\ tr \in Int
    BY <1>4, <2>2, <2>3, <2>4, ReadyScores
  <2>6. /\ a \in Seq(Int) /\ b \in Seq(Int) /\ Len(a) = 6 /\ Len(b) = 6
        /\ g \in Seq(Int) /\ h \in Seq(Int) /\ Len(g) = Len(h)
        /\ s \in Seq(Int) /\ t \in Seq(Int) /\ Len(s) = Len(t)
    BY <1>4, <2>1, FrontierHead, GuardKey, ReadyParts
  <2>7. b = <<0, 1, pr, cr, tr, 0>> /\ h = <<0, pr, cr, tr>>
    BY <1>4, <2>1, <2>2, <2>4, FrontierHead, GuardKey
  <2>8. Precedes(a \o s, b \o t)
    BY <1>4, <1>5, <2>1 DEF FrontierOrder
  <2>9. Precedes(a, b) \/ (a = b /\ Precedes(s, t))
    BY <2>6, <2>8, PrecedesPrefix
  <2>10. b[1] = 0
    BY <2>7
  <2>11. a[1] # 1
    <3> SUFFICES ASSUME a[1] = 1 PROVE FALSE
      OBVIOUS
    <3>1. b[1] < a[1] /\ Len(a) >= 1 /\ Len(b) >= 1
      BY <2>6, <2>10
    <3>2. ~Precedes(a, b)
      BY <2>6, <3>1, LargerHead
    <3> QED
      BY <2>9, <2>10, <3>2
  <2>12. Endangered(v, ctx) /\ ~Demoted(p, ctx, TRUE)
    BY <2>1, <2>2, <2>11, FrontierHead
  <2>13. a = <<0, 1, pq, cq, tq, 0>> /\ g = <<0, pq, cq, tq>>
    BY <2>1, <2>2, <2>3, <2>12, FrontierHead, GuardKey
  <2>14. Precedes(a, b) => Precedes(g, h)
    <3>1. Precedes(<<0, 1, pq, cq, tq, 0>>, <<0, 1, pr, cr, tr, 0>>)
            <=> pq < pr \/ (pq = pr /\ (cq < cr \/ (cq = cr /\ tq < tr)))
      BY <2>5 DEF Precedes
    <3>2. Precedes(<<0, pq, cq, tq>>, <<0, pr, cr, tr>>)
            <=> pq < pr \/ (pq = pr /\ (cq < cr \/ (cq = cr /\ tq < tr)))
      BY <2>5 DEF Precedes
    <3> QED
      BY <2>7, <2>13, <3>1, <3>2
  <2>15. a = b => g = h
    BY <2>7, <2>13
  <2>16. Precedes(g \o s, h \o t)
    <3>1. Precedes(g, h) \/ (g = h /\ Precedes(s, t))
      BY <2>9, <2>14, <2>15
    <3> QED
      BY <2>6, <3>1, PrecedesPrefix
  <2> QED
    BY <1>4, <2>1, <2>16 DEF GuardOrder
<1>6. r \in Foremost(NCores, FrontierOrder(Ready, TRUE))
  <2>1. PICK f, g : f = FrontierOrder(Ready, TRUE) /\ g = GuardOrder(Ready)
    OBVIOUS
  <2>2. IsFiniteSet(DOMAIN g)
    BY <1>3, <2>1, ReadyFinite
  <2>3. \A p \in DOMAIN f : Precedes(f[p], f[r]) => p \in DOMAIN g /\ Precedes(g[p], g[r])
    BY <1>3, <1>5, <2>1
  <2>4. r \in Foremost(NCores, g) /\ r \in DOMAIN f
    BY <1>2, <1>3, <1>4, <2>1
  <2>5. r \in Foremost(NCores, f)
    BY <1>1, <2>2, <2>3, <2>4, KeepsPlace
  <2> QED
    BY <2>1, <2>5
<1> QED
  BY <1>6, FrontierServes

\* Frontier.cpp:14-18: every core that the adaptive guard would give an endangered car
\* Frontier gives it too, but for Feedforward outside the zones, in every tick of every
\* run: the demotion and the heartbeat take nothing from protection.  The conditions are
\* those of AblationExact.
THEOREM RescueExact ==
  ~RmAlloc => (FrontierSpec => [](NobodyGivenUp => RescueKept))
<1> SUFFICES ASSUME ~RmAlloc PROVE FrontierSpec => [](NobodyGivenUp => RescueKept)
  OBVIOUS
<1>1. FleetInv /\ HeartbeatInv => (NobodyGivenUp => RescueKept)
  BY RescueHolds
<1> QED
  BY <1>1, FleetInvariant, HeartbeatInvariant, PTL

-----------------------------------------------------------------------------
(* Hybrid *)

Urgent(v) == ctx[v].ttpnr < GuardMs /\ ~Unsavable(v, ctx)

HybridHead(v) ==
  CASE Unsavable(v, ctx) -> Hopeless
    [] ~Unsavable(v, ctx) /\ ctx[v].ttpnr < GuardMs -> <<0, ctx[v].ttpnr, ctx[v].ttv, 0>>
    [] OTHER -> Comfort(v, ctx)

UnsafeHead(v) == <<IF Unsavable(v, ctx) THEN 1 ELSE 0, ctx[v].ttpnr, ctx[v].ttv>>

HybridOrder(ready) == [r \in ready |-> HybridHead(r.vehicle) \o StaticOrder(r)]
UnsafeOrder(ready) == [r \in ready |-> UnsafeHead(r.vehicle) \o StaticOrder(r)]
ComfortOrder(ready) == [r \in ready |-> <<-ctx[r.vehicle].urgency>> \o StaticOrder(r)]

LEMMA HybridServes == \A n : Hybrid(Ready, n, ctx) = Foremost(n, HybridOrder(Ready))
BY DEF Hybrid, HybridOrder, HybridHead

LEMMA UnsafeServes == \A n : TimeToUnsafe(UrgentJobs, n, ctx) = Foremost(n, UnsafeOrder(UrgentJobs))
BY DEF TimeToUnsafe, UnsafeOrder, UnsafeHead

LEMMA ComfortServes == \A n : ContextAware(Ready, n, ctx) = Foremost(n, ComfortOrder(Ready))
BY DEF ContextAware, ComfortOrder

\* Keys of the three tiers.
LEMMA HybridKey ==
  ASSUME FleetInv, NEW r \in Ready
  PROVE  LET v == r.vehicle
         IN /\ Unsavable(v, ctx) => HybridHead(v) = <<2, 0, 0, 0>>
            /\ Urgent(v) => /\ HybridHead(v) = <<0, ctx[v].ttpnr, ctx[v].ttv, 0>>
                            /\ UnsafeHead(v) = <<0, ctx[v].ttpnr, ctx[v].ttv>>
            /\ ~Unsavable(v, ctx) /\ ~Urgent(v) => HybridHead(v) = <<1, -ctx[v].urgency, 0, 0>>
            /\ HybridHead(v) \in Seq(Int) /\ Len(HybridHead(v)) = 4
            /\ Urgent(v) => UnsafeHead(v) \in Seq(Int) /\ Len(UnsafeHead(v)) = 3
<1> DEFINE v == r.vehicle
<1>1. PICK p, t, u : p = ctx[v].ttpnr /\ t = ctx[v].ttv /\ u = -ctx[v].urgency
  OBVIOUS
<1>2. p \in Int /\ t \in Int /\ u \in Int
  BY <1>1, ReadyScores
<1>3. CASE Unsavable(v, ctx)
  <2>1. HybridHead(v) = <<2, 0, 0, 0>>
    BY <1>3 DEF HybridHead, Hopeless
  <2>2. ~Urgent(v)
    BY <1>3 DEF Urgent
  <2> QED
    BY <1>3, <2>1, <2>2
<1>4. CASE Urgent(v)
  <2>1. ~Unsavable(v, ctx) /\ ctx[v].ttpnr < GuardMs
    BY <1>4 DEF Urgent
  <2>2. HybridHead(v) = <<0, p, t, 0>>
    BY <1>1, <2>1 DEF HybridHead
  <2>3. UnsafeHead(v) = <<0, p, t>>
    BY <1>1, <2>1 DEF UnsafeHead
  <2> QED
    BY <1>1, <1>2, <1>4, <2>1, <2>2, <2>3
<1>5. CASE ~Unsavable(v, ctx) /\ ~Urgent(v)
  <2>1. ~(ctx[v].ttpnr < GuardMs)
    BY <1>5 DEF Urgent
  <2>2. HybridHead(v) = <<1, u, 0, 0>>
    BY <1>1, <1>5, <2>1 DEF HybridHead, Comfort
  <2> QED
    BY <1>1, <1>2, <1>5, <2>2
<1> QED
  BY <1>3, <1>4, <1>5

LEMMA UrgentReady == UrgentJobs = {r \in Ready : Urgent(r.vehicle)} /\ UrgentJobs \subseteq Ready
BY DEF UrgentJobs, Urgent

\* What comes before an urgent job is urgent, and comes before it in TimeToUnsafe too.
LEMMA UrgentOrder ==
  ASSUME FleetInv, NEW r \in UrgentJobs, NEW q \in Ready
  PROVE  Precedes(HybridOrder(Ready)[q], HybridOrder(Ready)[r])
           <=> q \in UrgentJobs
                 /\ Precedes(UnsafeOrder(UrgentJobs)[q], UnsafeOrder(UrgentJobs)[r])
<1>1. PICK v, w : v = q.vehicle /\ w = r.vehicle
  OBVIOUS
<1>2. PICK a, b, g, h, s, t : /\ a = HybridHead(v) /\ b = HybridHead(w)
                              /\ g = UnsafeHead(v) /\ h = UnsafeHead(w)
                              /\ s = StaticOrder(q) /\ t = StaticOrder(r)
  OBVIOUS
<1>3. r \in Ready /\ Urgent(w)
  BY <1>1, UrgentReady
<1>4. /\ a \in Seq(Int) /\ b \in Seq(Int) /\ Len(a) = 4 /\ Len(b) = 4
      /\ s \in Seq(Int) /\ t \in Seq(Int) /\ Len(s) = Len(t)
  BY <1>1, <1>2, <1>3, HybridKey, ReadyParts
<1>5. Precedes(a \o s, b \o t) <=> Precedes(a, b) \/ (a = b /\ Precedes(s, t))
  BY <1>4, PrecedesPrefix
<1>6. HybridOrder(Ready)[q] = a \o s /\ HybridOrder(Ready)[r] = b \o t
  BY <1>1, <1>2, <1>3 DEF HybridOrder
<1>7. PICK pr, tr : pr = ctx[w].ttpnr /\ tr = ctx[w].ttv
  OBVIOUS
<1>8. pr \in Int /\ tr \in Int
  BY <1>1, <1>3, <1>7, ReadyScores
<1>9. b = <<0, pr, tr, 0>> /\ h = <<0, pr, tr>>
  BY <1>1, <1>2, <1>3, <1>7, HybridKey
<1>10. CASE Urgent(v)
  <2>1. q \in UrgentJobs
    BY <1>1, <1>10, UrgentReady
  <2>2. UnsafeOrder(UrgentJobs)[q] = g \o s /\ UnsafeOrder(UrgentJobs)[r] = h \o t
    BY <1>1, <1>2, <2>1 DEF UnsafeOrder
  <2>3. g \in Seq(Int) /\ h \in Seq(Int) /\ Len(g) = 3 /\ Len(h) = 3
    BY <1>1, <1>2, <1>3, <1>10, HybridKey
  <2>4. Precedes(g \o s, h \o t) <=> Precedes(g, h) \/ (g = h /\ Precedes(s, t))
    BY <1>4, <2>3, PrecedesPrefix
  <2>5. PICK pq, tq : pq = ctx[v].ttpnr /\ tq = ctx[v].ttv
    OBVIOUS
  <2>6. pq \in Int /\ tq \in Int
    BY <1>1, <2>5, ReadyScores
  <2>7. a = <<0, pq, tq, 0>> /\ g = <<0, pq, tq>>
    BY <1>1, <1>2, <1>10, <2>5, HybridKey
  <2>8. Precedes(a, b) <=> Precedes(g, h)
    <3>1. Precedes(<<0, pq, tq, 0>>, <<0, pr, tr, 0>>) <=> pq < pr \/ (pq = pr /\ tq < tr)
      BY <1>8, <2>6 DEF Precedes
    <3>2. Precedes(<<0, pq, tq>>, <<0, pr, tr>>) <=> pq < pr \/ (pq = pr /\ tq < tr)
      BY <1>8, <2>6 DEF Precedes
    <3> QED
      BY <1>9, <2>7, <3>1, <3>2
  <2>9. a = b <=> g = h
    BY <1>9, <2>7
  <2> QED
    BY <1>5, <1>6, <2>1, <2>2, <2>4, <2>8, <2>9
<1>11. CASE ~Urgent(v)
  <2>1. a[1] \in Int /\ 0 < a[1]
    <3>1. a = <<2, 0, 0, 0>> \/ a = <<1, -ctx[v].urgency, 0, 0>>
      BY <1>1, <1>2, <1>11, HybridKey
    <3> QED
      BY <3>1
  <2>2. b[1] < a[1] /\ Len(a) >= 1 /\ Len(b) >= 1
    BY <1>4, <1>9, <2>1
  <2>3. ~Precedes(a, b)
    BY <1>4, <2>2, LargerHead
  <2>4. a # b
    BY <2>1, <2>2
  <2>5. q \notin UrgentJobs
    BY <1>1, <1>11, UrgentReady
  <2> QED
    BY <1>5, <1>6, <2>3, <2>4, <2>5
<1> QED
  BY <1>10, <1>11

\* With no urgent and no forsaken job there is nothing but comfort to compare.
LEMMA ComfortableOrder ==
  ASSUME FleetInv, UrgentJobs \cup ForsakenJobs = {}, NEW q \in Ready, NEW r \in Ready
  PROVE  Precedes(HybridOrder(Ready)[q], HybridOrder(Ready)[r])
           <=> Precedes(ComfortOrder(Ready)[q], ComfortOrder(Ready)[r])
<1>1. PICK v, w : v = q.vehicle /\ w = r.vehicle
  OBVIOUS
<1>2. ~Urgent(v) /\ ~Urgent(w) /\ ~Unsavable(v, ctx) /\ ~Unsavable(w, ctx)
  BY <1>1 DEF UrgentJobs, ForsakenJobs, Urgent
<1>3. PICK a, b, s, t, uq, ur : /\ a = HybridHead(v) /\ b = HybridHead(w)
                                /\ s = StaticOrder(q) /\ t = StaticOrder(r)
                                /\ uq = -ctx[v].urgency /\ ur = -ctx[w].urgency
  OBVIOUS
<1>4. uq \in Int /\ ur \in Int
  BY <1>1, <1>3, ReadyScores
<1>5. a = <<1, uq, 0, 0>> /\ b = <<1, ur, 0, 0>>
  BY <1>1, <1>2, <1>3, HybridKey
<1>6. /\ a \in Seq(Int) /\ b \in Seq(Int) /\ Len(a) = Len(b)
      /\ s \in Seq(Int) /\ t \in Seq(Int) /\ Len(s) = Len(t)
  BY <1>1, <1>3, HybridKey, ReadyParts
<1>7. Precedes(a \o s, b \o t) <=> Precedes(a, b) \/ (a = b /\ Precedes(s, t))
  BY <1>6, PrecedesPrefix
<1>8. PICK g, h : g = <<uq>> /\ h = <<ur>>
  OBVIOUS
<1>9. g \in Seq(Int) /\ h \in Seq(Int) /\ Len(g) = Len(h)
  BY <1>4, <1>8
<1>10. Precedes(g \o s, h \o t) <=> Precedes(g, h) \/ (g = h /\ Precedes(s, t))
  BY <1>6, <1>9, PrecedesPrefix
<1>11. Precedes(a, b) <=> uq < ur
  <2>1. Precedes(<<1, uq, 0, 0>>, <<1, ur, 0, 0>>) <=> uq < ur
    BY <1>4, Precedes4
  <2> QED
    BY <1>5, <2>1
<1>12. Precedes(g, h) <=> uq < ur
  BY <1>4, <1>8, Precedes1
<1>13. (a = b <=> uq = ur) /\ (g = h <=> uq = ur)
  BY <1>5, <1>8
<1>14. /\ HybridOrder(Ready)[q] = a \o s /\ HybridOrder(Ready)[r] = b \o t
       /\ ComfortOrder(Ready)[q] = g \o s /\ ComfortOrder(Ready)[r] = h \o t
  BY <1>1, <1>3, <1>8 DEF HybridOrder, ComfortOrder
<1> QED
  BY <1>7, <1>10, <1>11, <1>12, <1>13, <1>14

\* 0, 1 or 2 leads the keys of the urgent, the comfortable and the forsaken.
LEMMA HybridTier ==
  ASSUME FleetInv, NEW r \in Ready
  PROVE  LET first == HybridHead(r.vehicle)[1]
         IN /\ r \in UrgentJobs => first = 0
            /\ r \in ForsakenJobs => first = 2
            /\ r \notin UrgentJobs => first \in {1, 2}
            /\ r \notin ForsakenJobs => first \in {0, 1}
<1>1. PICK v : v = r.vehicle
  OBVIOUS
<1>2. (r \in UrgentJobs <=> Urgent(v)) /\ (r \in ForsakenJobs <=> Unsavable(v, ctx))
  BY <1>1 DEF UrgentJobs, ForsakenJobs, Urgent
<1>3. CASE Unsavable(v, ctx)
  <2>1. HybridHead(v) = <<2, 0, 0, 0>> /\ ~Urgent(v)
    BY <1>1, <1>3, HybridKey DEF Urgent
  <2> QED
    BY <1>1, <1>2, <1>3, <2>1
<1>4. CASE Urgent(v)
  <2>1. HybridHead(v) = <<0, ctx[v].ttpnr, ctx[v].ttv, 0>> /\ ~Unsavable(v, ctx)
    BY <1>1, <1>4, HybridKey DEF Urgent
  <2> QED
    BY <1>1, <1>2, <1>4, <2>1
<1>5. CASE ~Unsavable(v, ctx) /\ ~Urgent(v)
  <2>1. HybridHead(v) = <<1, -ctx[v].urgency, 0, 0>>
    BY <1>1, <1>5, HybridKey
  <2> QED
    BY <1>1, <1>2, <1>5, <2>1
<1> QED
  BY <1>3, <1>4, <1>5

\* Who is served lets everyone of a better tier be served.
LEMMA BetterTier ==
  ASSUME FleetInv, NEW n \in Nat, NEW r \in Foremost(n, HybridOrder(Ready)), NEW q \in Ready,
         HybridHead(q.vehicle)[1] < HybridHead(r.vehicle)[1]
  PROVE  q \in Foremost(n, HybridOrder(Ready))
<1>1. PICK f : f = HybridOrder(Ready)
  OBVIOUS
<1>2. DOMAIN f = Ready /\ IsFiniteSet(DOMAIN f)
  BY <1>1, ReadyFinite DEF HybridOrder
<1>3. r \in Ready
  BY <1>1, <1>2 DEF Foremost
<1>4. ASSUME NEW p \in Ready, Precedes(f[p], f[q]) PROVE Precedes(f[p], f[r])
  <2>1. PICK a, b, c, s, t, u :
          /\ a = HybridHead(p.vehicle) /\ b = HybridHead(q.vehicle) /\ c = HybridHead(r.vehicle)
          /\ s = StaticOrder(p) /\ t = StaticOrder(q) /\ u = StaticOrder(r)
    OBVIOUS
  <2>2. /\ a \in Seq(Int) /\ b \in Seq(Int) /\ c \in Seq(Int)
        /\ Len(a) = 4 /\ Len(b) = 4 /\ Len(c) = 4
        /\ s \in Seq(Int) /\ t \in Seq(Int) /\ u \in Seq(Int)
        /\ Len(s) = 3 /\ Len(t) = 3 /\ Len(u) = 3
    BY <1>3, <2>1, HybridKey, ReadyParts
  <2>3. f[p] = a \o s /\ f[q] = b \o t /\ f[r] = c \o u
    BY <1>1, <1>3, <2>1 DEF HybridOrder
  <2>4. a[1] \in Int /\ b[1] \in Int /\ c[1] \in Int
    <3>1. 1 \in 1 .. Len(a) /\ 1 \in 1 .. Len(b) /\ 1 \in 1 .. Len(c)
      BY <2>2
    <3> QED
      BY <2>2, <3>1, ElementOfSeq
  <2>5. a[1] <= b[1]
    <3>1. Precedes(a, b) \/ a = b
      <4>1. Precedes(a \o s, b \o t)
        BY <1>4, <2>3
      <4>2. Precedes(a \o s, b \o t) <=> Precedes(a, b) \/ (a = b /\ Precedes(s, t))
        BY <2>2, PrecedesPrefix
      <4> QED
        BY <4>1, <4>2
    <3>2. Len(a) >= 1 /\ Len(b) >= 1
      BY <2>2
    <3>3. b[1] < a[1] => ~Precedes(a, b)
      BY <2>2, <3>2, LargerHead
    <3> QED
      BY <2>4, <3>1, <3>3
  <2>6. a[1] < c[1]
    BY <2>1, <2>4, <2>5
  <2>7. Precedes(a, c)
    <3>1. DOMAIN a = 1 .. 4
      BY <2>2, LenProperties
    <3>2. 1 \in 1 .. 4 /\ 1 .. (1 - 1) = {}
      OBVIOUS
    <3> QED
      BY <2>6, <3>1, <3>2, Zenon DEF Precedes
  <2>8. Precedes(a \o s, c \o u)
    BY <2>2, <2>7, PrecedesPrefix
  <2> QED
    BY <2>3, <2>8
<1>5. r \in Foremost(n, f) /\ q \in DOMAIN f
  BY <1>1, <1>2
<1>6. \A p \in DOMAIN f : Precedes(f[p], f[q]) => p \in DOMAIN f /\ Precedes(f[p], f[r])
  BY <1>2, <1>4
<1>7. q \in Foremost(n, f)
  BY <1>2, <1>5, <1>6, KeepsPlace
<1> QED
  BY <1>1, <1>7

LEMMA SlicesHold == FleetInv => HybridSlices
<1> SUFFICES ASSUME FleetInv, phase = "end", This.policy = "hybrid" PROVE HybridSlices
  BY DEF HybridSlices
<1> DEFINE granted == Assign("hybrid", Ready)
<1>1. NCores \in Nat
  BY ConfigType DEF FleetInv, FleetType
<1>2. UrgentJobs \subseteq Ready /\ IsFiniteSet(Ready) /\ IsFiniteSet(UrgentJobs)
  BY UrgentReady, ReadyFinite, FS_Subset
<1>3. PICK f, g, h : /\ f = HybridOrder(Ready) /\ g = UnsafeOrder(UrgentJobs)
                     /\ h = ComfortOrder(Ready)
  OBVIOUS
<1>4. DOMAIN f = Ready /\ DOMAIN g = UrgentJobs /\ DOMAIN h = Ready
  BY <1>3 DEF HybridOrder, UnsafeOrder, ComfortOrder
<1>5. granted = Foremost(NCores, f)
  <2>1. CASE Ready = {} \/ NCores = 0
    <3>1. granted = {}
      BY <2>1 DEF Assign
    <3>2. Foremost(NCores, f) = {}
      <4>1. CASE Ready = {}
        BY <1>4, <4>1 DEF Foremost
      <4>2. CASE NCores = 0
        BY <1>2, <1>4, <4>2, NoCore
      <4> QED
        BY <2>1, <4>1, <4>2
    <3> QED
      BY <3>1, <3>2
  <2>2. CASE ~(Ready = {} \/ NCores = 0)
    BY <1>3, <2>2, HybridServes DEF Assign
  <2> QED
    BY <2>1, <2>2
<1> HIDE DEF granted
<1>6. granted \subseteq Ready
  BY <1>4, <1>5 DEF Foremost
<1>7. granted \cap UrgentJobs = TimeToUnsafe(UrgentJobs, NCores, ctx)
  <2>1. /\ DOMAIN g \subseteq DOMAIN f
        /\ \A r \in DOMAIN g, q \in DOMAIN f :
             Precedes(f[q], f[r]) <=> q \in DOMAIN g /\ Precedes(g[q], g[r])
    BY <1>2, <1>3, <1>4, UrgentOrder
  <2>2. Foremost(NCores, f) \cap DOMAIN g = Foremost(NCores, g)
    BY <2>1, SameForemost
  <2> QED
    BY <1>3, <1>4, <1>5, <2>2, UnsafeServes
<1>8. ASSUME UrgentJobs \cup ForsakenJobs = {} PROVE granted = Assign("context", Ready)
  <2>1. /\ DOMAIN h \subseteq DOMAIN f
        /\ \A r \in DOMAIN h, q \in DOMAIN f :
             Precedes(f[q], f[r]) <=> q \in DOMAIN h /\ Precedes(h[q], h[r])
    BY <1>3, <1>4, <1>8, ComfortableOrder
  <2>2. Foremost(NCores, f) \cap DOMAIN h = Foremost(NCores, h)
    BY <2>1, SameForemost
  <2>3. granted = Foremost(NCores, h)
    BY <1>4, <1>5, <1>6, <2>2
  <2>4. CASE Ready = {} \/ NCores = 0
    <3>1. Assign("context", Ready) = {}
      BY <2>4 DEF Assign
    <3>2. granted = {}
      BY <2>4 DEF granted, Assign
    <3> QED
      BY <3>1, <3>2
  <2>5. CASE ~(Ready = {} \/ NCores = 0)
    <3>1. Assign("context", Ready) = ContextAware(Ready, NCores, ctx)
      BY <2>5 DEF Assign
    <3> QED
      BY <1>3, <2>3, <3>1, ComfortServes
  <2> QED
    BY <2>4, <2>5
<1>9. ASSUME NEW r \in granted \ UrgentJobs, NEW q \in UrgentJobs PROVE q \in granted
  <2>1. q \in Ready /\ r \in Ready
    BY <1>2, <1>6
  <2>2. HybridHead(q.vehicle)[1] = 0 /\ HybridHead(r.vehicle)[1] \in {1, 2}
    BY <2>1, HybridTier
  <2>3. HybridHead(q.vehicle)[1] < HybridHead(r.vehicle)[1]
    BY <2>2
  <2> QED
    BY <1>1, <1>3, <1>5, <2>1, <2>3, BetterTier
<1>10. ASSUME NEW r \in granted \cap ForsakenJobs, NEW q \in Ready \ ForsakenJobs
       PROVE  q \in granted
  <2>1. q \in Ready /\ r \in Ready
    BY <1>6
  <2>2. HybridHead(r.vehicle)[1] = 2 /\ HybridHead(q.vehicle)[1] \in {0, 1}
    BY <2>1, HybridTier
  <2>3. HybridHead(q.vehicle)[1] < HybridHead(r.vehicle)[1]
    BY <2>2
  <2> QED
    BY <1>1, <1>3, <1>5, <2>1, <2>3, BetterTier
<1> QED
  BY <1>7, <1>8, <1>9, <1>10 DEF HybridSlices, granted

\* Hybrid.cpp:5-20: Hybrid slices the cores between two simpler policies.  The jobs of cars
\* below the guard are served first and as TimeToUnsafe would serve them alone; with none of
\* them, and no car given up, Hybrid is ContextAware; cars given up get what is left.
THEOREM HybridIsSliced == FrontierSpec => []HybridSlices
<1>1. FleetInv => HybridSlices
  BY SlicesHold
<1> QED
  BY <1>1, FleetInvariant, PTL

-----------------------------------------------------------------------------
(* The work of the tasks *)

\* The ticks that t's job has yet to work.
Left(t) == IF job[t].active THEN job[t].execTicks - job[t].ranTicks ELSE 0

\* A job is at most its longest execution time from done, and a run has time only for the
\* tasks of its task set.
WorkInv ==
  /\ step <= This.duration /\ (phase = "end" => step < This.duration)
  /\ \A t \in Task :
       /\ job[t].active => /\ job[t].ranTicks < job[t].execTicks
                           /\ job[t].execTicks <= Wcet(This, t)
       /\ t \notin TaskSet(This) => ~job[t].active /\ This.duration < job[t].nextRelease

\* There are finitely many tasks.
LEMMA TaskFinite == IsFiniteSet(Task)
<1>1. IsFiniteSet(Vehicle)
  BY FleetAssumption, FS_Interval DEF Vehicle
<1>2. IsFiniteSet(CloudKind)
  <2>1. CloudKind = {"Estimator", "Controller", "Feedforward", "Merger"}
    BY DEF CloudKind, KindRank
  <2>2. CloudKind = (({} \cup {"Estimator"}) \cup {"Controller"})
                    \cup (({} \cup {"Feedforward"}) \cup {"Merger"})
    BY <2>1
  <2>3. IsFiniteSet({"Estimator"}) /\ IsFiniteSet({"Controller"}) /\ IsFiniteSet({})
        /\ IsFiniteSet({"Feedforward"}) /\ IsFiniteSet({"Merger"})
    BY FS_Singleton, FS_EmptySet
  <2>4. IsFiniteSet({} \cup {"Estimator"}) /\ IsFiniteSet({} \cup {"Feedforward"})
    BY <2>3, FS_Union
  <2>5. IsFiniteSet(({} \cup {"Estimator"}) \cup {"Controller"})
        /\ IsFiniteSet(({} \cup {"Feedforward"}) \cup {"Merger"})
    BY <2>3, <2>4, FS_Union
  <2> QED
    BY <2>2, <2>5, FS_Union
<1> QED
  BY <1>1, <1>2, FS_Product DEF Task

\* The longest execution time bounds every one that may be drawn.
LEMMA WcetIs ==
  ASSUME conf \in DOMAIN Config, NEW t \in Task
  PROVE  /\ Wcet(This, t) \in Nat /\ Wcet(This, t) >= 2
         /\ \A x \in ExecTicks[t[2]] : x \in Nat /\ x >= 2 /\ x <= Wcet(This, t)
<1> DEFINE E == This.execTicks[t[2]]
<1>1. t[2] \in CloudKind /\ This.execTicks \in [CloudKind -> (SUBSET (Nat \ {0, 1})) \ {{}}]
  BY TaskParts, FleetAssumption DEF This, Configuration
<1>2. IsFiniteSet(E)
  BY <1>1, FleetAssumption, Zenon DEF This
<1>8. \A f : f \in [CloudKind -> (SUBSET (Nat \ {0, 1})) \ {{}}] =>
         \A k \in CloudKind : f[k] # {} /\ \A x \in f[k] : x \in Nat /\ x >= 2
  OBVIOUS
<1>9. E # {} /\ \A x \in E : x \in Nat /\ x >= 2
  BY <1>1, <1>8, Zenon
<1> HIDE DEF E
<1>3. PICK w : w = CHOOSE x \in E : \A y \in E : y <= x
  OBVIOUS
<1>4. \E x \in E : \A y \in E : y <= x
  <2>1. E \in SUBSET Int
    BY <1>9
  <2> QED
    BY <1>2, <1>9, <2>1, GreatestExists
<1>5. w \in E /\ \A y \in E : y <= w
  BY <1>3, <1>4
<1>6. Wcet(This, t) = w
  BY <1>3 DEF Wcet, E
<1>7. ExecTicks[t[2]] = E
  BY DEF E, ExecTicks
<1> QED
  BY <1>5, <1>6, <1>7, <1>9

\* At first no job is active.
LEMMA WorkStart == Init => WorkInv
<1> SUFFICES ASSUME Init PROVE WorkInv
  OBVIOUS
<1>1. PICK offset \in This.offsets :
        job = [t \in Task |-> [release |-> 0, nextRelease |-> offset[t], active |-> FALSE,
                               execTicks |-> 0, ranTicks |-> 0, band |-> 1]]
  BY DEF Init
<1>2. conf \in DOMAIN Config /\ offset \in [Task -> Nat] /\ This.duration \in Nat
  BY <1>1, ConfigType DEF Init
<1>3. ASSUME NEW t \in Task
      PROVE  /\ ~job[t].active
             /\ t \notin TaskSet(This) => This.duration < job[t].nextRelease
  BY <1>1, <1>2 DEF TaskSet
<1> QED
  BY <1>2, <1>3 DEF Init, WorkInv

\* What a tick's releases do to a task of which no job is late.
Begun(t) ==
  \/ /\ step < job[t].nextRelease /\ Left(t)' = Left(t)
     /\ job'[t].nextRelease = job[t].nextRelease
  \/ /\ step = job[t].nextRelease /\ Left(t) = 0
     /\ Left(t)' \in 2 .. Wcet(This, t)
     /\ job'[t].nextRelease = job[t].nextRelease + Period[t[2]]

LEMMA WorkBegin ==
  ASSUME FleetInv, WorkInv, BeginTick
  PROVE  WorkInv' /\ \A t \in Task : ~Late(t) => Begun(t)
<1>1. /\ conf \in DOMAIN Config /\ conf' = conf /\ step \in Nat /\ step' = step
      /\ phase = "begin" /\ phase' = "end" /\ job \in [Task -> Job]
      /\ This' = This /\ Period' = Period /\ step < This.duration
      /\ This.duration \in Nat
  BY ConfigType DEF FleetInv, FleetType, BeginTick, This, Period
<1>2. PICK exec \in Samples :
        job' = [t \in Task |->
                  ReleaseIfDue(t, IF t \in Releasing THEN exec[t] ELSE 0,
                               ctx'[t[1]].zoneFlagged)]
  BY DEF BeginTick
<1>3. ASSUME NEW t \in Task
      PROVE  /\ job'[t].active => /\ job'[t].ranTicks < job'[t].execTicks
                                  /\ job'[t].execTicks <= Wcet(This, t)
             /\ t \notin TaskSet(This) => ~job'[t].active /\ This.duration < job'[t].nextRelease
             /\ ~Late(t) => Begun(t)
  <2>1. /\ job[t].nextRelease \in Nat /\ step <= job[t].nextRelease
        /\ job[t] \in Job /\ Period[t[2]] \in Nat \ {0} /\ t[2] \in CloudKind
    BY <1>1, FleetJob, TaskParts, ConfigType DEF FleetInv, JobOnTime
  <2>2. /\ job[t].active => /\ job[t].ranTicks < job[t].execTicks
                            /\ job[t].execTicks <= Wcet(This, t)
        /\ t \notin TaskSet(This) => ~job[t].active /\ This.duration < job[t].nextRelease
    BY DEF WorkInv
  <2>3. CASE step < job[t].nextRelease
    <3>1. job'[t] = job[t]
      BY <1>1, <1>2, <2>1, <2>3 DEF ReleaseIfDue, Late
    <3> QED
      BY <2>2, <2>3, <3>1 DEF Begun, Left
  <2>4. CASE ~(step < job[t].nextRelease) /\ Late(t) /\ This.overrun = "SkipNext"
    <3>1. job'[t] = [job[t] EXCEPT !.nextRelease = @ + Period[t[2]]]
      BY <1>2, <2>4 DEF ReleaseIfDue
    <3>2. /\ job'[t].active = job[t].active /\ job'[t].ranTicks = job[t].ranTicks
          /\ job'[t].execTicks = job[t].execTicks
      BY <2>1, <3>1 DEF Job
    <3>3. job[t].active
      BY <2>4 DEF Late
    <3> QED
      BY <2>2, <2>4, <3>2, <3>3
  <2>5. CASE ~(step < job[t].nextRelease) /\ ~(Late(t) /\ This.overrun = "SkipNext")
    <3>1. t \in Releasing
      BY <1>1, <2>1, <2>5 DEF Releasing
    <3>2. job'[t] = Released(t, exec[t], ctx'[t[1]].zoneFlagged)
      BY <1>2, <2>5, <3>1 DEF ReleaseIfDue
    <3>3. exec[t] \in ExecTicks[t[2]]
      BY <3>1 DEF Samples
    <3>4. exec[t] \in Nat /\ exec[t] >= 2 /\ exec[t] <= Wcet(This, t) /\ Wcet(This, t) \in Nat
      BY <1>1, <3>3, WcetIs
    <3>5. /\ job'[t].nextRelease = job[t].nextRelease + Period[t[2]] /\ job'[t].active
          /\ job'[t].execTicks = exec[t] /\ job'[t].ranTicks = 0
      BY <3>2 DEF Released
    <3>6. t \in TaskSet(This)
      BY <1>1, <2>1, <2>2, <2>5
    <3>7. ~Late(t) => Begun(t)
      <4>1. ~Late(t) => ~job[t].active
        BY <1>1, <2>1, <2>5 DEF Late
      <4>2. Left(t)' = exec[t]
        BY <3>4, <3>5 DEF Left
      <4>3. step = job[t].nextRelease
        BY <1>1, <2>1, <2>5
      <4>4. exec[t] \in 2 .. Wcet(This, t)
        BY <3>4
      <4> QED
        BY <3>5, <4>1, <4>2, <4>3, <4>4 DEF Begun, Left
    <3> QED
      BY <3>4, <3>5, <3>6, <3>7
  <2> QED
    BY <2>3, <2>4, <2>5
<1>4. \A t \in Task : Wcet(This, t)' = Wcet(This, t)
  BY <1>1 DEF Wcet
<1>5. TaskSet(This)' = TaskSet(This)
  BY <1>1 DEF TaskSet
<1> QED
  BY <1>1, <1>3, <1>4, <1>5 DEF WorkInv

\* A tick of the cores.
Given(t, chosen) ==
  /\ Left(t)' = IF t \in Tasks(chosen) THEN Left(t) - 1 ELSE Left(t)
  /\ t \in Tasks(chosen) => Left(t) >= 1
  /\ job'[t].nextRelease = job[t].nextRelease

\* A policy takes one tick from what is left of each job that it serves.
LEMMA WorkGrant ==
  ASSUME FleetInv, WorkInv, NEW chosen, chosen \subseteq Ready, Grant(chosen)
  PROVE  WorkInv' /\ \A t \in Task : Given(t, chosen)
<1>1. /\ conf \in DOMAIN Config /\ conf' = conf /\ step \in Nat /\ step' = step + 1
      /\ phase = "end" /\ phase' = "begin" /\ job \in [Task -> Job]
      /\ This' = This /\ Period' = Period /\ step < This.duration /\ This.duration \in Nat
      /\ job' = [t \in Task |-> IF t \in Tasks(chosen) THEN Worked(job[t]) ELSE job[t]]
  BY ConfigType DEF FleetInv, FleetType, Grant, This, Period, WorkInv
<1>2. ASSUME NEW t \in Task
      PROVE  /\ job'[t].active => /\ job'[t].ranTicks < job'[t].execTicks
                                  /\ job'[t].execTicks <= Wcet(This, t)
             /\ t \notin TaskSet(This) => ~job'[t].active /\ This.duration < job'[t].nextRelease
             /\ Given(t, chosen)
  <2>1. job[t] \in Job /\ job[t].ranTicks \in Nat /\ job[t].execTicks \in Nat
    BY <1>1, FleetJob
  <2>2. /\ job[t].active => /\ job[t].ranTicks < job[t].execTicks
                            /\ job[t].execTicks <= Wcet(This, t)
        /\ t \notin TaskSet(This) => ~job[t].active /\ This.duration < job[t].nextRelease
    BY DEF WorkInv
  <2>3. CASE t \in Tasks(chosen)
    <3>1. job'[t] = [job[t] EXCEPT !.ranTicks = @ + 1,
                                   !.active = job[t].ranTicks + 1 < job[t].execTicks]
      BY <1>1, <2>3 DEF Worked
    <3>2. job[t].active
      BY <2>3, GrantedActive
    <3>3. /\ job'[t].nextRelease = job[t].nextRelease /\ job'[t].ranTicks = job[t].ranTicks + 1
          /\ job'[t].execTicks = job[t].execTicks
          /\ job'[t].active = (job[t].ranTicks + 1 < job[t].execTicks)
      <4>1. {"nextRelease", "execTicks", "ranTicks", "active"} \subseteq DOMAIN job[t]
        BY <2>1 DEF Job
      <4> QED
        BY <3>1, <4>1
    <3>4. Left(t) = job[t].execTicks - job[t].ranTicks /\ Left(t) >= 1
      BY <2>1, <2>2, <3>2 DEF Left
    <3>5. Left(t)' = Left(t) - 1
      <4>1. Left(t)' = IF job[t].ranTicks + 1 < job[t].execTicks
                         THEN job[t].execTicks - (job[t].ranTicks + 1) ELSE 0
        BY <3>3 DEF Left
      <4> QED
        BY <2>1, <2>2, <3>2, <3>4, <4>1
    <3> QED
      BY <2>2, <2>3, <3>2, <3>3, <3>4, <3>5 DEF Given
  <2>4. CASE t \notin Tasks(chosen)
    <3>1. job'[t] = job[t]
      BY <1>1, <2>4
    <3> QED
      BY <2>2, <2>4, <3>1 DEF Given, Left
  <2> QED
    BY <2>3, <2>4
<1>3. \A t \in Task : Wcet(This, t)' = Wcet(This, t)
  BY <1>1 DEF Wcet
<1>4. TaskSet(This)' = TaskSet(This)
  BY <1>1 DEF TaskSet
<1>5. step' <= This.duration
  BY <1>1
<1> QED
  BY <1>1, <1>2, <1>3, <1>4, <1>5 DEF WorkInv

-----------------------------------------------------------------------------
(* One core that is kept busy by all the tasks of a run, or by those of a vehicle *)

\* The configuration's longest execution times and periods, of each task of a set.
Wcets(S) == [t \in S |-> Wcet(This, t)]
Periods(S) == [t \in S |-> Period[t[2]]]
Hyper(S) == ProductSet({Period[t[2]] : t \in S})
Share(S) == [t \in S |-> Wcet(This, t) * (Hyper(S) \div Period[t[2]])]

\* So are the periods of a set of tasks.
LEMMA PeriodsFinite ==
  ASSUME NEW S \in SUBSET Task
  PROVE  IsFiniteSet({Period[t[2]] : t \in S})
<1> DEFINE f == [t \in S |-> Period[t[2]]]
           A == {Period[t[2]] : t \in S}
<1>1. IsFiniteSet(S)
  BY TaskFinite, FS_Subset
<1>2. f \in Surjection(S, A)
  BY DEF Surjection
<1> HIDE DEF f, A
<1>3. IsFiniteSet(A)
  BY <1>1, <1>2, FS_Surjection
<1> QED
  BY <1>3 DEF A

\* A sum as the fleet's definition takes it.
LEMMA SharesSum ==
  ASSUME conf \in DOMAIN Config, NEW S \in SUBSET Task
  PROVE  /\ Share(S) \in [S -> Int]
         /\ MapThenSumSet(LAMBDA t : Wcet(This, t) * (Hyper(S) \div Period[t[2]]), S)
              = SumOver(Share(S), S)
<1> DEFINE Pick(s) == CHOOSE x \in s : TRUE
           W(x) == Wcet(This, x) * (Hyper(S) \div Period[x[2]])
           Body(g) == [s \in SUBSET S |-> IF s = {} THEN 0
                         ELSE LET x == Pick(s) IN W(x) + g[s \ {x}]]
           iter == CHOOSE g : g = Body(g)
           c == Share(S)
<1>1. MapThenSumSet(LAMBDA t : Wcet(This, t) * (Hyper(S) \div Period[t[2]]), S) = iter[S]
  BY Zenon DEF MapThenSumSet, MapThenFoldSet
<1> HIDE DEF Pick, W
<1>0. ASSUME NEW s, s # {} PROVE Pick(s) \in s
  BY <1>0 DEF Pick
<1>2. \A t \in S : t \in Task /\ c[t] = W(t)
  BY DEF Share, W
<1>3. c \in [S -> Int]
  <2>1. PICK A : A = {Period[t[2]] : t \in S}
    OBVIOUS
  <2>2. \A t \in S : Period[t[2]] \in Nat \ {0} /\ Wcet(This, t) \in Nat
    BY ConfigType, TaskParts, WcetIs
  <2>3. A \in SUBSET (Nat \ {0}) /\ IsFiniteSet(A)
    BY <2>1, <2>2, PeriodsFinite
  <2>4. PICK H \in Nat \ {0} : H = ProductSet(A)
    BY <2>3, ProductDivides
  <2>5. \A a \in Nat \ {0} : H \div a \in Nat
    OBVIOUS
  <2>6. \A t \in S : Wcet(This, t) * (H \div Period[t[2]]) \in Int
    <3>1. \A w \in Nat, q \in Nat : w * q \in Int
      OBVIOUS
    <3> QED
      BY <2>2, <2>5, <3>1
  <2>7. c = [t \in S |-> Wcet(This, t) * (H \div Period[t[2]])]
    BY <2>1, <2>4, Zenon DEF Share, Hyper
  <2> QED
    BY <2>6, <2>7
<1> HIDE DEF c
<1>4. IsFiniteSet(S)
  BY TaskFinite, FS_Subset
<1>5. PICK g : IsSum(g, c, S) /\ SumOver(c, S) = g[S]
  BY <1>3, <1>4, SumIs
<1>6. ASSUME NEW s \in SUBSET S, s # {}
      PROVE  /\ s \ {Pick(s)} \in SUBSET S /\ Pick(s) \in s
             /\ g[s] = W(Pick(s)) + g[s \ {Pick(s)}]
  <2>1. PICK x : x = Pick(s) /\ x \in s /\ x \in S
    BY <1>0, <1>6
  <2>2. s \ {x} \in SUBSET S
    OBVIOUS
  <2>3. PICK a \in Int, b \in Int : a = g[s \ {x}] /\ b = c[x] /\ b = W(x)
    BY <1>2, <1>3, <1>5, <2>1, <2>2 DEF IsSum
  <2>4. g[s] = a + b
    BY <1>5, <2>1, <2>3 DEF IsSum, Adds
  <2>5. a + b = b + a
    OBVIOUS
  <2> QED
    BY <2>1, <2>2, <2>3, <2>4, <2>5
<1>7. g = Body(g)
  <2>1. \A s \in SUBSET S : g[s] = IF s = {} THEN 0 ELSE W(Pick(s)) + g[s \ {Pick(s)}]
    BY <1>5, <1>6 DEF IsSum
  <2>2. g = [s \in SUBSET S |-> g[s]]
    BY <1>5 DEF IsSum
  <2> QED
    BY <2>1, <2>2
<1> HIDE DEF Body
<1>8. iter = Body(iter)
  BY <1>7
<1> HIDE DEF iter
<1>9. \A s \in SUBSET S : iter[s] = IF s = {} THEN 0 ELSE W(Pick(s)) + iter[s \ {Pick(s)}]
  BY <1>8 DEF Body
<1> DEFINE G == {s \in SUBSET S : iter[s] = g[s]}
<1>10. {} \in G
  BY <1>5, <1>9 DEF IsSum
<1>11. ASSUME NEW s \in SUBSET S, s # {}, \A x \in s : s \ {x} \in G PROVE s \in G
  <2>1. iter[s \ {Pick(s)}] = g[s \ {Pick(s)}]
    BY <1>6, <1>11
  <2>2. iter[s] = W(Pick(s)) + iter[s \ {Pick(s)}]
    BY <1>9, <1>11
  <2> QED
    BY <1>6, <1>11, <2>1, <2>2
<1> HIDE DEF G
<1>12. \A s \in SUBSET S : s \in G
  BY <1>4, <1>10, <1>11, EverySubset
<1>13. iter[S] = g[S]
  BY <1>12 DEF G
<1> QED
  BY <1>1, <1>3, <1>5, <1>13 DEF c

\* A utilisation of at most one, in the terms of DemandWithin.
LEMMA FleetFits ==
  ASSUME conf \in DOMAIN Config, NEW S \in SUBSET Task, FitsOneCore(This, S)
  PROVE  FitsIn(S, Wcets(S), Periods(S), Hyper(S), Share(S))
<1>1. \A t \in S : Period[t[2]] \in Nat \ {0} /\ Wcet(This, t) \in Nat
  BY ConfigType, TaskParts, WcetIs
<1>2. PICK A : A = {Period[t[2]] : t \in S}
  OBVIOUS
<1>3. A \in SUBSET (Nat \ {0}) /\ IsFiniteSet(A)
  BY <1>1, <1>2, PeriodsFinite
<1>4. PICK H \in Nat \ {0} : H = ProductSet(A) /\ \A a \in A : \E q \in Nat : H = a * q
  BY <1>3, ProductDivides
<1>5. Hyper(S) = H
  BY <1>2, <1>4 DEF Hyper
<1>6. ASSUME NEW t \in S
      PROVE  \E q \in Nat : H = Period[t[2]] * q /\ Share(S)[t] = Wcet(This, t) * q
  <2>1. PICK p \in Nat \ {0} : p = Period[t[2]] /\ p \in A
    BY <1>1, <1>2
  <2>2. PICK q \in Nat : H = p * q
    BY <1>4, <2>1
  <2>3. H \div p = q
    <3>1. H = p * q + 0 /\ 0 \in 0 .. p - 1
      BY <2>2
    <3> QED
      BY <3>1, <2>1, Quotient, H \in Int, q \in Int
  <2> QED
    BY <1>5, <2>1, <2>2, <2>3 DEF Share
<1>7. SumOver(Share(S), S) <= H
  <2>1. MapThenSumSet(LAMBDA t : Wcet(This, t) * (Hyper(S) \div Period[t[2]]), S) <= Hyper(S)
    BY DEF FitsOneCore, Hyper, Period
  <2> QED
    BY <1>5, <2>1, SharesSum
<1>8. Wcets(S) \in [S -> Nat] /\ Periods(S) \in [S -> Nat \ {0}]
      /\ \A t \in S : Wcets(S)[t] = Wcet(This, t) /\ Periods(S)[t] = Period[t[2]]
  BY <1>1 DEF Wcets, Periods
<1> QED
  BY <1>5, <1>6, <1>7, <1>8, SharesSum DEF FitsIn

-----------------------------------------------------------------------------
(* Earliest deadline first *)

\* The work of t that has to be done by tick d: of its job, and of those that are due by then.
Due(t, d) ==
  IF d < job[t].nextRelease THEN 0
  ELSE Left(t) + Wcet(This, t) * ((d - job[t].nextRelease) \div Period[t[2]])

Demand(S, d) == SumOver([t \in S |-> Due(t, d)], S)

\* On one core there is room until every deadline for what has to be done by it.
EdfInv ==
  (This.policy = "edf" /\ NCores = 1 /\ FitsOneCore(This, TaskSet(This))) =>
    /\ missed = {}
    /\ \A d \in Nat : step <= d => Demand(TaskSet(This), d) <= d - step

\* What is left of a job, and when its deadline is.
LEMMA LeftType ==
  ASSUME FleetInv, WorkInv, NEW t \in Task
  PROVE  /\ Left(t) \in Nat /\ (Left(t) > 0 <=> job[t].active) /\ Left(t) <= Wcet(This, t)
         /\ job[t].nextRelease \in Nat /\ Period[t[2]] \in Nat \ {0}
         /\ Wcet(This, t) \in Nat /\ Wcet(This, t) >= 2
         /\ step \in Nat /\ (IF phase = "end" THEN step + 1 ELSE step) <= job[t].nextRelease
<1>1. job[t] \in Job /\ job[t].ranTicks \in Nat /\ job[t].execTicks \in Nat
      /\ job[t].nextRelease \in Nat /\ step \in Nat
  BY FleetJob DEF FleetInv, FleetType
<1>2. Wcet(This, t) \in Nat /\ Wcet(This, t) >= 2 /\ Period[t[2]] \in Nat \ {0}
  BY WcetIs, ConfigType, TaskParts DEF FleetInv, FleetType
<1>3. job[t].active => job[t].ranTicks < job[t].execTicks /\ job[t].execTicks <= Wcet(This, t)
  BY DEF WorkInv
<1>4. (IF phase = "end" THEN step + 1 ELSE step) <= job[t].nextRelease
  BY DEF FleetInv, JobOnTime
<1>5. CASE job[t].active
  BY <1>1, <1>2, <1>3, <1>4, <1>5 DEF Left
<1>6. CASE ~job[t].active
  BY <1>1, <1>2, <1>4, <1>6 DEF Left
<1> QED
  BY <1>5, <1>6

\* Work that is due is a number of ticks.
LEMMA DueType ==
  ASSUME FleetInv, WorkInv, NEW t \in Task, NEW d \in Nat
  PROVE  Due(t, d) \in Nat
<1>1. CASE d < job[t].nextRelease
  BY <1>1 DEF Due
<1>2. CASE ~(d < job[t].nextRelease)
  <2>1. PICK n \in Nat, p \in Nat \ {0}, l \in Nat, w \in Nat :
          n = d - job[t].nextRelease /\ p = Period[t[2]] /\ l = Left(t) /\ w = Wcet(This, t)
    BY <1>2, LeftType
  <2>2. PICK q \in Nat : q = n \div p
    BY <2>1, Fits
  <2>3. l + w * q \in Nat
    BY <2>1, <2>2
  <2> QED
    BY <1>2, <2>1, <2>2, <2>3 DEF Due
<1> QED
  BY <1>1, <1>2

\* A release demands nothing that was not expected.
LEMMA DueBegun ==
  ASSUME FleetInv, WorkInv, NEW t \in Task, Begun(t), NEW d \in Nat, step <= d,
         This' = This, Period' = Period
  PROVE  Due(t, d)' \in Nat /\ Due(t, d)' <= Due(t, d)
<1>1. PICK n \in Nat, p \in Nat \ {0}, l \in Nat, w \in Nat :
        /\ n = job[t].nextRelease /\ p = Period[t[2]] /\ l = Left(t) /\ w = Wcet(This, t)
        /\ p = Period[t[2]]' /\ w = Wcet(This, t)'
  BY LeftType DEF Wcet
<1>2. Due(t, d) = IF d < n THEN 0 ELSE l + w * ((d - n) \div p)
  BY <1>1 DEF Due
<1>3. CASE step < n /\ Left(t)' = l /\ job'[t].nextRelease = n
  <2>1. Due(t, d)' = IF d < n THEN 0 ELSE l + w * ((d - n) \div p)
    BY <1>1, <1>3 DEF Due
  <2> QED
    BY <1>2, <2>1, DueType
<1>4. CASE step = n /\ l = 0 /\ Left(t)' \in 2 .. w /\ job'[t].nextRelease = n + p
  <2>1. PICK e \in 2 .. w : e = Left(t)'
    BY <1>4
  <2>2. Due(t, d)' = IF d < n + p THEN 0 ELSE e + w * ((d - (n + p)) \div p)
    BY <1>1, <1>4, <2>1 DEF Due
  <2>3. PICK m \in Nat : m = d - n
    BY <1>4
  <2>4. CASE d < n + p
    BY <2>2, <2>4, DueType
  <2>5. CASE ~(d < n + p)
    <3>0. m >= p /\ m - p \in Nat
      BY <2>3, <2>5
    <3>1. m \div p = 1 + (m - p) \div p
      BY <3>0, Fits
    <3>2. PICK q \in Nat : q = (m - p) \div p
      BY <3>0, Fits
    <3>3. d - (n + p) = m - p
      BY <2>3
    <3>4. Due(t, d) = l + w * (1 + q)
      BY <1>2, <1>4, <2>3, <3>1, <3>2
    <3>5. Due(t, d)' = e + w * q
      BY <2>2, <2>5, <3>2, <3>3
    <3>6. w * (1 + q) = w + w * q /\ w * q \in Nat
      OBVIOUS
    <3> QED
      BY <1>4, <2>1, <3>4, <3>5, <3>6
  <2> QED
    BY <2>4, <2>5
<1> QED
  BY <1>1, <1>3, <1>4 DEF Begun

\* The tasks of a run, of which there are finitely many, have their demands.
LEMMA DemandType ==
  ASSUME FleetInv, WorkInv, NEW S \in SUBSET Task, NEW d \in Nat
  PROVE  IsFiniteSet(S) /\ [t \in S |-> Due(t, d)] \in [S -> Int] /\ Demand(S, d) \in Int
<1>1. IsFiniteSet(S)
  BY TaskFinite, FS_Subset
<1>2. \A t \in S : Due(t, d) \in Int
  <2> SUFFICES ASSUME NEW t \in S PROVE Due(t, d) \in Int
    OBVIOUS
  <2>1. Due(t, d) \in Nat
    BY DueType
  <2> QED
    BY <2>1
<1>3. PICK c : c = [t \in S |-> Due(t, d)]
  OBVIOUS
<1>4. c \in [S -> Int]
  BY <1>2, <1>3
<1>5. SumOver(c, S) \in Int
  BY <1>1, <1>4, SumType
<1> QED
  BY <1>1, <1>3, <1>4, <1>5 DEF Demand

\* Among the jobs with the earliest deadline is one that Edf serves.
LEMMA EdfServes ==
  ASSUME FleetInv, Ready # {}
  PROVE  \E t \in Tasks(Edf(Ready, 1)) :
           /\ t \in Task /\ job[t].active
           /\ \A u \in Task : job[u].active => job[t].nextRelease <= job[u].nextRelease
<1> DEFINE Rank(r) == KindRank[r.kind]
           Soonest == {r \in Ready : \A q \in Ready : r.deadlineStep <= q.deadlineStep}
           First == {r \in Soonest : \A q \in Soonest : r.vehicle <= q.vehicle}
           key == [r \in Ready |-> <<r.deadlineStep, r.vehicle, Rank(r)>>]
<1>1. ASSUME NEW r \in Ready
      PROVE  r.deadlineStep \in Nat /\ r.vehicle \in Nat /\ Rank(r) \in Nat
  <2>1. PICK t \in Task : r = ReadyJob(t)
    BY DEF Ready
  <2>2. job[t].nextRelease \in Nat /\ t[1] \in Vehicle /\ t[2] \in CloudKind
    BY FleetJob, TaskParts DEF FleetInv, FleetType
  <2>3. r.deadlineStep = job[t].nextRelease /\ r.vehicle = t[1] /\ r.kind = t[2]
    BY <2>1 DEF ReadyJob
  <2> QED
    BY <2>2, <2>3, FleetAssumption DEF Vehicle, CloudKind, KindRank
<1> HIDE DEF Rank
<1>2. Soonest # {}
  <2>1. PICK D : D = {r.deadlineStep : r \in Ready}
    OBVIOUS
  <2>2. D \subseteq Nat /\ D # {}
    BY <1>1, <2>1
  <2>3. PICK m \in D : \A k \in D : m <= k
    BY <2>2, LeastExists
  <2> QED
    BY <2>1, <2>3
<1>3. First # {}
  <2>1. PICK D : D = {r.vehicle : r \in Soonest}
    OBVIOUS
  <2>2. D \subseteq Nat /\ D # {}
    BY <1>1, <1>2, <2>1
  <2>3. PICK m \in D : \A k \in D : m <= k
    BY <2>2, LeastExists
  <2> QED
    BY <2>1, <2>3
<1>4. PICK r \in First : \A q \in First : Rank(r) <= Rank(q)
  <2>1. PICK D : D = {Rank(r) : r \in First}
    OBVIOUS
  <2>2. D \subseteq Nat /\ D # {}
    BY <1>1, <1>3, <2>1
  <2>3. PICK m \in D : \A k \in D : m <= k
    BY <2>2, LeastExists
  <2> QED
    BY <2>1, <2>3
<1>5. ASSUME NEW q \in Ready PROVE ~Precedes(key[q], key[r])
  <2>1. r \in Ready /\ \A p \in Ready : r.deadlineStep <= p.deadlineStep
    OBVIOUS
  <2>2. r \in Soonest /\ \A p \in Soonest : r.vehicle <= p.vehicle
    OBVIOUS
  <2>3. PICK a \in Nat, b \in Nat, c \in Nat :
          a = q.deadlineStep /\ b = q.vehicle /\ c = Rank(q) /\ key[q] = <<a, b, c>>
    BY <1>1
  <2>4. PICK x \in Nat, y \in Nat, z \in Nat :
          x = r.deadlineStep /\ y = r.vehicle /\ z = Rank(r) /\ key[r] = <<x, y, z>>
    BY <1>1, <2>1
  <2>5. x <= a /\ (x = a => y <= b) /\ (x = a /\ y = b => z <= c)
    <3>1. x <= a
      BY <2>1, <2>3, <2>4
    <3>2. x = a => q \in Soonest
      BY <2>1, <2>3, <2>4
    <3>3. x = a => y <= b
      BY <2>2, <2>3, <2>4, <3>2
    <3>4. x = a /\ y = b => q \in First
      BY <2>2, <2>3, <2>4, <3>2
    <3> QED
      BY <1>4, <2>3, <2>4, <3>1, <3>3, <3>4
  <2> HIDE DEF key
  <2>6. ASSUME Precedes(key[q], key[r]) PROVE FALSE
    <3>1. PICK i \in 1 .. 3 : /\ <<a, b, c>>[i] < <<x, y, z>>[i]
                              /\ \A j \in 1 .. (i - 1) : <<a, b, c>>[j] = <<x, y, z>>[j]
      BY <2>3, <2>4, <2>6 DEF Precedes
    <3>2. CASE i = 1
      BY <2>5, <3>1, <3>2
    <3>3. CASE i = 2
      <4>1. a = x /\ b < y
        BY <3>1, <3>3, 1 \in 1 .. (2 - 1)
      <4> QED
        BY <2>5, <4>1
    <3>4. CASE i = 3
      <4>1. a = x /\ b = y /\ c < z
        BY <3>1, <3>4, 1 \in 1 .. (3 - 1), 2 \in 1 .. (3 - 1)
      <4> QED
        BY <2>5, <4>1
    <3> QED
      BY <3>2, <3>3, <3>4
  <2> QED
    BY <2>6
<1>6. r \in Edf(Ready, 1)
  <2>1. Edf(Ready, 1) = Foremost(1, key)
    BY DEF Edf, Rank
  <2>2. {q \in DOMAIN key : Precedes(key[q], key[r])} = {}
    BY <1>5
  <2>3. r \in DOMAIN key
    OBVIOUS
  <2>4. Cardinality({}) < 1
    BY FS_EmptySet
  <2> HIDE DEF key
  <2> QED
    BY <2>1, <2>2, <2>3, <2>4 DEF Foremost
<1>7. PICK t \in Task : job[t].active /\ r = ReadyJob(t)
  BY DEF Ready
<1>8. t \in Tasks(Edf(Ready, 1))
  <2>1. t = <<r.vehicle, r.kind>>
    BY <1>7, TaskParts DEF ReadyJob
  <2> QED
    BY <1>6, <2>1 DEF Tasks
<1>9. ASSUME NEW u \in Task, job[u].active PROVE job[t].nextRelease <= job[u].nextRelease
  <2>1. ReadyJob(u) \in Ready
    BY <1>9 DEF Ready
  <2>2. r.deadlineStep <= ReadyJob(u).deadlineStep
    BY <2>1
  <2> QED
    BY <1>7, <2>2 DEF ReadyJob
<1> QED
  BY <1>7, <1>8, <1>9

\* What is late is also demanded.
LEMMA NothingLate ==
  ASSUME FleetInv, WorkInv, phase = "begin",
         \A d \in Nat : step <= d => Demand(TaskSet(This), d) <= d - step,
         NEW t \in Task
  PROVE  ~Late(t)
<1> SUFFICES ASSUME Late(t) PROVE FALSE
  OBVIOUS
<1>1. PICK S : S = TaskSet(This) /\ S \in SUBSET Task /\ t \in S
  BY DEF WorkInv, Late, TaskSet
<1>2. PICK n \in Nat : n = step /\ job[t].nextRelease = n
  BY LeftType DEF Late
<1>3. Due(t, n) >= 1
  <2>1. PICK p \in Nat \ {0}, w \in Nat, l \in Nat :
          p = Period[t[2]] /\ w = Wcet(This, t) /\ l = Left(t) /\ l > 0
    BY LeftType DEF Late
  <2>2. (n - n) \div p = 0
    <3>1. n - n \in Nat /\ n - n < p
      OBVIOUS
    <3> QED
      BY <3>1, Fits
  <2>3. Due(t, n) = l + w * 0
    BY <1>2, <2>1, <2>2 DEF Due
  <2> QED
    BY <2>1, <2>3
<1>4. PICK c : c = [u \in S |-> Due(u, n)]
  OBVIOUS
<1>5. IsFiniteSet(S) /\ c \in [S -> Int] /\ \A u \in S : 0 <= c[u]
  <2>1. \A u \in S : Due(u, n) \in Nat
    BY <1>1, DueType
  <2> QED
    BY <1>1, <1>4, <2>1, DemandType
<1>6. c[t] <= SumOver(c, S)
  BY <1>1, <1>5, SumBounds
<1>7. SumOver(c, S) <= n - n
  BY <1>1, <1>2, <1>4 DEF Demand
<1>8. SumOver(c, S) \in Int /\ c[t] = Due(t, n) /\ Due(t, n) \in Int
  BY <1>1, <1>4, <1>5, SumType
<1> QED
  BY <1>2, <1>3, <1>6, <1>7, <1>8

\* A run keeps its configuration.
LEMMA Configured ==
  ASSUME conf' = conf
  PROVE  /\ This' = This /\ NCores' = NCores /\ Period' = Period
         /\ TaskSet(This)' = TaskSet(This)
         /\ FitsOneCore(This, TaskSet(This))' = FitsOneCore(This, TaskSet(This))
<1>1. This' = This
  BY DEF This
<1>2. NCores' = NCores /\ Period' = Period
  BY <1>1 DEF NCores, Period
<1>3. TaskSet(This)' = TaskSet(This)
  BY <1>1
<1>4. FitsOneCore(This, TaskSet(This))' = FitsOneCore(This, TaskSet(This))
  BY <1>1
<1> QED
  BY <1>1, <1>2, <1>3, <1>4

\* Nor do the releases of a tick demand anything new of all the tasks together.
LEMMA DemandBegun ==
  ASSUME FleetInv, WorkInv, BeginTick, NEW S \in SUBSET Task, \A t \in S : Begun(t),
         NEW d \in Nat, step <= d
  PROVE  Demand(S, d)' <= Demand(S, d)
<1>1. This' = This /\ Period' = Period
  BY DEF BeginTick, This, Period
<1>2. \A t \in S : Due(t, d)' \in Nat /\ Due(t, d)' <= Due(t, d)
  BY <1>1, DueBegun
<1>3. PICK c : c = [t \in S |-> Due(t, d)]
  OBVIOUS
<1>4. PICK e : e = [t \in S |-> Due(t, d)']
  OBVIOUS
<1>5. IsFiniteSet(S) /\ c \in [S -> Int]
  BY <1>3, DemandType
<1>6. e \in [S -> Int] /\ \A t \in S : e[t] <= c[t]
  BY <1>2, <1>3, <1>4
<1>7. SumOver(e, S) <= SumOver(c, S)
  BY <1>5, <1>6, SumMonotone
<1>8. Demand(S, d)' = SumOver(e, S)
  BY <1>4 DEF Demand
<1> QED
  BY <1>3, <1>7, <1>8 DEF Demand

\* A tick's releases find nothing late and leave room for what is due.
LEMMA EdfBegin ==
  ASSUME FleetInv, WorkInv, EdfInv, BeginTick
  PROVE  EdfInv'
<1>1. This' = This /\ NCores' = NCores /\ TaskSet(This)' = TaskSet(This) /\ phase = "begin"
      /\ FitsOneCore(This, TaskSet(This))' = FitsOneCore(This, TaskSet(This))
      /\ step' = step /\ missed' = {t \in Task : Late(t)}
  BY Configured DEF BeginTick
<1> SUFFICES ASSUME This.policy = "edf", NCores = 1, FitsOneCore(This, TaskSet(This))
             PROVE  /\ missed' = {}
                    /\ \A d \in Nat : step <= d => Demand(TaskSet(This), d)' <= d - step
  BY <1>1 DEF EdfInv
<1>2. \A d \in Nat : step <= d => Demand(TaskSet(This), d) <= d - step
  BY DEF EdfInv
<1>3. \A t \in Task : ~Late(t)
  BY <1>1, <1>2, NothingLate
<1>4. \A t \in Task : Begun(t)
  BY <1>3, WorkBegin
<1>5. PICK S \in SUBSET Task : S = TaskSet(This)
  BY DEF TaskSet
<1>6. ASSUME NEW d \in Nat, step <= d PROVE Demand(TaskSet(This), d)' <= d - step
  <2>1. Demand(S, d)' <= Demand(S, d)
    BY <1>4, <1>6, DemandBegun
  <2>2. Demand(TaskSet(This), d)' = Demand(S, d)'
    BY <1>1, <1>5 DEF Demand
  <2>3. Demand(S, d) <= d - step
    BY <1>2, <1>5, <1>6
  <2>4. Demand(S, d) \in Int /\ step \in Nat
    BY DemandType DEF FleetInv, FleetType
  <2>5. Demand(S, d)' \in Int
    <3>1. PICK e : e = [t \in S |-> Due(t, d)']
      OBVIOUS
    <3>2. \A t \in S : Due(t, d)' \in Nat
      BY <1>1, <1>4, <1>6, DueBegun DEF BeginTick, Period
    <3>3. e \in [S -> Int] /\ IsFiniteSet(S)
      BY <3>1, <3>2, DemandType
    <3>4. SumOver(e, S) \in Int
      BY <3>3, SumType
    <3> QED
      BY <3>1, <3>4 DEF Demand
  <2> QED
    BY <2>1, <2>2, <2>3, <2>4, <2>5
<1> QED
  BY <1>1, <1>3, <1>6

\* A tick of a core takes one from what is demanded, if a job is served that is due.
LEMMA DueGiven ==
  ASSUME FleetInv, WorkInv, phase = "end", NEW chosen, NEW t \in Task, Given(t, chosen),
         NEW d \in Nat, step + 1 <= d, This' = This, Period' = Period
  PROVE  /\ Due(t, d)' \in Nat /\ Due(t, d)' <= Due(t, d)
         /\ t \in Tasks(chosen) /\ job[t].nextRelease <= d => Due(t, d)' = Due(t, d) - 1
         /\ Left(t) = 0 \/ d < job[t].nextRelease =>
              \E m \in Nat : /\ Due(t, d)' <= Wcet(This, t) * m
                             /\ Period[t[2]] * m <= d - (step + 1)
<1>1. PICK n \in Nat, p \in Nat \ {0}, l \in Nat, w \in Nat, s \in Nat :
        /\ n = job[t].nextRelease /\ p = Period[t[2]] /\ l = Left(t) /\ w = Wcet(This, t)
        /\ p = Period[t[2]]' /\ w = Wcet(This, t)' /\ s = step /\ s + 1 <= n
        /\ n = job'[t].nextRelease
  BY LeftType DEF Wcet, Given
<1>2. PICK k \in Nat : k = Left(t)' /\ k = (IF t \in Tasks(chosen) THEN l - 1 ELSE l)
                       /\ (t \in Tasks(chosen) => l >= 1)
  BY <1>1 DEF Given
<1>3. Due(t, d) = IF d < n THEN 0 ELSE l + w * ((d - n) \div p)
  BY <1>1 DEF Due
<1>4. Due(t, d)' = IF d < n THEN 0 ELSE k + w * ((d - n) \div p)
  BY <1>1, <1>2 DEF Due
<1>5. CASE d < n
  <2>1. Due(t, d) = 0 /\ Due(t, d)' = 0
    BY <1>3, <1>4, <1>5
  <2>2. 0 <= w * 0 /\ p * 0 <= d - (s + 1)
    BY <1>1
  <2> QED
    BY <1>1, <1>5, <2>1, <2>2
<1>6. CASE ~(d < n)
  <2>1. PICK m \in Nat : m = d - n
    BY <1>6
  <2>2. PICK q \in Nat : q = m \div p /\ p * q <= m
    BY Fits
  <2>3. w * q \in Nat
    OBVIOUS
  <2>4. Due(t, d) = l + w * q /\ Due(t, d)' = k + w * q
    BY <1>3, <1>4, <1>6, <2>1, <2>2
  <2>5. l = 0 => Due(t, d)' <= w * q /\ p * q <= d - (s + 1)
    <3>1. m <= d - (s + 1)
      BY <1>1, <2>1
    <3>2. l = 0 => k = 0
      BY <1>2
    <3>3. PICK y \in Nat, z \in Nat : y = w * q /\ z = p * q
      OBVIOUS
    <3> QED
      BY <1>1, <2>1, <2>2, <2>4, <3>1, <3>2, <3>3
  <2>6. Due(t, d)' \in Nat /\ Due(t, d)' <= Due(t, d)
        /\ (t \in Tasks(chosen) => Due(t, d)' = Due(t, d) - 1)
    BY <1>2, <2>3, <2>4
  <2> QED
    BY <1>1, <1>6, <2>5, <2>6
<1> QED
  BY <1>5, <1>6

\* A tick of work on what is due first leaves room for the rest; with nothing due, what
\* is to come fits because it is released periodically.
LEMMA EdfGrant ==
  ASSUME FleetInv, WorkInv, EdfInv, EndTick
  PROVE  EdfInv'
<1>1. This' = This /\ NCores' = NCores /\ TaskSet(This)' = TaskSet(This) /\ phase = "end"
      /\ FitsOneCore(This, TaskSet(This))' = FitsOneCore(This, TaskSet(This))
      /\ step' = step + 1 /\ missed' = missed /\ Period' = Period
  BY Configured DEF EndTick, Grant
<1> SUFFICES ASSUME This.policy = "edf", NCores = 1, FitsOneCore(This, TaskSet(This))
             PROVE  /\ missed = {}
                    /\ \A d \in Nat : step + 1 <= d =>
                         Demand(TaskSet(This), d)' <= d - (step + 1)
  BY <1>1 DEF EdfInv
<1>2. missed = {} /\ \A d \in Nat : step <= d => Demand(TaskSet(This), d) <= d - step
  BY DEF EdfInv
<1>3. PICK S \in SUBSET Task : S = TaskSet(This)
  BY DEF TaskSet
<1>4. PICK chosen : /\ chosen = Assign(This.policy, Ready)
                    /\ Grant(chosen) /\ chosen \subseteq Ready
                    /\ Ready # {} => chosen = Edf(Ready, 1)
  BY AssignReady DEF EndTick, Assign
<1>5. \A t \in Task : Given(t, chosen)
  BY <1>4, WorkGrant
<1>6. PICK s \in Nat : s = step
  BY DEF FleetInv, FleetType
<1>7. ASSUME NEW d \in Nat, step + 1 <= d PROVE Demand(TaskSet(This), d)' <= d - (step + 1)
  <2>1. PICK c : c = [t \in S |-> Due(t, d)]
    OBVIOUS
  <2>2. PICK e : e = [t \in S |-> Due(t, d)']
    OBVIOUS
  <2>3. Demand(TaskSet(This), d)' = SumOver(e, S) /\ Demand(S, d) = SumOver(c, S)
    BY <1>1, <1>3, <2>1, <2>2 DEF Demand
  <2>4. IsFiniteSet(S) /\ c \in [S -> Int]
    BY <2>1, DemandType
  <2>5. \A t \in S : e[t] \in Nat /\ e[t] <= c[t]
    BY <1>1, <1>5, <1>7, <2>1, <2>2, DueGiven
  <2>6. e \in [S -> Int]
    BY <2>2, <2>5
  <2>7. SumOver(c, S) <= d - s
    BY <1>2, <1>3, <1>6, <1>7, <2>3
  <2>8. SumOver(e, S) <= d - (s + 1)
    <3>1. CASE \E u \in Task : job[u].active /\ job[u].nextRelease <= d
      <4>1. PICK u \in Task : job[u].active /\ job[u].nextRelease <= d
        BY <3>1
      <4>2. ReadyJob(u) \in Ready
        BY <4>1 DEF Ready
      <4>3. PICK t \in Tasks(chosen) : /\ t \in Task /\ job[t].active
                                       /\ job[t].nextRelease <= job[u].nextRelease
        BY <1>4, <4>1, <4>2, EdfServes
      <4>4. t \in S
        BY <1>3, <4>3 DEF WorkInv
      <4>5. e[t] = c[t] - 1
        <5>1. job[t].nextRelease \in Nat /\ job[u].nextRelease \in Nat
          BY <4>1, <4>3, LeftType
        <5>2. job[t].nextRelease <= d
          BY <4>1, <4>3, <5>1
        <5> QED
          BY <1>1, <1>5, <1>7, <2>1, <2>2, <4>3, <4>4, <5>2, DueGiven
      <4>6. PICK f : f = [v \in S |-> IF v = t THEN c[t] - 1 ELSE c[v]]
        OBVIOUS
      <4>7. /\ f \in [S -> Int] /\ f[t] = c[t] - 1
            /\ \A v \in S \ {t} : c[v] = f[v]
            /\ \A v \in S : e[v] <= f[v]
        BY <2>4, <2>5, <4>4, <4>5, <4>6
      <4>8. SumOver(f, S) + c[t] = SumOver(c, S) + f[t]
        BY <2>4, <4>4, <4>7, SumChanged
      <4>9. SumOver(e, S) <= SumOver(f, S)
        BY <2>4, <2>6, <4>7, SumMonotone
      <4>10. PICK x \in Int, y \in Int, z \in Int, a \in Int :
               x = SumOver(e, S) /\ y = SumOver(f, S) /\ z = SumOver(c, S) /\ a = c[t]
        BY <2>4, <2>6, <4>4, <4>7, SumType
      <4> QED
        BY <2>7, <4>7, <4>8, <4>9, <4>10
    <3>2. CASE ~\E u \in Task : job[u].active /\ job[u].nextRelease <= d
      <4>1. PICK n \in Nat : n = d - (s + 1)
        BY <1>6, <1>7
      <4>2. ASSUME NEW t \in S
            PROVE  \E m \in Nat : e[t] <= Wcets(S)[t] * m /\ Periods(S)[t] * m <= n
        <5>1. Left(t) = 0 \/ d < job[t].nextRelease
          <6>1. job[t].nextRelease \in Nat
            BY LeftType
          <6>2. job[t].active => d < job[t].nextRelease
            BY <3>2, <6>1
          <6> QED
            BY <6>2 DEF Left
        <5>2. \E m \in Nat : /\ Due(t, d)' <= Wcet(This, t) * m
                             /\ Period[t[2]] * m <= d - (step + 1)
          BY <1>1, <1>5, <1>7, <5>1, DueGiven
        <5>3. e[t] = Due(t, d)' /\ Wcets(S)[t] = Wcet(This, t) /\ Periods(S)[t] = Period[t[2]]
          BY <2>2 DEF Wcets, Periods
        <5> QED
          BY <1>6, <4>1, <5>2, <5>3
      <4>3. FitsIn(S, Wcets(S), Periods(S), Hyper(S), Share(S))
        BY <1>3, FleetFits DEF FleetInv, FleetType
      <4> QED
        BY <2>4, <2>6, <4>1, <4>2, <4>3, DemandWithin
    <3> QED
      BY <3>1, <3>2
  <2> QED
    BY <1>6, <2>3, <2>8
<1> QED
  BY <1>2, <1>7

\* At first all the work is still to come, at most at the periods' pace.
LEMMA EdfStart == FleetInv /\ WorkInv /\ Init => EdfInv
<1> SUFFICES ASSUME FleetInv, WorkInv, Init, FitsOneCore(This, TaskSet(This))
             PROVE  /\ missed = {}
                    /\ \A d \in Nat : step <= d => Demand(TaskSet(This), d) <= d - step
  BY DEF EdfInv
<1>1. PICK S \in SUBSET Task : S = TaskSet(This)
  BY DEF TaskSet
<1>2. step = 0 /\ \A t \in Task : ~job[t].active
  BY DEF Init
<1>3. ASSUME NEW d \in Nat PROVE Demand(S, d) <= d
  <2>1. PICK c : c = [t \in S |-> Due(t, d)]
    OBVIOUS
  <2>2. c \in [S -> Int] /\ IsFiniteSet(S)
    BY <2>1, DemandType
  <2>3. ASSUME NEW t \in S
        PROVE  \E m \in Nat : c[t] <= Wcets(S)[t] * m /\ Periods(S)[t] * m <= d
    <3>1. PICK n \in Nat, p \in Nat \ {0}, w \in Nat :
            /\ n = job[t].nextRelease /\ p = Period[t[2]] /\ w = Wcet(This, t)
      BY LeftType
    <3>2. Left(t) = 0
      BY <1>2 DEF Left
    <3>3. c[t] = IF d < n THEN 0 ELSE 0 + w * ((d - n) \div p)
      BY <2>1, <3>1, <3>2 DEF Due
    <3>4. Wcets(S)[t] = w /\ Periods(S)[t] = p
      BY <3>1 DEF Wcets, Periods
    <3>5. CASE d < n
      <4>1. c[t] <= w * 0 /\ p * 0 <= d
        BY <3>3, <3>5
      <4> QED
        BY <3>4, <4>1
    <3>6. CASE ~(d < n)
      <4>1. PICK m \in Nat : m = d - n
        BY <3>6
      <4>2. PICK q \in Nat : q = m \div p /\ p * q <= m
        BY Fits
      <4>3. PICK y \in Nat, z \in Nat : y = w * q /\ z = p * q
        OBVIOUS
      <4>4. c[t] <= w * q /\ p * q <= d
        BY <3>3, <3>6, <4>1, <4>2, <4>3
      <4> QED
        BY <3>4, <4>4
    <3> QED
      BY <3>5, <3>6
  <2>4. FitsIn(S, Wcets(S), Periods(S), Hyper(S), Share(S))
    BY <1>1, FleetFits DEF FleetInv, FleetType
  <2>5. SumOver(c, S) <= d
    BY <2>2, <2>3, <2>4, DemandWithin
  <2> QED
    BY <2>1, <2>5 DEF Demand
<1> QED
  BY <1>1, <1>2, <1>3 DEF Init

\* No job works for longer than its longest execution time.
LEMMA WorkInvariant == FrontierSpec => []WorkInv
<1>1. FrontierInit => WorkInv
  BY WorkStart DEF FrontierInit
<1>2. FleetInv /\ WorkInv /\ [FrontierNext]_frontierVars => WorkInv'
  <2> SUFFICES ASSUME FleetInv, WorkInv, [FrontierNext]_frontierVars PROVE WorkInv'
    OBVIOUS
  <2>1. CASE Begin
    BY <2>1, WorkBegin DEF Begin
  <2>2. CASE StatelessEnd
    BY <2>2, AssignReady, WorkGrant DEF StatelessEnd, EndTick
  <2>3. CASE FrontierEnd
    <3>1. PICK chosen : /\ Grant(chosen)
                        /\ \/ chosen = {}
                           \/ chosen = Frontier(Ready, NCores, ctx, lastFDone, TRUE)
      BY <2>3 DEF FrontierEnd
    <3>2. chosen \subseteq Ready
      BY <3>1, FrontierReady
    <3> QED
      BY <3>1, <3>2, WorkGrant
  <2>4. CASE UNCHANGED frontierVars
    <3>1. conf' = conf /\ step' = step /\ phase' = phase /\ job' = job
      BY <2>4 DEF frontierVars, fleetVars
    <3>2. This' = This /\ TaskSet(This)' = TaskSet(This)
      BY <3>1, Configured
    <3>3. \A t \in Task : Wcet(This, t)' = Wcet(This, t)
      BY <3>2 DEF Wcet
    <3> QED
      BY <3>1, <3>2, <3>3 DEF WorkInv
  <2> QED
    BY <2>1, <2>2, <2>3, <2>4 DEF FrontierNext
<1> QED
  BY <1>1, <1>2, FleetInvariant, PTL DEF FrontierSpec

LEMMA EdfStep == FleetInv /\ WorkInv /\ EdfInv /\ [FrontierNext]_frontierVars => EdfInv'
<1> SUFFICES ASSUME FleetInv, WorkInv, EdfInv, [FrontierNext]_frontierVars PROVE EdfInv'
  OBVIOUS
<1>1. CASE Begin
  BY <1>1, EdfBegin DEF Begin
<1>2. CASE StatelessEnd
  BY <1>2, EdfGrant DEF StatelessEnd
<1>3. CASE FrontierEnd
  <2>1. conf' = conf /\ This.policy # "edf"
    BY <1>3 DEF FrontierEnd, Grant
  <2> QED
    BY <2>1, Configured DEF EdfInv
<1>4. CASE UNCHANGED frontierVars
  <2>1. conf' = conf /\ step' = step /\ job' = job /\ missed' = missed
    BY <1>4 DEF frontierVars, fleetVars
  <2>2. PICK S : S = TaskSet(This) /\ S = TaskSet(This)'
    BY <2>1, Configured
  <2>3. This' = This /\ Period' = Period
    BY <2>1, Configured
  <2>4. \A d \in Nat : Demand(S, d)' = Demand(S, d)
    BY <2>1, <2>3 DEF Demand, Due, Left, Wcet
  <2> QED
    BY <2>1, <2>2, <2>4, Configured DEF EdfInv
<1> QED
  BY <1>1, <1>2, <1>3, <1>4 DEF FrontierNext

\* Edf.cpp: the earliest deadline first is optimal on one core.  If the tasks that a run
\* releases need no more than the core, no job is found unfinished at its deadline,
\* whatever the first releases and the execution times that are drawn.
THEOREM EdfOptimal == FrontierSpec => []NothingMissed
<1>1. FrontierInit => FleetInv /\ WorkInv /\ EdfInv
  BY FleetStart, WorkStart, EdfStart DEF FrontierInit
<1>2. EdfInv => NothingMissed
  BY DEF EdfInv, NothingMissed
<1> QED
  BY <1>1, <1>2, EdfStep, FleetInvariant, WorkInvariant, PTL DEF FrontierSpec

-----------------------------------------------------------------------------
(* Rate-monotonic order on a core of one's own *)

Own(v) == {t \in TaskSet(This) : t[1] = v}

\* The tasks of the same vehicle that go before t.
Above(t) ==
  {u \in Own(t[1]) : \/ Period[u[2]] < Period[t[2]]
                     \/ Period[u[2]] = Period[t[2]] /\ KindRank[u[2]] < KindRank[t[2]]}

\* How often t is released in the next x ticks, and what it then has to work.
Releases(t, x) ==
  IF job[t].nextRelease < step + x
    THEN 1 + (((step + x) - 1) - job[t].nextRelease) \div Period[t[2]]
    ELSE 0
Load(t, x) == Left(t) + Wcet(This, t) * Releases(t, x)

\* What it has to work in y ticks at most, if it is released in the first of them.
Burst(t, y) == Wcet(This, t) * ((y + (Period[t[2]] - 1)) \div Period[t[2]])

LoadsAbove(t, x) == [u \in Own(t[1]) |-> IF u \in Above(t) THEN Load(u, x) ELSE 0]
BurstsAbove(t, y) == [u \in Own(t[1]) |-> IF u \in Above(t) THEN Burst(u, y) ELSE 0]
LoadAbove(t, x) == SumOver(LoadsAbove(t, x), Own(t[1]))
BurstAbove(t, y) == SumOver(BurstsAbove(t, y), Own(t[1]))

\* The core has been kept from t for b ticks, by what was released in them.
Kept(t, b) == \A x \in Nat \ {0} : LoadAbove(t, x) + b <= BurstAbove(t, b + x)

\* In x ticks t's job is done.
DoneIn(t, x) == step + x <= job[t].nextRelease /\ Left(t) + LoadAbove(t, x) <= x

OnItsOwn(v) ==
  /\ This.policy = "prm" /\ NCores > 0
  /\ \A u \in Vehicle \ {v} : u % NCores # v % NCores
  /\ Harmonic(This, Own(v)) /\ FitsOneCore(This, Own(v))

\* No job is kept from its core for its whole period, and each is done by its deadline.
InOrder(v) ==
  \A t \in Own(v) :
    /\ \E b \in Nat : b < Period[t[2]] /\ Kept(t, b)
    /\ Left(t) > 0 => \E x \in Nat \ {0} : DoneIn(t, x)

OwnInv ==
  /\ missed \in SUBSET Task
  /\ \A v \in Vehicle : OnItsOwn(v) => (\A t \in missed : t[1] # v) /\ InOrder(v)

\* The tasks of a vehicle.
LEMMA OwnTasks ==
  ASSUME FleetInv, NEW v \in Vehicle
  PROVE  /\ Own(v) \in SUBSET Task /\ IsFiniteSet(Own(v))
         /\ \A t \in Own(v) : t \in Task /\ t[1] = v /\ Above(t) \in SUBSET Own(v)
                              /\ t \notin Above(t)
<1>1. Own(v) \in SUBSET Task
  BY DEF Own, TaskSet
<1>2. IsFiniteSet(Own(v))
  BY <1>1, TaskFinite, FS_Subset
<1>3. ASSUME NEW t \in Own(v) PROVE t \in Task /\ t[1] = v /\ Above(t) \in SUBSET Own(v)
  BY <1>1 DEF Own, Above
<1>4. ASSUME NEW t \in Own(v) PROVE t \notin Above(t)
  <2>1. PICK p \in Nat, k \in Nat : p = Period[t[2]] /\ k = KindRank[t[2]]
    <3>1. t[2] \in CloudKind /\ Period[t[2]] \in Nat
      BY <1>3, ConfigType, TaskParts DEF FleetInv, FleetType
    <3> QED
      BY <3>1 DEF CloudKind, KindRank
  <2> QED
    BY <2>1 DEF Above
<1> QED
  BY <1>1, <1>2, <1>3, <1>4

\* Whoever goes before one that goes before t, goes before t.
LEMMA AboveAll ==
  ASSUME FleetInv, NEW v \in Vehicle, NEW t \in Own(v), NEW u \in Above(t), NEW w \in Own(v),
         w = u \/ w \in Above(u)
  PROVE  w \in Above(t)
<1>1. u \in Own(v) /\ t[1] = v /\ u[1] = v
  BY OwnTasks DEF Own
<1>2. \A x \in Own(v) : Period[x[2]] \in Nat /\ KindRank[x[2]] \in Nat
  <2>1. \A x \in Own(v) : x[2] \in CloudKind /\ Period[x[2]] \in Nat
    BY OwnTasks, ConfigType, TaskParts DEF FleetInv, FleetType
  <2> QED
    BY <2>1 DEF CloudKind, KindRank
<1>3. PICK a \in Nat, b \in Nat, c \in Nat, x \in Nat, y \in Nat, z \in Nat :
        /\ a = Period[t[2]] /\ b = Period[u[2]] /\ c = Period[w[2]]
        /\ x = KindRank[t[2]] /\ y = KindRank[u[2]] /\ z = KindRank[w[2]]
  BY <1>1, <1>2
<1>4. b < a \/ (b = a /\ y < x)
  BY <1>3 DEF Above
<1>5. w = u \/ c < b \/ (c = b /\ z < y)
  BY <1>3 DEF Above
<1>6. c < a \/ (c = a /\ z < x)
  BY <1>3, <1>4, <1>5
<1> QED
  BY <1>1, <1>3, <1>6 DEF Above

\* Loads are numbers of ticks.
LEMMA LoadType ==
  ASSUME FleetInv, WorkInv, NEW t \in Task, NEW x \in Nat
  PROVE  Releases(t, x) \in Nat /\ Load(t, x) \in Nat /\ Left(t) <= Load(t, x)
<1>1. PICK n \in Nat, p \in Nat \ {0}, l \in Nat, w \in Nat, s \in Nat :
        /\ n = job[t].nextRelease /\ p = Period[t[2]] /\ l = Left(t) /\ w = Wcet(This, t)
        /\ s = step
  BY LeftType
<1>2. Releases(t, x) = IF n < s + x THEN 1 + (((s + x) - 1) - n) \div p ELSE 0
  BY <1>1 DEF Releases
<1>3. Releases(t, x) \in Nat
  <2>1. CASE n < s + x
    <3>1. PICK m \in Nat : m = ((s + x) - 1) - n
      BY <2>1
    <3>2. m \div p \in Nat
      BY Fits
    <3> QED
      BY <1>2, <2>1, <3>1, <3>2
  <2> QED
    BY <1>2, <2>1
<1>4. PICK r \in Nat : r = Releases(t, x)
  BY <1>3
<1>5. w * r \in Nat
  OBVIOUS
<1> QED
  BY <1>1, <1>4, <1>5 DEF Load

\* A release is no load that was not expected.
LEMMA LoadBegun ==
  ASSUME FleetInv, WorkInv, NEW t \in Task, Begun(t), NEW x \in Nat \ {0},
         This' = This, Period' = Period, step' = step
  PROVE  Load(t, x)' \in Nat /\ Load(t, x)' <= Load(t, x)
<1>1. PICK n \in Nat, p \in Nat \ {0}, l \in Nat, w \in Nat, s \in Nat :
        /\ n = job[t].nextRelease /\ p = Period[t[2]] /\ l = Left(t) /\ w = Wcet(This, t)
        /\ p = Period[t[2]]' /\ w = Wcet(This, t)' /\ s = step /\ s = step'
  BY LeftType DEF Wcet
<1>2. Load(t, x) = l + w * (IF n < s + x THEN 1 + (((s + x) - 1) - n) \div p ELSE 0)
  BY <1>1 DEF Load, Releases
<1>3. CASE step < n /\ Left(t)' = l /\ job'[t].nextRelease = n
  <2>1. Load(t, x)' = l + w * (IF n < s + x THEN 1 + (((s + x) - 1) - n) \div p ELSE 0)
    BY <1>1, <1>3 DEF Load, Releases
  <2> QED
    BY <1>2, <2>1, LoadType
<1>4. CASE step = n /\ l = 0 /\ Left(t)' \in 2 .. w /\ job'[t].nextRelease = n + p
  <2>1. PICK e \in 2 .. w : e = Left(t)'
    BY <1>4
  <2>2. Load(t, x)' = e + w * (IF n + p < s + x THEN 1 + (((s + x) - 1) - (n + p)) \div p ELSE 0)
    BY <1>1, <1>4, <2>1 DEF Load, Releases
  <2>3. PICK m \in Nat : m = x - 1 /\ ((s + x) - 1) - n = m /\ n < s + x
    BY <1>1, <1>4
  <2>4. Load(t, x) = w * (1 + m \div p)
    BY <1>2, <1>4, <2>3
  <2>5. PICK q \in Nat : q = m \div p
    BY Fits
  <2>6. w * (1 + q) = w + w * q /\ w * q \in Nat
    OBVIOUS
  <2>7. CASE n + p < s + x
    <3>1. m >= p /\ ((s + x) - 1) - (n + p) = m - p
      BY <1>1, <2>3, <2>7
    <3>2. q = 1 + (m - p) \div p
      BY <2>5, <3>1, Fits
    <3>3. Load(t, x)' = e + w * q
      BY <2>2, <2>7, <3>1, <3>2
    <3> QED
      BY <2>1, <2>4, <2>5, <2>6, <3>3
  <2>8. CASE ~(n + p < s + x)
    <3>1. Load(t, x)' = e
      BY <2>2, <2>8
    <3> QED
      BY <2>1, <2>4, <2>5, <2>6, <3>1
  <2> QED
    BY <2>7, <2>8
<1> QED
  BY <1>1, <1>3, <1>4 DEF Begun

\* A tick of a core, for the load of a task.
LEMMA LoadGiven ==
  ASSUME FleetInv, WorkInv, phase = "end", NEW chosen, NEW t \in Task, Given(t, chosen),
         NEW x \in Nat, This' = This, Period' = Period, step' = step + 1
  PROVE  /\ Load(t, x)' \in Nat /\ Load(t, x)' <= Load(t, x + 1)
         /\ t \in Tasks(chosen) => Load(t, x)' = Load(t, x + 1) - 1
         /\ Left(t) = 0 /\ x > 0 => Load(t, x)' <= Burst(t, x)
<1>1. PICK n \in Nat, p \in Nat \ {0}, l \in Nat, w \in Nat, s \in Nat :
        /\ n = job[t].nextRelease /\ p = Period[t[2]] /\ l = Left(t) /\ w = Wcet(This, t)
        /\ p = Period[t[2]]' /\ w = Wcet(This, t)' /\ s = step /\ s + 1 <= n
        /\ n = job'[t].nextRelease /\ s + 1 = step'
  BY LeftType DEF Wcet, Given
<1>2. PICK k \in Nat : k = Left(t)' /\ k = (IF t \in Tasks(chosen) THEN l - 1 ELSE l)
                       /\ (t \in Tasks(chosen) => l >= 1)
  BY <1>1 DEF Given
<1>3. PICK r \in Nat : r = Releases(t, x + 1)
  BY LoadType, x + 1 \in Nat
<1>4. r = IF n < s + (x + 1) THEN 1 + (((s + (x + 1)) - 1) - n) \div p ELSE 0
  BY <1>1, <1>3 DEF Releases
<1>5. s + (x + 1) = (s + 1) + x
  OBVIOUS
<1>6. Load(t, x + 1) = l + w * r
  BY <1>1, <1>3 DEF Load
<1>7. Load(t, x)' = k + w * r
  BY <1>1, <1>2, <1>4, <1>5 DEF Load, Releases
<1>8. w * r \in Nat
  OBVIOUS
<1>9. ASSUME l = 0, x > 0 PROVE w * r <= Burst(t, x)
  <2>1. PICK c \in Nat : c = (x + (p - 1)) \div p
    BY <1>9, x + (p - 1) \in Nat, Fits
  <2>2. r <= c
    <3>1. CASE n < s + (x + 1)
      <4>1. PICK m \in Nat : m = ((s + (x + 1)) - 1) - n /\ m < x
        BY <1>1, <3>1
      <4>2. x \in Nat \ {0}
        BY <1>9
      <4>3. 1 + m \div p <= (x + (p - 1)) \div p
        BY <4>1, <4>2, RoundsUp
      <4> QED
        BY <1>4, <2>1, <3>1, <4>1, <4>3
    <3>2. CASE ~(n < s + (x + 1))
      BY <1>4, <3>2
    <3> QED
      BY <3>1, <3>2
  <2>3. w * r <= w * c
    <3>1. w * (c - r) \in Nat
      BY <2>2
    <3>2. w * (c - r) = w * c - w * r
      OBVIOUS
    <3> QED
      BY <3>1, <3>2
  <2>4. Burst(t, x) = w * c
    BY <1>1, <2>1 DEF Burst
  <2> QED
    BY <2>3, <2>4
<1>10. l = 0 => k = 0
  BY <1>2
<1>11. l = 0 /\ x > 0 => Load(t, x)' <= Burst(t, x)
  <2> SUFFICES ASSUME l = 0, x > 0 PROVE Load(t, x)' <= Burst(t, x)
    OBVIOUS
  <2>1. Load(t, x)' = w * r
    BY <1>7, <1>10, <1>8
  <2> QED
    BY <1>9, <2>1
<1> QED
  BY <1>1, <1>2, <1>6, <1>7, <1>8, <1>11

\* Of the active jobs of a vehicle that has a core to itself, the first in rate-monotonic
\* order is served.
LEMMA PrmServes ==
  ASSUME FleetInv, WorkInv, NEW v \in Vehicle, OnItsOwn(v), NEW t \in Own(v), Left(t) > 0,
         NEW chosen, chosen = Assign(This.policy, Ready)
  PROVE  \E w \in Own(v) : w \in Tasks(chosen) /\ (w = t \/ w \in Above(t))
<1> DEFINE Waiting == {w \in Own(v) : job[w].active}
           Fast == {w \in Waiting : \A y \in Waiting : Period[w[2]] <= Period[y[2]]}
<1>1. \A w \in Own(v) : /\ w \in Task /\ w[1] = v /\ w = <<v, w[2]>> /\ w[2] \in CloudKind
                        /\ Period[w[2]] \in Nat /\ KindRank[w[2]] \in Nat
  <2>1. \A w \in Own(v) : w \in Task /\ w[1] = v /\ w = <<v, w[2]>> /\ w[2] \in CloudKind
                          /\ Period[w[2]] \in Nat
    BY OwnTasks, ConfigType, TaskParts DEF FleetInv, FleetType
  <2> QED
    BY <2>1 DEF CloudKind, KindRank
<1>2. t \in Waiting
  BY DEF Left
<1>3. Fast # {}
  <2>1. PICK D : D = {Period[w[2]] : w \in Waiting}
    OBVIOUS
  <2>2. D \subseteq Nat /\ D # {}
    BY <1>1, <1>2, <2>1
  <2>3. PICK m \in D : \A k \in D : m <= k
    BY <2>2, LeastExists
  <2> QED
    BY <2>1, <2>3
<1>4. PICK w \in Fast : \A y \in Fast : KindRank[w[2]] <= KindRank[y[2]]
  <2>1. PICK D : D = {KindRank[y[2]] : y \in Fast}
    OBVIOUS
  <2>2. D \subseteq Nat /\ D # {}
    BY <1>1, <1>3, <2>1
  <2>3. PICK m \in D : \A k \in D : m <= k
    BY <2>2, LeastExists
  <2> QED
    BY <2>1, <2>3
<1>5. ASSUME NEW y \in Waiting
      PROVE  y = w \/ Period[w[2]] < Period[y[2]]
                   \/ (Period[w[2]] = Period[y[2]] /\ KindRank[w[2]] < KindRank[y[2]])
  <2>1. PICK a \in Nat, b \in Nat, c \in Nat, d \in Nat :
          /\ a = Period[w[2]] /\ b = Period[y[2]] /\ c = KindRank[w[2]] /\ d = KindRank[y[2]]
    BY <1>1
  <2>2. a <= b
    BY <2>1
  <2>3. a = b => c <= d
    <3>1. a = b => y \in Fast
      BY <2>1
    <3> QED
      BY <1>4, <2>1, <3>1
  <2>4. c = d => y = w
    <3>1. w[2] \in CloudKind /\ y[2] \in CloudKind /\ w = <<v, w[2]>> /\ y = <<v, y[2]>>
      BY <1>1
    <3>2. c = d => w[2] = y[2]
      BY <2>1, <3>1 DEF CloudKind, KindRank
    <3> QED
      BY <3>1, <3>2
  <2> QED
    BY <2>1, <2>2, <2>3, <2>4
<1>6. w \in Own(v) /\ job[w].active /\ w \in Task /\ w[1] = v
  BY <1>1
<1>7. ReadyJob(w) \in PartitionedRM(Ready, NCores)
  <2> SUFFICES ASSUME NEW q \in Ready \ {ReadyJob(w)},
                      q.vehicle % NCores = ReadyJob(w).vehicle % NCores
               PROVE  Precedes(StaticOrder(ReadyJob(w)), StaticOrder(q))
    <3>1. ReadyJob(w) \in Ready
      BY <1>6 DEF Ready
    <3> QED
      BY <3>1 DEF PartitionedRM
  <2>1. PICK y \in Task : q = ReadyJob(y) /\ job[y].active
    BY DEF Ready
  <2>2. q.vehicle = y[1] /\ ReadyJob(w).vehicle = v /\ y[1] \in Vehicle
    BY <1>6, <2>1, TaskParts DEF ReadyJob
  <2>3. y[1] = v
    BY <2>2 DEF OnItsOwn
  <2>4. y \in Waiting /\ y # w
    BY <2>1, <2>3 DEF WorkInv, Own
  <2>5. PICK a \in Nat, b \in Nat, c \in Nat, d \in Nat :
          /\ a = Period[w[2]] /\ b = Period[y[2]] /\ c = KindRank[w[2]] /\ d = KindRank[y[2]]
    BY <1>1, <2>4
  <2>6. a < b \/ (a = b /\ c < d)
    BY <1>5, <2>4, <2>5
  <2>7. StaticOrder(ReadyJob(w)) = <<a, v, c>> /\ StaticOrder(q) = <<b, v, d>>
    <3>1. ReadyJob(w).period = a /\ ReadyJob(w).kind = w[2] /\ q.period = b /\ q.kind = y[2]
      BY <2>1, <2>5 DEF ReadyJob
    <3> QED
      BY <2>2, <2>3, <2>5, <3>1 DEF StaticOrder
  <2>8. Precedes(<<a, v, c>>, <<b, v, d>>)
    <3>1. CASE a < b
      <4>1. 1 \in DOMAIN <<a, v, c>> /\ <<a, v, c>>[1] < <<b, v, d>>[1]
            /\ \A j \in 1 .. (1 - 1) : <<a, v, c>>[j] = <<b, v, d>>[j]
        BY <3>1
      <4> QED
        BY <4>1 DEF Precedes
    <3>2. CASE a = b /\ c < d
      <4>1. 3 \in DOMAIN <<a, v, c>> /\ <<a, v, c>>[3] < <<b, v, d>>[3]
            /\ \A j \in 1 .. (3 - 1) : <<a, v, c>>[j] = <<b, v, d>>[j]
        BY <3>2
      <4> QED
        BY <4>1 DEF Precedes
    <3> QED
      BY <2>6, <3>1, <3>2
  <2> QED
    BY <2>7, <2>8
<1>8. ReadyJob(w) \in chosen
  <2>1. ReadyJob(w) \in Ready
    BY <1>6 DEF Ready
  <2>2. This.policy = "prm" /\ NCores # 0 /\ Ready # {}
    BY <2>1 DEF OnItsOwn
  <2>3. chosen = PartitionedRM(Ready, NCores)
    BY <2>2 DEF Assign
  <2> QED
    BY <1>7, <2>3
<1>9. w \in Tasks(chosen)
  <2>1. w = <<ReadyJob(w).vehicle, ReadyJob(w).kind>>
    BY <1>6, TaskParts DEF ReadyJob
  <2> QED
    BY <1>8, <2>1 DEF Tasks
<1>10. w = t \/ w \in Above(t)
  <2>1. t[1] = v
    BY <1>1
  <2> QED
    BY <1>2, <1>5, <1>6, <2>1 DEF Above
<1> QED
  BY <1>6, <1>9, <1>10

\* Within t's period there is room for its own work and for that of those above.
LEMMA FullShare ==
  ASSUME FleetInv, NEW v \in Vehicle, OnItsOwn(v), NEW t \in Own(v)
  PROVE  /\ BurstAbove(t, Period[t[2]]) \in Int
         /\ Wcet(This, t) + BurstAbove(t, Period[t[2]]) <= Period[t[2]]
<1>1. PICK S \in SUBSET Task : S = Own(v) /\ IsFiniteSet(S) /\ t \in S /\ t[1] = v
  BY OwnTasks
<1>2. \A u \in S : Period[u[2]] \in Nat \ {0} /\ Wcet(This, u) \in Nat
  BY <1>1, ConfigType, TaskParts, WcetIs DEF FleetInv, FleetType
<1>3. PICK p \in Nat \ {0} : p = Period[t[2]]
  BY <1>1, <1>2
<1>4. ASSUME NEW u \in Above(t)
      PROVE  \E m \in Nat : Burst(u, p) = Wcet(This, u) * m /\ Period[u[2]] * m = p
  <2>1. u \in S
    BY <1>1, OwnTasks
  <2>2. PICK a \in Nat \ {0}, w \in Nat : a = Period[u[2]] /\ w = Wcet(This, u) /\ a <= p
    BY <1>2, <1>3, <2>1 DEF Above
  <2>3. PICK q \in Nat : p = a * q
    <3>1. a % p = 0 \/ p % a = 0
      BY <1>1, <1>3, <2>1, <2>2 DEF OnItsOwn, Harmonic, Period
    <3>2. PICK q \in Int, r \in 0 .. a - 1 : p = a * q + r /\ p % a = r
      BY Parts, ZenonT(60)
    <3>4. q \in Nat
      <4>1. q < 0 => a * (-1 - q) \in Nat
        OBVIOUS
      <4>2. a * (-1 - q) = -a - a * q
        OBVIOUS
      <4> QED
        BY <3>2, <4>1, <4>2
    <3>5. CASE p % a = 0
      BY <3>2, <3>4, <3>5
    <3>6. CASE a % p = 0
      <4>1. a < p => a % p = a
        <5> SUFFICES ASSUME a < p PROVE a % p = a
          OBVIOUS
        <5>1. a = p * 0 + a /\ a \in 0 .. p - 1 /\ a \in Int /\ 0 \in Int
          OBVIOUS
        <5> QED
          BY <5>1, Quotient
      <4>2. a = p
        BY <2>2, <3>6, <4>1
      <4>3. p = a * 1
        BY <4>2
      <4> QED
        BY <4>3
    <3> QED
      BY <3>1, <3>5, <3>6
  <2>4. (p + (a - 1)) \div a = q
    <3>1. p + (a - 1) = a * q + (a - 1) /\ a - 1 \in 0 .. a - 1 /\ p + (a - 1) \in Int
      BY <2>3
    <3> QED
      BY <3>1, Quotient, q \in Int
  <2>5. Burst(u, p) = w * q
    BY <2>2, <2>4 DEF Burst
  <2> QED
    BY <2>2, <2>3, <2>5
<1>5. PICK b : b = [u \in S |-> IF u \in Above(t) THEN Burst(u, p) ELSE 0]
  OBVIOUS
<1>6. b \in [S -> Int] /\ b[t] = 0 /\ BurstAbove(t, p) = SumOver(b, S)
  <2>1. ASSUME NEW u \in Above(t) PROVE Burst(u, p) \in Int
    <3>1. u \in S
      BY <1>1, OwnTasks
    <3>2. PICK m \in Nat, w \in Nat : Burst(u, p) = w * m
      BY <1>2, <1>4, <3>1
    <3> QED
      BY <3>2
  <2>2. t \notin Above(t)
    BY <1>1, OwnTasks
  <2>3. BurstsAbove(t, p) = b
    BY <1>1, <1>5 DEF BurstsAbove
  <2> QED
    BY <1>1, <1>5, <2>1, <2>2, <2>3 DEF BurstAbove
<1>7. PICK c : c = [u \in S |-> IF u = t THEN Wcet(This, t) ELSE b[u]]
  OBVIOUS
<1>8. c \in [S -> Int] /\ c[t] = Wcet(This, t) /\ \A u \in S \ {t} : b[u] = c[u]
  BY <1>1, <1>2, <1>6, <1>7
<1>9. ASSUME NEW u \in S
      PROVE  \E m \in Nat : c[u] <= Wcets(S)[u] * m /\ Periods(S)[u] * m <= p
  <2>1. PICK w \in Nat, a \in Nat : /\ w = Wcet(This, u) /\ a = Period[u[2]]
                                    /\ Wcets(S)[u] = w /\ Periods(S)[u] = a
    BY <1>2 DEF Wcets, Periods
  <2>2. CASE u = t
    <3>1. c[u] <= w * 1 /\ a * 1 <= p
      BY <1>3, <1>8, <2>1, <2>2
    <3> QED
      BY <2>1, <3>1
  <2>3. CASE u # t /\ u \in Above(t)
    <3>1. PICK m \in Nat : Burst(u, p) = w * m /\ a * m = p
      BY <1>4, <2>1, <2>3
    <3>2. c[u] = w * m
      BY <1>5, <1>7, <2>3, <3>1
    <3>3. PICK y \in Nat : y = w * m
      OBVIOUS
    <3> QED
      BY <1>3, <2>1, <3>1, <3>2, <3>3
  <2>4. CASE u # t /\ u \notin Above(t)
    <3>1. c[u] = 0
      BY <1>5, <1>7, <2>4
    <3>2. c[u] <= w * 0 /\ a * 0 <= p
      BY <3>1
    <3> QED
      BY <2>1, <3>2
  <2> QED
    BY <2>2, <2>3, <2>4
<1>10. SumOver(c, S) <= p
  <2>1. FitsIn(S, Wcets(S), Periods(S), Hyper(S), Share(S))
    BY <1>1, FleetFits DEF FleetInv, FleetType, OnItsOwn
  <2> QED
    BY <1>1, <1>8, <1>9, <2>1, DemandWithin, ZenonT(60)
<1>11. SumOver(c, S) + b[t] = SumOver(b, S) + c[t]
  BY <1>1, <1>6, <1>8, SumChanged
<1>12. SumOver(b, S) \in Int /\ SumOver(c, S) \in Int
  BY <1>1, <1>6, <1>8, SumType
<1> QED
  BY <1>1, <1>2, <1>3, <1>6, <1>8, <1>10, <1>11, <1>12

\* Loads and bursts of the tasks above another.
LEMMA AboveType ==
  ASSUME FleetInv, WorkInv, NEW v \in Vehicle, NEW t \in Own(v), NEW x \in Nat
  PROVE  /\ LoadsAbove(t, x) \in [Own(v) -> Int] /\ BurstsAbove(t, x) \in [Own(v) -> Int]
         /\ LoadAbove(t, x) \in Int /\ BurstAbove(t, x) \in Int
         /\ LoadAbove(t, x) = SumOver(LoadsAbove(t, x), Own(v))
         /\ BurstAbove(t, x) = SumOver(BurstsAbove(t, x), Own(v))
         /\ 0 <= LoadAbove(t, x)
<1>1. PICK S \in SUBSET Task : S = Own(v) /\ IsFiniteSet(S) /\ t \in S /\ t[1] = v
  BY OwnTasks
<1>2. ASSUME NEW u \in S PROVE Load(u, x) \in Nat /\ Burst(u, x) \in Nat
  <2>1. PICK p \in Nat \ {0}, w \in Nat : p = Period[u[2]] /\ w = Wcet(This, u)
    BY LeftType
  <2>2. PICK n \in Nat : n = x + (p - 1)
    OBVIOUS
  <2>3. PICK q \in Nat : q = n \div p
    BY Fits
  <2>4. w * q \in Nat
    OBVIOUS
  <2> QED
    BY <2>1, <2>2, <2>3, <2>4, LoadType DEF Burst
<1>3. PICK l, b : l = LoadsAbove(t, x) /\ b = BurstsAbove(t, x)
  OBVIOUS
<1>4. l \in [S -> Int] /\ b \in [S -> Int] /\ \A u \in S : 0 <= l[u]
  BY <1>1, <1>2, <1>3 DEF LoadsAbove, BurstsAbove
<1>5. LoadAbove(t, x) = SumOver(l, S) /\ BurstAbove(t, x) = SumOver(b, S)
  BY <1>1, <1>3 DEF LoadAbove, BurstAbove
<1>6. SumOver(l, S) \in Int /\ SumOver(b, S) \in Int
  BY <1>1, <1>4, SumType
<1>7. l[t] <= SumOver(l, S) /\ l[t] \in Int /\ 0 <= l[t]
  BY <1>1, <1>4, SumBounds
<1>8. 0 <= SumOver(l, S)
  BY <1>6, <1>7
<1> QED
  BY <1>1, <1>3, <1>4, <1>5, <1>6, <1>8

\* Who is above whom, and what they need, is the configuration's.
LEMMA OwnKeeps ==
  ASSUME conf' = conf, NEW v, NEW t
  PROVE  /\ Own(v)' = Own(v) /\ Above(t)' = Above(t) /\ (OnItsOwn(v)' <=> OnItsOwn(v))
         /\ \A y : BurstAbove(t, y)' = BurstAbove(t, y)
<1>1. This' = This /\ NCores' = NCores /\ Period' = Period
  BY Configured
<1>2. Own(v)' = Own(v) /\ Own(t[1])' = Own(t[1])
  BY <1>1 DEF Own, TaskSet
<1>3. Above(t)' = Above(t)
  BY <1>1, <1>2 DEF Above
<1>4. OnItsOwn(v)' <=> OnItsOwn(v)
  <2>1. FitsOneCore(This, Own(v))' = FitsOneCore(This, Own(v))
    BY <1>1, <1>2
  <2>2. Harmonic(This, Own(v))' = Harmonic(This, Own(v))
    BY <1>1, <1>2 DEF Harmonic
  <2> QED
    BY <1>1, <2>1, <2>2 DEF OnItsOwn
<1>5. ASSUME NEW y PROVE BurstAbove(t, y)' = BurstAbove(t, y)
  <2>1. \A u : Burst(u, y)' = Burst(u, y)
    BY <1>1 DEF Burst, Wcet
  <2>2. BurstsAbove(t, y)' = BurstsAbove(t, y)
    BY <1>2, <1>3, <2>1 DEF BurstsAbove
  <2> QED
    BY <1>2, <2>2 DEF BurstAbove
<1> QED
  BY <1>2, <1>3, <1>4, <1>5

\* The releases of a tick, for the tasks above t.
LEMMA AboveBegun ==
  ASSUME FleetInv, WorkInv, BeginTick, NEW v \in Vehicle, \A u \in Own(v) : Begun(u),
         NEW t \in Own(v), NEW x \in Nat \ {0}
  PROVE  LoadAbove(t, x)' \in Int /\ LoadAbove(t, x)' <= LoadAbove(t, x)
<1>1. PICK S \in SUBSET Task : S = Own(v) /\ IsFiniteSet(S) /\ t \in S /\ t[1] = v
  BY OwnTasks
<1>2. conf' = conf /\ step' = step /\ This' = This /\ Period' = Period
  BY Configured DEF BeginTick
<1>3. PICK c : c = LoadsAbove(t, x)
  OBVIOUS
<1>4. c \in [S -> Int] /\ LoadAbove(t, x) = SumOver(c, S)
  BY <1>1, <1>3, AboveType, x \in Nat
<1>5. PICK e : e = [u \in S |-> IF u \in Above(t) THEN Load(u, x)' ELSE 0]
  OBVIOUS
<1>6. \A u \in S : Load(u, x)' \in Nat /\ Load(u, x)' <= Load(u, x)
  BY <1>1, <1>2, LoadBegun
<1>7. e \in [S -> Int] /\ \A u \in S : e[u] <= c[u]
  <2>1. c = [u \in S |-> IF u \in Above(t) THEN Load(u, x) ELSE 0]
    BY <1>1, <1>3 DEF LoadsAbove
  <2> QED
    BY <1>5, <1>6, <2>1
<1>8. LoadAbove(t, x)' = SumOver(e, S)
  <2>1. Own(t[1])' = S /\ Above(t)' = Above(t)
    BY <1>1, <1>2, OwnKeeps
  <2>2. LoadsAbove(t, x)' = e
    BY <1>5, <2>1 DEF LoadsAbove
  <2> QED
    BY <2>1, <2>2 DEF LoadAbove
<1>9. SumOver(e, S) \in Int /\ SumOver(e, S) <= SumOver(c, S)
  BY <1>1, <1>4, <1>7, SumMonotone, SumType
<1> QED
  BY <1>4, <1>8, <1>9

\* A tick of the core, for the tasks above t: if it was theirs their load has shrunk by it,
\* and if they had nothing to do it is at most a burst from now on.
LEMMA AboveGiven ==
  ASSUME FleetInv, WorkInv, NEW chosen, Grant(chosen), \A u \in Task : Given(u, chosen),
         NEW v \in Vehicle, NEW t \in Own(v), NEW x \in Nat
  PROVE  /\ LoadAbove(t, x)' \in Int /\ 0 <= LoadAbove(t, x)'
         /\ LoadAbove(t, x)' <= LoadAbove(t, x + 1)
         /\ \A w \in Above(t) : w \in Tasks(chosen) =>
              LoadAbove(t, x)' <= LoadAbove(t, x + 1) - 1
         /\ x > 0 /\ (\A u \in Above(t) : Left(u) = 0) => LoadAbove(t, x)' <= BurstAbove(t, x)
<1>1. PICK S \in SUBSET Task : S = Own(v) /\ IsFiniteSet(S) /\ t \in S /\ t[1] = v
                               /\ Above(t) \in SUBSET S
  BY OwnTasks
<1>2. conf' = conf /\ step' = step + 1 /\ This' = This /\ Period' = Period /\ phase = "end"
  BY Configured DEF Grant
<1>3. PICK y \in Nat : y = x + 1
  OBVIOUS
<1>4. PICK c, b : c = LoadsAbove(t, y) /\ b = BurstsAbove(t, x)
  OBVIOUS
<1>5. /\ c \in [S -> Int] /\ LoadAbove(t, y) = SumOver(c, S)
      /\ b \in [S -> Int] /\ BurstAbove(t, x) = SumOver(b, S)
  BY <1>1, <1>4, AboveType
<1>6. PICK e : e = [u \in S |-> IF u \in Above(t) THEN Load(u, x)' ELSE 0]
  OBVIOUS
<1>7. \A u \in S : /\ Load(u, x)' \in Nat /\ Load(u, x)' <= Load(u, y)
                   /\ u \in Tasks(chosen) => Load(u, x)' = Load(u, y) - 1
                   /\ Left(u) = 0 /\ x > 0 => Load(u, x)' <= Burst(u, x)
  BY <1>1, <1>2, <1>3, LoadGiven
<1>8. c = [u \in S |-> IF u \in Above(t) THEN Load(u, y) ELSE 0]
      /\ b = [u \in S |-> IF u \in Above(t) THEN Burst(u, x) ELSE 0]
  BY <1>1, <1>4 DEF LoadsAbove, BurstsAbove
<1>9. e \in [S -> Int] /\ \A u \in S : e[u] <= c[u]
  BY <1>6, <1>7, <1>8
<1>10. LoadAbove(t, x)' = SumOver(e, S)
  <2>1. Own(t[1])' = S /\ Above(t)' = Above(t)
    BY <1>1, <1>2, OwnKeeps
  <2>2. LoadsAbove(t, x)' = e
    BY <1>6, <2>1 DEF LoadsAbove
  <2> QED
    BY <2>1, <2>2 DEF LoadAbove
<1>11. SumOver(e, S) \in Int /\ SumOver(c, S) \in Int /\ SumOver(e, S) <= SumOver(c, S)
  BY <1>1, <1>5, <1>9, SumMonotone, SumType
<1>12. ASSUME NEW w \in Above(t), w \in Tasks(chosen)
       PROVE  SumOver(e, S) <= SumOver(c, S) - 1
  <2>1. w \in S /\ e[w] = c[w] - 1
    <3>1. w \in S
      BY <1>1
    <3>2. e[w] = Load(w, x)' /\ c[w] = Load(w, y) /\ Load(w, x)' = Load(w, y) - 1
      BY <1>6, <1>7, <1>8, <1>12, <3>1
    <3> QED
      BY <3>1, <3>2
  <2>2. PICK f : f = [u \in S |-> IF u = w THEN c[w] - 1 ELSE c[u]]
    OBVIOUS
  <2>3. /\ f \in [S -> Int] /\ f[w] = c[w] - 1
        /\ \A u \in S \ {w} : c[u] = f[u]
        /\ \A u \in S : e[u] <= f[u]
    BY <1>5, <1>9, <2>1, <2>2
  <2>4. SumOver(f, S) + c[w] = SumOver(c, S) + f[w]
    BY <1>1, <1>5, <2>1, <2>3, SumChanged
  <2>5. SumOver(e, S) <= SumOver(f, S)
    BY <1>1, <1>9, <2>3, SumMonotone
  <2>6. PICK i \in Int, j \in Int, k \in Int, a \in Int :
          i = SumOver(e, S) /\ j = SumOver(f, S) /\ k = SumOver(c, S) /\ a = c[w]
    BY <1>1, <1>5, <1>11, <2>1, <2>3, SumType
  <2> QED
    BY <2>3, <2>4, <2>5, <2>6
<1>13. ASSUME x > 0, \A u \in Above(t) : Left(u) = 0
       PROVE  SumOver(e, S) <= SumOver(b, S)
  <2>1. \A u \in S : e[u] <= b[u]
    BY <1>6, <1>7, <1>8, <1>13
  <2> QED
    BY <1>1, <1>5, <1>9, <2>1, SumMonotone
<1>14. 0 <= SumOver(e, S)
  <2>1. \A u \in S : 0 <= e[u]
    BY <1>6, <1>7
  <2>2. e[t] <= SumOver(e, S) /\ e[t] \in Int /\ 0 <= e[t]
    BY <1>1, <1>9, <2>1, SumBounds
  <2> QED
    BY <1>11, <2>2
<1> QED
  BY <1>3, <1>5, <1>10, <1>11, <1>12, <1>13, <1>14

\* At first nobody is kept waiting.
LEMMA OwnStart == FleetInv /\ WorkInv /\ Init => OwnInv
<1> SUFFICES ASSUME FleetInv, WorkInv, Init, NEW v \in Vehicle, OnItsOwn(v) PROVE InOrder(v)
  BY DEF OwnInv, Init
<1>1. step = 0 /\ \A t \in Task : Left(t) = 0
  BY DEF Init, Left
<1>2. ASSUME NEW t \in Own(v) PROVE \E b \in Nat : b < Period[t[2]] /\ Kept(t, b)
  <2>1. PICK S \in SUBSET Task : S = Own(v) /\ IsFiniteSet(S) /\ t \in S /\ t[1] = v
                                 /\ Above(t) \in SUBSET S
    BY OwnTasks
  <2>2. ASSUME NEW x \in Nat \ {0} PROVE LoadAbove(t, x) + 0 <= BurstAbove(t, 0 + x)
    <3>1. PICK c, b : c = LoadsAbove(t, x) /\ b = BurstsAbove(t, x)
      OBVIOUS
    <3>2. /\ c \in [S -> Int] /\ LoadAbove(t, x) = SumOver(c, S)
          /\ b \in [S -> Int] /\ BurstAbove(t, x) = SumOver(b, S)
      BY <2>1, <3>1, AboveType, x \in Nat
    <3>3. ASSUME NEW u \in S PROVE Load(u, x) <= Burst(u, x)
      <4>1. PICK n \in Nat, p \in Nat \ {0}, w \in Nat :
              n = job[u].nextRelease /\ p = Period[u[2]] /\ w = Wcet(This, u)
        BY LeftType
      <4>2. PICK r \in Nat : r = Releases(u, x)
        BY LoadType, x \in Nat
      <4>3. PICK q \in Nat : q = (x + (p - 1)) \div p
        BY x + (p - 1) \in Nat, Fits
      <4>4. r = IF n < x THEN 1 + ((x - 1) - n) \div p ELSE 0
        BY <1>1, <4>1, <4>2 DEF Releases
      <4>5. r <= q
        <5>1. CASE n < x
          <6>1. PICK m \in Nat : m = (x - 1) - n /\ m < x
            BY <5>1
          <6>2. 1 + m \div p <= (x + (p - 1)) \div p
            BY <6>1, RoundsUp
          <6> QED
            BY <4>3, <4>4, <5>1, <6>1, <6>2
        <5>2. CASE ~(n < x)
          BY <4>4, <5>2
        <5> QED
          BY <5>1, <5>2
      <4>6. w * r <= w * q /\ w * r \in Nat
        <5>1. w * (q - r) \in Nat
          BY <4>5
        <5>2. w * (q - r) = w * q - w * r
          OBVIOUS
        <5> QED
          BY <5>1, <5>2
      <4>7. Load(u, x) = w * r
        BY <1>1, <4>1, <4>2, <4>6 DEF Load
      <4>8. Burst(u, x) = w * q
        BY <4>1, <4>3 DEF Burst
      <4> QED
        BY <4>6, <4>7, <4>8
    <3>4. \A u \in S : c[u] <= b[u]
      BY <2>1, <3>1, <3>3 DEF LoadsAbove, BurstsAbove
    <3>5. SumOver(c, S) <= SumOver(b, S)
      BY <2>1, <3>2, <3>4, SumMonotone
    <3>6. SumOver(c, S) \in Int /\ 0 + x = x
      BY <2>1, <3>2, SumType
    <3> QED
      BY <3>2, <3>5, <3>6
  <2>3. 0 < Period[t[2]]
    BY <2>1, LeftType
  <2> QED
    BY <2>2, <2>3 DEF Kept
<1>3. \A t \in Own(v) : Left(t) = 0
  BY <1>1, OwnTasks
<1> QED
  BY <1>2, <1>3 DEF InOrder

\* A job that is released is kept from the core for less than its period, and by no more
\* than what leaves room for it.
LEMMA OwnBegin ==
  ASSUME FleetInv, WorkInv, BeginTick, NEW v \in Vehicle, OnItsOwn(v), InOrder(v)
  PROVE  (\A t \in missed' : t[1] # v) /\ InOrder(v)'
<1>1. /\ conf' = conf /\ step' = step /\ This' = This /\ Period' = Period
      /\ missed' = {t \in Task : Late(t)}
  BY Configured DEF BeginTick
<1>2. ASSUME NEW t \in Own(v) PROVE ~Late(t)
  <2> SUFFICES ASSUME Late(t) PROVE FALSE
    OBVIOUS
  <2>1. t \in Task
    BY OwnTasks
  <2>2. PICK n \in Nat, s \in Nat : n = job[t].nextRelease /\ s = step /\ n <= s /\ Left(t) > 0
    BY <2>1, LeftType DEF Late
  <2>3. PICK x \in Nat \ {0} : DoneIn(t, x)
    BY <2>2 DEF InOrder
  <2>4. s + x <= n
    BY <2>2, <2>3 DEF DoneIn
  <2> QED
    BY <2>2, <2>4
<1>3. \A t \in missed' : t[1] # v
  BY <1>1, <1>2 DEF WorkInv, Own, Late
<1>4. \A t \in Own(v) : t \in Task /\ Begun(t)
  BY <1>2, OwnTasks, WorkBegin
<1>5. ASSUME NEW t \in Own(v)
      PROVE  /\ \E b \in Nat : b < Period[t[2]] /\ Kept(t, b)'
             /\ Left(t)' > 0 => \E x \in Nat \ {0} : DoneIn(t, x)'
  <2>1. PICK n \in Nat, p \in Nat \ {0}, l \in Nat, w \in Nat, s \in Nat :
          /\ n = job[t].nextRelease /\ p = Period[t[2]] /\ l = Left(t) /\ w = Wcet(This, t)
          /\ s = step
    BY <1>4, LeftType
  <2>2. PICK b \in Nat : b < p /\ Kept(t, b)
    BY <2>1 DEF InOrder
  <2>3. ASSUME NEW x \in Nat \ {0}
        PROVE  /\ LoadAbove(t, x) \in Int /\ LoadAbove(t, x)' \in Int
               /\ LoadAbove(t, x)' <= LoadAbove(t, x)
    BY <1>4, AboveBegun, AboveType, x \in Nat
  <2>4. ASSUME NEW x \in Nat \ {0}
        PROVE  /\ BurstAbove(t, b + x) \in Int /\ BurstAbove(t, b + x)' = BurstAbove(t, b + x)
               /\ LoadAbove(t, x)' + b <= BurstAbove(t, b + x)
    <3>1. BurstAbove(t, b + x) \in Int /\ BurstAbove(t, b + x)' = BurstAbove(t, b + x)
      BY <1>1, OwnKeeps, AboveType, b + x \in Nat
    <3>2. LoadAbove(t, x) + b <= BurstAbove(t, b + x)
      BY <2>2 DEF Kept
    <3> QED
      BY <2>3, <3>1, <3>2
  <2>5. Kept(t, b)'
    BY <2>4 DEF Kept
  <2>6. ASSUME Left(t)' > 0 PROVE \E x \in Nat \ {0} : DoneIn(t, x)'
    <3>1. CASE s < n /\ Left(t)' = l /\ job'[t].nextRelease = n
      <4>1. PICK x \in Nat \ {0} : DoneIn(t, x)
        BY <2>1, <2>6, <3>1 DEF InOrder
      <4>2. s + x <= n /\ l + LoadAbove(t, x) <= x
        BY <2>1, <4>1 DEF DoneIn
      <4>3. l + LoadAbove(t, x)' <= x
        BY <2>3, <4>2
      <4>4. DoneIn(t, x)'
        BY <1>1, <2>1, <3>1, <4>2, <4>3 DEF DoneIn
      <4> QED
        BY <4>4
    <3>2. CASE s = n /\ Left(t)' \in 2 .. w /\ job'[t].nextRelease = n + p
      <4>1. PICK x \in Nat \ {0} : x = p - b
        BY <2>2
      <4>2. BurstAbove(t, p) \in Int /\ w + BurstAbove(t, p) <= p
        BY <2>1, FullShare
      <4>3. LoadAbove(t, x)' + b <= BurstAbove(t, p)
        <5>1. b + x = p
          BY <4>1
        <5> QED
          BY <2>4, <5>1
      <4>4. PICK e \in 2 .. w : e = Left(t)'
        BY <3>2
      <4>5. e + LoadAbove(t, x)' <= x
        <5>1. PICK i \in Int, j \in Int : i = LoadAbove(t, x)' /\ j = BurstAbove(t, p)
          BY <2>3, <4>2
        <5> QED
          BY <4>1, <4>2, <4>3, <5>1
      <4>6. s + x <= n + p
        BY <3>2, <4>1
      <4>7. DoneIn(t, x)'
        BY <1>1, <2>1, <3>2, <4>4, <4>5, <4>6 DEF DoneIn
      <4> QED
        BY <4>7
    <3> QED
      BY <1>4, <2>1, <3>1, <3>2 DEF Begun
  <2> QED
    BY <2>1, <2>2, <2>5, <2>6
<1>6. InOrder(v)'
  <2>1. Own(v)' = Own(v)
    BY <1>1, OwnKeeps
  <2> QED
    BY <1>1, <1>5, <2>1 DEF InOrder
<1> QED
  BY <1>3, <1>6

\* A tick of the core either goes to those above t or, if they are idle, to t.
LEMMA OwnGrant ==
  ASSUME FleetInv, WorkInv, NEW v \in Vehicle, OnItsOwn(v), InOrder(v),
         NEW chosen, chosen = Assign(This.policy, Ready), chosen \subseteq Ready, Grant(chosen)
  PROVE  InOrder(v)'
<1>1. conf' = conf /\ step' = step + 1 /\ This' = This /\ Period' = Period /\ phase = "end"
  BY Configured DEF Grant
<1>2. \A t \in Task : Given(t, chosen)
  BY WorkGrant
<1>3. ASSUME NEW t \in Own(v)
      PROVE  /\ \E b \in Nat : b < Period[t[2]] /\ Kept(t, b)'
             /\ Left(t)' > 0 => \E x \in Nat \ {0} : DoneIn(t, x)'
  <2>1. t \in Task /\ t[1] = v /\ Above(t) \in SUBSET Own(v)
    BY OwnTasks
  <2>2. PICK n \in Nat, p \in Nat \ {0}, l \in Nat, w \in Nat, s \in Nat :
          /\ n = job[t].nextRelease /\ p = Period[t[2]] /\ l = Left(t) /\ w = Wcet(This, t)
          /\ s = step /\ n = job'[t].nextRelease /\ w >= 2
    BY <1>2, <2>1, LeftType DEF Given
  <2>3. PICK b \in Nat : b < p /\ Kept(t, b)
    BY <2>2 DEF InOrder
  <2>4. PICK k \in Nat : k = Left(t)' /\ k = IF t \in Tasks(chosen) THEN l - 1 ELSE l
    BY <1>2, <2>1, <2>2 DEF Given
  <2>5. ASSUME NEW x \in Nat
        PROVE  LoadAbove(t, x)' \in Int /\ LoadAbove(t, x + 1) \in Int
               /\ BurstAbove(t, x) \in Int /\ BurstAbove(t, x)' = BurstAbove(t, x)
               /\ LoadAbove(t, x)' <= LoadAbove(t, x + 1) /\ 0 <= LoadAbove(t, x)'
    BY <1>1, <1>2, AboveGiven, AboveType, OwnKeeps, x + 1 \in Nat
  <2>6. CASE \E u \in Above(t) : Left(u) > 0
    <3>1. PICK u \in Above(t) : Left(u) > 0
      BY <2>6
    <3>2. PICK y \in Above(t) : y \in Tasks(chosen)
      <4>1. PICK y \in Own(v) : y \in Tasks(chosen) /\ (y = u \/ y \in Above(u))
        BY <2>1, <3>1, PrmServes
      <4>2. y \in Above(t)
        BY <4>1, AboveAll
      <4> QED
        BY <4>1, <4>2
    <3>3. ASSUME NEW x \in Nat PROVE LoadAbove(t, x)' <= LoadAbove(t, x + 1) - 1
      BY <1>2, <3>2, AboveGiven
    <3>4. b + 1 < p
      <4> SUFFICES ASSUME b + 1 = p PROVE FALSE
        BY <2>3
      <4>1. LoadAbove(t, 1) + b <= BurstAbove(t, b + 1)
        BY <2>3, 1 \in Nat \ {0} DEF Kept
      <4>2. 0 <= LoadAbove(t, 1) /\ LoadAbove(t, 1) \in Int
        BY AboveType, 1 \in Nat
      <4>3. w + BurstAbove(t, p) <= p /\ BurstAbove(t, p) \in Int
        BY <2>2, FullShare
      <4>4. PICK i \in Int, j \in Int : i = LoadAbove(t, 1) /\ j = BurstAbove(t, p)
        BY <4>2, <4>3
      <4>5. i + b <= j /\ w + j <= p /\ 0 <= i
        BY <4>1, <4>2, <4>3, <4>4
      <4> QED
        BY <2>2, <4>5
    <3>5. Kept(t, b + 1)'
      <4>1. ASSUME NEW x \in Nat \ {0}
            PROVE  LoadAbove(t, x)' + (b + 1) <= BurstAbove(t, (b + 1) + x)'
        <5>1. PICK y1 \in Nat \ {0}, z \in Nat : y1 = x + 1 /\ z = b + y1 /\ z = (b + 1) + x
          OBVIOUS
        <5>2. LoadAbove(t, y1) + b <= BurstAbove(t, z)
          BY <2>3, <5>1 DEF Kept
        <5>3. LoadAbove(t, x)' <= LoadAbove(t, y1) - 1
          BY <3>3, <5>1
        <5>4. LoadAbove(t, x)' \in Int /\ LoadAbove(t, y1) \in Int
          BY <2>5, <5>1
        <5>5. BurstAbove(t, z) \in Int /\ BurstAbove(t, z)' = BurstAbove(t, z)
          BY <2>5
        <5>6. PICK i \in Int, j \in Int, m \in Int :
                i = LoadAbove(t, x)' /\ j = LoadAbove(t, y1) /\ m = BurstAbove(t, z)
          BY <5>4, <5>5
        <5>7. i + (b + 1) <= m
          BY <5>2, <5>3, <5>6
        <5> QED
          BY <5>1, <5>5, <5>6, <5>7
      <4> QED
        BY <4>1 DEF Kept
    <3>6. ASSUME k > 0 PROVE \E x \in Nat \ {0} : DoneIn(t, x)'
      <4>1. k <= l /\ l > 0
        BY <2>4, <3>6
      <4>2. PICK x \in Nat \ {0} : DoneIn(t, x)
        BY <2>2, <4>1 DEF InOrder
      <4>3. PICK z \in Nat : z = x - 1 /\ z + 1 = x
        OBVIOUS
      <4>4. s + x <= n /\ l + LoadAbove(t, x) <= x
        BY <2>2, <4>2 DEF DoneIn
      <4>5. LoadAbove(t, z)' <= LoadAbove(t, x) - 1 /\ LoadAbove(t, z)' \in Int
            /\ LoadAbove(t, x) \in Int
        BY <2>5, <3>3, <4>3
      <4>6. k + LoadAbove(t, z)' <= z
        BY <4>1, <4>3, <4>4, <4>5
      <4>7. (s + 1) + z <= n
        BY <4>3, <4>4
      <4>8. z > 0
        <5>1. 0 <= LoadAbove(t, z)'
          BY <2>5
        <5> QED
          BY <3>6, <4>5, <4>6, <5>1
      <4> QED
        BY <1>1, <2>2, <2>4, <4>6, <4>7, <4>8 DEF DoneIn
    <3> QED
      BY <2>2, <2>4, <3>4, <3>5, <3>6
  <2>7. CASE ~\E u \in Above(t) : Left(u) > 0
    <3>1. \A u \in Above(t) : Left(u) = 0
      <4>1. ASSUME NEW u \in Above(t) PROVE Left(u) = 0
        <5>1. Left(u) \in Nat
          BY <2>1, OwnTasks, LeftType
        <5> QED
          BY <2>7, <5>1
      <4> QED
        BY <4>1
    <3>2. Kept(t, 0)'
      <4>1. ASSUME NEW x \in Nat \ {0} PROVE LoadAbove(t, x)' + 0 <= BurstAbove(t, 0 + x)'
        <5>1. LoadAbove(t, x)' <= BurstAbove(t, x)
          BY <1>2, <3>1, AboveGiven, x \in Nat, x > 0
        <5>2. LoadAbove(t, x)' \in Int /\ BurstAbove(t, x)' = BurstAbove(t, x) /\ 0 + x = x
          BY <2>5, x \in Nat
        <5> QED
          BY <5>1, <5>2
      <4> QED
        BY <4>1 DEF Kept
    <3>3. ASSUME k > 0 PROVE \E x \in Nat \ {0} : DoneIn(t, x)'
      <4>1. l > 0
        BY <2>4, <3>3
      <4>2. t \in Tasks(chosen)
        <5>1. PICK y \in Own(v) : y \in Tasks(chosen) /\ (y = t \/ y \in Above(t))
          BY <2>2, <4>1, PrmServes
        <5>2. Left(y) >= 1
          BY <1>2, <5>1, OwnTasks DEF Given
        <5>3. y \notin Above(t)
          BY <3>1, <5>2
        <5> QED
          BY <5>1, <5>3
      <4>3. PICK x \in Nat \ {0} : DoneIn(t, x)
        BY <2>2, <4>1 DEF InOrder
      <4>4. PICK z \in Nat : z = x - 1 /\ z + 1 = x
        OBVIOUS
      <4>5. s + x <= n /\ l + LoadAbove(t, x) <= x
        BY <2>2, <4>3 DEF DoneIn
      <4>6. LoadAbove(t, z)' <= LoadAbove(t, x) /\ LoadAbove(t, z)' \in Int
            /\ LoadAbove(t, x) \in Int /\ 0 <= LoadAbove(t, z)'
        BY <2>5, <4>4
      <4>7. k + LoadAbove(t, z)' <= z
        BY <2>4, <4>2, <4>4, <4>5, <4>6
      <4>8. (s + 1) + z <= n /\ z > 0
        BY <3>3, <4>4, <4>5, <4>6, <4>7
      <4> QED
        BY <1>1, <2>2, <2>4, <4>7, <4>8 DEF DoneIn
    <3>4. 0 < Period[t[2]]
      BY <2>2
    <3> QED
      BY <2>4, <3>2, <3>3, <3>4
  <2> QED
    BY <2>6, <2>7
<1>4. InOrder(v)'
  <2>1. Own(v)' = Own(v)
    BY <1>1, OwnKeeps
  <2> QED
    BY <1>1, <1>3, <2>1 DEF InOrder
<1> QED
  BY <1>4

LEMMA OwnStep == FleetInv /\ WorkInv /\ OwnInv /\ [FrontierNext]_frontierVars => OwnInv'
<1> SUFFICES ASSUME FleetInv, WorkInv, OwnInv, [FrontierNext]_frontierVars PROVE OwnInv'
  OBVIOUS
<1>1. CASE Begin
  <2>1. BeginTick /\ conf' = conf /\ missed' \in SUBSET Task
    BY <1>1 DEF Begin, BeginTick
  <2>2. ASSUME NEW v \in Vehicle, OnItsOwn(v)'
        PROVE  (\A t \in missed' : t[1] # v) /\ InOrder(v)'
    <3>1. OnItsOwn(v)
      BY <2>1, <2>2, OwnKeeps
    <3>2. InOrder(v)
      BY <3>1 DEF OwnInv
    <3> QED
      BY <2>1, <3>1, <3>2, OwnBegin
  <2> QED
    BY <2>1, <2>2 DEF OwnInv
<1>2. CASE StatelessEnd
  <2>1. PICK chosen : /\ Grant(chosen) /\ chosen = Assign(This.policy, Ready)
                      /\ chosen \subseteq Ready
    BY <1>2, AssignReady DEF StatelessEnd, EndTick
  <2>2. conf' = conf /\ missed' = missed
    BY <2>1 DEF Grant
  <2>3. ASSUME NEW v \in Vehicle, OnItsOwn(v)'
        PROVE  (\A t \in missed' : t[1] # v) /\ InOrder(v)'
    <3>1. OnItsOwn(v)
      BY <2>2, <2>3, OwnKeeps
    <3>2. InOrder(v) /\ \A t \in missed : t[1] # v
      BY <3>1 DEF OwnInv
    <3> QED
      BY <2>1, <2>2, <3>1, <3>2, OwnGrant
  <2> QED
    BY <2>2, <2>3 DEF OwnInv
<1>3. CASE FrontierEnd
  <2>1. conf' = conf /\ missed' = missed /\ This.policy # "prm"
    BY <1>3 DEF FrontierEnd, Grant
  <2>2. \A v \in Vehicle : ~OnItsOwn(v)'
    BY <2>1, OwnKeeps DEF OnItsOwn
  <2> QED
    BY <2>1, <2>2 DEF OwnInv
<1>4. CASE UNCHANGED frontierVars
  <2>1. conf' = conf /\ step' = step /\ job' = job /\ missed' = missed
    BY <1>4 DEF frontierVars, fleetVars
  <2>2. This' = This /\ Period' = Period
    BY <2>1, Configured
  <2>3. ASSUME NEW v \in Vehicle
        PROVE  (OnItsOwn(v)' <=> OnItsOwn(v)) /\ Own(v)' = Own(v)
               /\ \A t \in Own(v) : \A x : /\ Left(t)' = Left(t) /\ (DoneIn(t, x)' <=> DoneIn(t, x))
                                           /\ (Kept(t, x)' <=> Kept(t, x))
    <3>1. ASSUME NEW t \in Own(v), NEW x
          PROVE  /\ Left(t)' = Left(t) /\ (DoneIn(t, x)' <=> DoneIn(t, x))
                 /\ (Kept(t, x)' <=> Kept(t, x))
      <4>1. \A u : Left(u)' = Left(u)
        BY <2>1 DEF Left
      <4>2. \A u, y : Load(u, y)' = Load(u, y)
        BY <2>1, <2>2, <4>1 DEF Load, Releases, Wcet
      <4>3. \A y : LoadAbove(t, y)' = LoadAbove(t, y)
        <5>1. Own(t[1])' = Own(t[1]) /\ Above(t)' = Above(t)
          BY <2>1, OwnKeeps
        <5>2. ASSUME NEW y PROVE LoadAbove(t, y)' = LoadAbove(t, y)
          <6>1. LoadsAbove(t, y)' = LoadsAbove(t, y)
            BY <4>2, <5>1 DEF LoadsAbove
          <6> QED
            BY <5>1, <6>1 DEF LoadAbove
        <5> QED
          BY <5>2
      <4>4. \A y : BurstAbove(t, y)' = BurstAbove(t, y)
        BY <2>1, OwnKeeps
      <4> QED
        BY <2>1, <4>1, <4>3, <4>4 DEF DoneIn, Kept
    <3> QED
      BY <2>1, <3>1, OwnKeeps
  <2>4. \A v \in Vehicle : OnItsOwn(v)' <=> OnItsOwn(v)
    BY <2>3
  <2>5. ASSUME NEW v \in Vehicle, InOrder(v) PROVE InOrder(v)'
    BY <2>2, <2>3, <2>5 DEF InOrder
  <2> QED
    BY <2>1, <2>4, <2>5 DEF OwnInv
<1> QED
  BY <1>1, <1>2, <1>3, <1>4 DEF FrontierNext

\* PartitionedRM.cpp:2-8: no migration and no work stealing.  A vehicle with a core to
\* itself, whose tasks have harmonic periods and need no more than the core, misses no
\* deadline, whatever the other vehicles ask of theirs.
THEOREM PartitionsIsolate == FrontierSpec => []PartitionIsolated
<1>1. FrontierInit => FleetInv /\ WorkInv /\ OwnInv
  BY FleetStart, WorkStart, OwnStart DEF FrontierInit
<1>2. OwnInv => PartitionIsolated
  <2> SUFFICES ASSUME OwnInv, This.policy = "prm", NCores > 0, NEW t \in missed,
                      \A u \in Vehicle \ {t[1]} : u % NCores # t[1] % NCores,
                      Harmonic(This, Own(t[1])), FitsOneCore(This, Own(t[1]))
               PROVE  FALSE
    BY DEF PartitionIsolated, Own
  <2>1. t[1] \in Vehicle
    BY TaskParts DEF OwnInv
  <2>2. OnItsOwn(t[1])
    BY DEF OnItsOwn
  <2> QED
    BY <2>1, <2>2 DEF OwnInv
<1> QED
  BY <1>1, <1>2, OwnStep, FleetInvariant, WorkInvariant, PTL DEF FrontierSpec
=============================================================================
