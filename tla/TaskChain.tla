----------------------------- MODULE TaskChain ------------------------------
(***************************************************************************)
(* One vehicle's control chain (TaskChainModel): Sensor -> network ->      *)
(* Estimator -> {Controller, Feedforward} -> Merger -> network ->          *)
(* Actuator.  A tick is a BeginTick (releases) followed by an EndTick      *)
(* (execution, publications, packets, stamps).  Which ready cloud jobs get *)
(* a core, the sampled execution and transmission times, and the car's     *)
(* zone are the environment's choice.                                      *)
(***************************************************************************)
EXTENDS LatchAge, Sequences, SequencesExt

CONSTANTS
  Period,       \* ticks between two releases, per task kind
  Offset,       \* tick of the first release, per task kind
  ExecTicks,    \* execution times a job may be sampled with, per task kind
  ScDelays,     \* transmission times sensor -> cloud
  CaDelays,     \* transmission times cloud -> actuator
  Overrun,      \* "KillAndHold" or "SkipNext"
  FfExtraTicks, \* --ff-extra-ms: delay of every Feedforward publication
  NCores,       \* cores the scheduler can hand out in a tick
  Views,        \* what the zone a car is in may impose on its chain in a tick
  MaxStep       \* length of the run, in ticks

TaskKind == {"Sensor", "Estimator", "Controller", "Feedforward", "Merger", "Actuator"}
InVehicle == {"Sensor", "Actuator"}
CloudKind == TaskKind \ InVehicle

View == [zoneFlagged : BOOLEAN, extraNetDelay : Nat,
         fzHold : Nat, fzDelta : Nat, bzHold : Nat]

ASSUME TaskSetAssumption ==
  /\ Period \in [TaskKind -> Nat \ {0}]
  /\ Offset \in [TaskKind -> Nat]
  /\ ExecTicks \in [TaskKind -> (SUBSET (Nat \ {0, 1})) \ {{}}]
  /\ ScDelays \in (SUBSET (Nat \ {0})) \ {{}}
  /\ CaDelays \in (SUBSET (Nat \ {0})) \ {{}}
  /\ Overrun \in {"KillAndHold", "SkipNext"}
  /\ FfExtraTicks \in Nat
  /\ NCores \in Nat
  /\ Views \in (SUBSET View) \ {{}}
  /\ MaxStep \in Nat

VARIABLES
  step,         \* the tick being simulated
  phase,        \* "begin" or "end": which half of the tick comes next
  view,         \* the zone's demands in this tick
  job,          \* TaskChainModel::Job, per kind
  missed,       \* missedByKind_
  scReceiveAt,  \* packets in flight, sensor -> cloud
  caReceiveAt,  \* packets in flight, cloud -> actuator
  sensComp, sensOut, scRec, estComp, estOut, fbComp, fbOut,
                \* stamps: tick of the sensor sample behind each register
  aggComp, aggOut, caRec, actIn, actOut,
                \* the same under both merge conventions
  bCurAct, bPubAct, ffCurAct, ffPubAct,
                \* activation ticks of the current and of the published job
  ffFinDueAt,   \* tick of the delayed Feedforward publication
  maxAge,       \* worst age of the applied command, both conventions
  latch,        \* window of recent latch-time ages
  trig,         \* VehicleTriggers: the pulses of the last tick
  finished      \* history: completed jobs per kind

jobVars == <<job, missed, finished>>
estVars == <<estComp, estOut>>
bVars   == <<fbComp, fbOut, bCurAct, bPubAct>>
ffVars  == <<ffCurAct, ffPubAct, ffFinDueAt>>
aggVars == <<aggComp, aggOut>>
caVars  == <<caReceiveAt, caRec>>
scVars  == <<scReceiveAt, scRec, sensComp, sensOut>>
actVars == <<actIn, actOut, maxAge, latch>>
vars == <<step, phase, view, jobVars, scVars, estVars, bVars, ffVars, aggVars,
          caVars, actVars, trig>>

-----------------------------------------------------------------------------
(* Jobs, packets and stamps *)

Job == [nextRelease : Nat, active : BOOLEAN, started : BOOLEAN,
        execTicks : Nat, ranTicks : Nat, band : {0, 1}]

\* A stamp under the freshest and under the oldest-direct-input convention.
Lineage == [stamp : Stamp, stampOld : Stamp]
NoLineage == [stamp |-> -1, stampOld |-> -1]

Packet == [arriveStep : Nat, data : Lineage]

\* Fault: the controller's input is taken to be the fresher one.
FreshestFirst(a, b) == IF a >= 0 THEN a ELSE b

Freshest(a, b) == Later(a, b)

\* Fault: an input without sensor data drags the result to "none".
OldestUnskipped(a, b) == IF a < b THEN a ELSE b

\* An input that never carried sensor data imposes no lineage.
OldestValid(a, b) ==
  IF a < 0 THEN b ELSE IF b < 0 THEN a ELSE IF a < b THEN a ELSE b

\* The pulse that starts a job of each kind in the FMU, and the one that publishes it.
ActPulse == [k \in TaskKind |->
  CASE k = "Sensor" -> "sensor_act"   [] k = "Estimator" -> "est_act"
    [] k = "Controller" -> "ctrl_act" [] k = "Feedforward" -> "ff_act"
    [] k = "Merger" -> "merge_act"    [] k = "Actuator" -> "act_act"]

FinPulse == [k \in TaskKind |->
  CASE k = "Sensor" -> "sensor_fin"   [] k = "Estimator" -> "est_fin"
    [] k = "Controller" -> "ctrl_fin" [] k = "Feedforward" -> "ff_fin"
    [] k = "Merger" -> "merge_fin"    [] k = "Actuator" -> "act_fin"]

Pulse == {ActPulse[k] : k \in TaskKind} \cup {FinPulse[k] : k \in TaskKind} \cup
         {"net_sc_recv", "net_ca_recv", "net_sc_sent", "net_ca_sent"}

\* Faults: the release runs backwards; the next job inherits the killed one's start.
ReleasedBackwards(k, exec, flagged) ==
  [nextRelease |-> job[k].nextRelease - Period[k],
   active |-> TRUE, started |-> FALSE, execTicks |-> exec, ranTicks |-> 0, band |-> 1]

ReleasedStillStarted(k, exec, flagged) ==
  [nextRelease |-> job[k].nextRelease + Period[k],
   active |-> TRUE, started |-> job[k].started, execTicks |-> exec, ranTicks |-> 0,
   band |-> 1]

\* The job that a release leaves behind.
Released(k, exec, flagged) ==
  [nextRelease |-> job[k].nextRelease + Period[k],
   active |-> TRUE, started |-> FALSE, execTicks |-> exec, ranTicks |-> 0,
   band |-> IF flagged /\ k # "Feedforward" THEN 0 ELSE 1]

Overruns(k) == step >= job[k].nextRelease /\ job[k].active

\* Fault: a skipped release stays due and is counted again.
ReleaseNotSkipped(k, exec, flagged) ==
  IF step < job[k].nextRelease \/ (Overruns(k) /\ Overrun = "SkipNext")
    THEN job[k] ELSE Released(k, exec, flagged)

ReleaseIfDue(k, exec, flagged) ==
  CASE step < job[k].nextRelease -> job[k]
    [] Overruns(k) /\ Overrun = "SkipNext" ->
         [job[k] EXCEPT !.nextRelease = @ + Period[k]]
    [] OTHER -> Released(k, exec, flagged)

\* The cloud jobs offered to the policy, as TaskChainModel::beginTick lists them.
ReadyKinds == {k \in CloudKind : job[k].active}

\* advance(): what a core for this tick does to a job.
Runs(k, granted) == job[k].active /\ k \in InVehicle \cup granted
Activates(k, granted) == Runs(k, granted) /\ ~job[k].started
RanTicks(k) == IF job[k].started THEN job[k].ranTicks + 1 ELSE 1
Finishes(k, granted) == Runs(k, granted) /\ RanTicks(k) >= job[k].execTicks

Advance(k, granted) ==
  IF Runs(k, granted)
    THEN [job[k] EXCEPT !.started = TRUE, !.ranTicks = RanTicks(k),
                        !.active = ~Finishes(k, granted)]
    ELSE job[k]

\* fireDue(): the packet delivered now is the due one that arrived first.
Due(q) == {i \in DOMAIN q : q[i].arriveStep <= step}

FirstDue(q) ==
  CHOOSE i \in Due(q) : \A j \in Due(q) \ {i} :
    \/ q[i].arriveStep < q[j].arriveStep
    \/ q[i].arriveStep = q[j].arriveStep /\ i < j

\* Fault: a delivered packet is never erased.
InFlightForever(q) == q

InFlight(q) == IF Due(q) = {} THEN q ELSE RemoveAt(q, FirstDue(q))

-----------------------------------------------------------------------------
(* One operator per stage of endTick, in the order of the code: a stage     *)
(* reads the values the stages before it have just written.                 *)

\* Fault: of a late command packet only the fresh stamp replaces a newer one.
ReceiveOldestOnward ==
  /\ scRec' = IF Due(scReceiveAt) = {} THEN scRec
              ELSE scReceiveAt[FirstDue(scReceiveAt)].data.stamp
  /\ caRec' = IF Due(caReceiveAt) = {} THEN caRec
              ELSE [caReceiveAt[FirstDue(caReceiveAt)].data
                      EXCEPT !.stampOld = Later(caRec.stampOld, @)]

ReceivePackets ==
  /\ scRec' = IF Due(scReceiveAt) = {} THEN scRec
              ELSE scReceiveAt[FirstDue(scReceiveAt)].data.stamp
  /\ caRec' = IF Due(caReceiveAt) = {} THEN caRec
              ELSE caReceiveAt[FirstDue(caReceiveAt)].data

SensorStage(granted) ==
  /\ sensComp' = IF Activates("Sensor", granted) THEN step ELSE sensComp
  /\ sensOut' = IF Finishes("Sensor", granted) THEN sensComp' ELSE sensOut
  /\ IF Finishes("Sensor", granted)
       THEN \E delay \in ScDelays :
              scReceiveAt' =
                Append(InFlight(scReceiveAt),
                       [arriveStep |-> step + delay,
                        data |-> [stamp |-> sensOut', stampOld |-> sensOut']])
       ELSE scReceiveAt' = InFlight(scReceiveAt)

\* Fault: the estimator reads its input before this tick's packet is received.
EstimatorStageEarly(granted) ==
  /\ estComp' = IF Activates("Estimator", granted) THEN scRec ELSE estComp
  /\ estOut' = IF Finishes("Estimator", granted) THEN estComp' ELSE estOut

EstimatorStage(granted) ==
  /\ estComp' = IF Activates("Estimator", granted) THEN scRec' ELSE estComp
  /\ estOut' = IF Finishes("Estimator", granted) THEN estComp' ELSE estOut

\* The zone's publication hold: the published value is not old enough yet.
BSuppressed == view.bzHold > 0 /\ bPubAct >= 0 /\ step - bPubAct < view.bzHold
\* Fault: the hold ends a tick early.
FSuppressedShort == view.fzHold > 0 /\ ffPubAct >= 0 /\ step - ffPubAct < view.fzHold - 1

FSuppressed == view.fzHold > 0 /\ ffPubAct >= 0 /\ step - ffPubAct < view.fzHold

BPublishes(granted) == Finishes("Controller", granted) /\ ~BSuppressed

ControllerStage(granted) ==
  /\ fbComp' = IF Activates("Controller", granted) THEN estOut' ELSE fbComp
  /\ bCurAct' = IF Activates("Controller", granted) THEN step ELSE bCurAct
  /\ fbOut' = IF BPublishes(granted) THEN fbComp' ELSE fbOut
  /\ bPubAct' = IF BPublishes(granted) THEN bCurAct' ELSE bPubAct

FfExtra == Later(FfExtraTicks, IF view.fzHold > 0 THEN view.fzDelta ELSE 0)

\* Faults: the clamp allows the release tick itself; there is no clamp.
FfDueAtRelease ==
  IF step + FfExtra < job["Feedforward"].nextRelease
    THEN step + FfExtra ELSE job["Feedforward"].nextRelease

FfDueUnclamped == step + FfExtra

\* The last tick at which a publication due in FfExtra ticks still precedes
\* Feedforward's next release.
FfDueTick ==
  IF step + FfExtra < job["Feedforward"].nextRelease - 1
    THEN step + FfExtra ELSE job["Feedforward"].nextRelease - 1

\* ffFinDueAt between the completion and the check of the pending publication.
FfPending(granted) ==
  IF Finishes("Feedforward", granted) /\ ~FSuppressed /\ FfExtra > 0
    THEN FfDueTick ELSE ffFinDueAt

FfFires(granted) == FfPending(granted) >= 0 /\ step >= FfPending(granted)

FfPublishes(granted) ==
  \/ Finishes("Feedforward", granted) /\ ~FSuppressed /\ FfExtra = 0
  \/ FfFires(granted)

\* Fault: a completion counts as a publication.
FeedforwardStampedAtFinish(granted) ==
  /\ ffCurAct' = IF Activates("Feedforward", granted) THEN step ELSE ffCurAct
  /\ ffFinDueAt' = IF FfFires(granted) THEN -1 ELSE FfPending(granted)
  /\ ffPubAct' = IF Finishes("Feedforward", granted) THEN ffCurAct' ELSE ffPubAct

FeedforwardStage(granted) ==
  /\ ffCurAct' = IF Activates("Feedforward", granted) THEN step ELSE ffCurAct
  /\ ffFinDueAt' = IF FfFires(granted) THEN -1 ELSE FfPending(granted)
  /\ ffPubAct' = IF FfPublishes(granted) THEN ffCurAct' ELSE ffPubAct

MergerStage(granted) ==
  /\ aggComp' = IF Activates("Merger", granted)
                  THEN [stamp |-> Freshest(fbOut', estOut'),
                        stampOld |-> OldestValid(fbOut', estOut')]
                  ELSE aggComp
  /\ aggOut' = IF Finishes("Merger", granted) THEN aggComp' ELSE aggOut
  /\ IF Finishes("Merger", granted)
       THEN \E delay \in CaDelays :
              caReceiveAt' =
                Append(InFlight(caReceiveAt),
                       [arriveStep |-> step + delay + view.extraNetDelay,
                        data |-> aggOut'])
       ELSE caReceiveAt' = InFlight(caReceiveAt)

AgeAt(s, worst) == IF s >= 0 THEN Later(step - s, worst) ELSE worst

ActuatorStage(granted) ==
  /\ actIn' = IF Activates("Actuator", granted) THEN caRec' ELSE actIn
  /\ actOut' = IF Finishes("Actuator", granted) THEN actIn' ELSE actOut
  /\ latch' = IF Finishes("Actuator", granted) /\ actOut'.stampOld >= 0
                THEN Latch(latch, step, step - actOut'.stampOld) ELSE latch
  /\ maxAge' = [stamp |-> AgeAt(actOut'.stamp, maxAge.stamp),
                stampOld |-> AgeAt(actOut'.stampOld, maxAge.stampOld)]

Publishes(k, granted) ==
  CASE k = "Controller"  -> BPublishes(granted)
    [] k = "Feedforward" -> FfPublishes(granted)
    [] OTHER             -> Finishes(k, granted)

EmitPulses(granted) ==
  trig' =
    {ActPulse[k] : k \in {kind \in TaskKind : Activates(kind, granted)}} \cup
    {FinPulse[k] : k \in {kind \in TaskKind : Publishes(kind, granted)}} \cup
    {p \in {"net_sc_recv"} : Due(scReceiveAt) # {}} \cup
    {p \in {"net_ca_recv"} : Due(caReceiveAt) # {}} \cup
    {p \in {"net_sc_sent"} : Finishes("Sensor", granted)} \cup
    {p \in {"net_ca_sent"} : Finishes("Merger", granted)}

-----------------------------------------------------------------------------
(* Specification *)

Init ==
  /\ step = 0 /\ phase = "begin" /\ view \in Views
  /\ job = [k \in TaskKind |->
              [nextRelease |-> Offset[k], active |-> FALSE, started |-> FALSE,
               execTicks |-> 0, ranTicks |-> 0, band |-> 1]]
  /\ missed = [k \in TaskKind |-> 0]
  /\ scReceiveAt = <<>> /\ caReceiveAt = <<>>
  /\ sensComp = -1 /\ sensOut = -1 /\ scRec = -1
  /\ estComp = -1 /\ estOut = -1 /\ fbComp = -1 /\ fbOut = -1
  /\ aggComp = NoLineage /\ aggOut = NoLineage /\ caRec = NoLineage
  /\ actIn = NoLineage /\ actOut = NoLineage
  /\ bCurAct = -1 /\ bPubAct = -1 /\ ffCurAct = -1 /\ ffPubAct = -1
  /\ ffFinDueAt = -1
  /\ maxAge = NoLineage
  /\ latch = EmptyWindow
  /\ trig = {}
  /\ finished = [k \in TaskKind |-> 0]

\* The execution time sampleExecTicks draws for each kind, should it release.
Samples == {f \in [TaskKind -> UNION {ExecTicks[k] : k \in TaskKind}] :
              \A k \in TaskKind : f[k] \in ExecTicks[k]}

BeginTick ==
  /\ phase = "begin" /\ step < MaxStep
  /\ phase' = "end"
  /\ view' \in Views
  /\ \E exec \in Samples :
       job' = [k \in TaskKind |-> ReleaseIfDue(k, exec[k], view'.zoneFlagged)]
  /\ missed' = [k \in TaskKind |-> IF Overruns(k) THEN missed[k] + 1 ELSE missed[k]]
  /\ UNCHANGED <<step, finished, scVars, estVars, bVars, ffVars, aggVars, caVars,
                 actVars, trig>>

\* granted: the kinds whose grantedThisTick the scheduler has set.
EndTick(granted) ==
  /\ phase = "end"
  /\ ReceivePackets
  /\ SensorStage(granted)
  /\ EstimatorStage(granted)
  /\ ControllerStage(granted)
  /\ FeedforwardStage(granted)
  /\ MergerStage(granted)
  /\ ActuatorStage(granted)
  /\ EmitPulses(granted)
  /\ job' = [k \in TaskKind |-> Advance(k, granted)]
  /\ finished' = [k \in TaskKind |->
                    IF Finishes(k, granted) THEN finished[k] + 1 ELSE finished[k]]
  /\ step' = step + 1 /\ phase' = "begin"
  /\ UNCHANGED <<missed, view>>

\* The policies choose min(nCores, |ready|) jobs of the whole fleet, so any choice
\* of at most NCores of this vehicle's jobs can come out.
Grants == {granted \in SUBSET ReadyKinds : Cardinality(granted) <= NCores}

Next == BeginTick \/ \E granted \in Grants : EndTick(granted)

Spec == Init /\ [][Next]_vars

-----------------------------------------------------------------------------
(* Properties *)

\* Type correctness of the chain's state.
TypeOK ==
  /\ step \in Nat /\ phase \in {"begin", "end"} /\ view \in View
  /\ job \in [TaskKind -> Job]
  /\ missed \in [TaskKind -> Nat] /\ finished \in [TaskKind -> Nat]
  /\ scReceiveAt \in Seq(Packet) /\ caReceiveAt \in Seq(Packet)
  /\ {sensComp, sensOut, scRec, estComp, estOut, fbComp, fbOut} \subseteq Stamp
  /\ {aggComp, aggOut, caRec, actIn, actOut, maxAge} \subseteq Lineage
  /\ {bCurAct, bPubAct, ffCurAct, ffPubAct, ffFinDueAt} \subseteq Stamp
  /\ latch \in Window
  /\ trig \subseteq Pulse

\* Every release ends exactly once: as a completion, as a miss, or still
\* running (releaseIfDue counts killed jobs and skipped releases alike).
ReleasesAccounted ==
  \A k \in TaskKind :
    job[k].nextRelease =
      Offset[k] + Period[k] * (finished[k] + missed[k] + IF job[k].active THEN 1 ELSE 0)

\* The FMU publishes before it activates within one step, so a kind must never
\* be told to do both in the same tick: exec times are at least 2 ticks, and a
\* delayed Feedforward publication is clamped to before its next release.
NoPublishWithActivate ==
  \A k \in TaskKind : ~({ActPulse[k], FinPulse[k]} \subseteq trig)

\* A pending Feedforward publication belongs to the job that has just completed:
\* it comes due before the next release, while no Feedforward job exists, so
\* the value in ff_comp is still that job's.
PendingPublishOwned ==
  ffFinDueAt >= 0 =>
    /\ ~job["Feedforward"].active
    /\ step <= ffFinDueAt /\ ffFinDueAt < job["Feedforward"].nextRelease

\* Under kill-and-hold, what the Controller or Feedforward publishes was computed
\* by a job activated since that kind's latest release, never by a killed one.
KilledJobNeverPublishes ==
  (phase = "begin" /\ Overrun = "KillAndHold") =>
    /\ "ctrl_fin" \in trig =>
         bPubAct >= job["Controller"].nextRelease - Period["Controller"]
    /\ "ff_fin" \in trig =>
         ffPubAct >= job["Feedforward"].nextRelease - Period["Feedforward"]

\* No register is older under the freshest-contributing convention than under
\* the oldest-direct-input one, whatever order packets arrive in, so age_fresh
\* never exceeds age_path.
FreshNoOlderThanPath ==
  /\ \A l \in {aggComp, aggOut, caRec, actIn, actOut} :
       l.stampOld <= l.stamp /\ (l.stampOld >= 0 <=> l.stamp >= 0)
  /\ maxAge.stamp <= maxAge.stampOld

\* With a fixed sensor network delay the merger's two conventions are the two
\* chains endTick's comment names: the freshest stamp is the estimator's (the
\* S-E-M-A shortcut), the oldest the controller's (the S-E-B-M-A path).
MergerReadsShortcutAndPath ==
  "merge_act" \in trig =>
    /\ aggComp.stamp = estOut
    /\ aggComp.stampOld = IF fbOut >= 0 THEN fbOut ELSE estOut

\* With fixed delays on both networks the applied command never goes back to
\* older sensor data.
AppliedNeverRegresses == [][actOut'.stamp >= actOut.stamp]_vars

\* The Feedforward hold: while the zone demands a dose, a new value is published
\* only once the published one has reached it.
FDoseReached ==
  [][("ff_fin" \in trig' /\ phase = "end" /\ view.fzHold > 0 /\ ffPubAct >= 0)
       => step - ffPubAct >= view.fzHold]_vars
=============================================================================
