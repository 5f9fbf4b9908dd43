--------------------------- MODULE TaskChainProofs ---------------------------
(***************************************************************************)
(* Theorems about the chain model, for every task set, delay, zone view    *)
(* and number of cores that TaskSetAssumption admits: what is published,   *)
(* and how old the data is that it was computed from.                      *)
(***************************************************************************)
EXTENDS TaskChain, Lemmas, TLAPS

-----------------------------------------------------------------------------
(* Packets in flight *)

\* The fields of a packet in a queue.
LEMMA PacketFields ==
  ASSUME NEW q \in Seq(Packet), NEW i \in 1 .. Len(q)
  PROVE  /\ q[i] \in Packet
         /\ q[i].arriveStep \in Nat
         /\ q[i].data \in Lineage
         /\ q[i].data.stamp \in Stamp
         /\ q[i].data.stampOld \in Stamp
<1>1. q[i] \in Packet
  BY ElementOfSeq
<1>2. q[i].arriveStep \in Nat /\ q[i].data \in Lineage
  BY <1>1 DEF Packet
<1> QED
  BY <1>1, <1>2 DEF Lineage

\* The packets that are due are places in the queue.
LEMMA DueInQueue ==
  ASSUME NEW q \in Seq(Packet)
  PROVE  Due(q) = {i \in 1 .. Len(q) : q[i].arriveStep <= step}
BY LenProperties DEF Due

\* When a packet is due, fireDue picks one that is, and no due packet arrived before.
LEMMA FirstDueIsDue ==
  ASSUME NEW q \in Seq(Packet), Due(q) # {}
  PROVE  /\ FirstDue(q) \in Due(q)
         /\ \A j \in Due(q) : q[FirstDue(q)].arriveStep <= q[j].arriveStep
<1>1. \A i \in Due(q) : i \in 1 .. Len(q) /\ q[i].arriveStep \in Nat
  BY DueInQueue, PacketFields
<1> DEFINE Arrivals == {q[i].arriveStep : i \in Due(q)}
<1>2. PICK a \in Arrivals : \A other \in Arrivals : a <= other
  <2>1. Arrivals \subseteq Nat /\ Arrivals # {}
    BY <1>1
  <2> HIDE DEF Arrivals
  <2> QED
    BY <2>1, LeastExists
<1> DEFINE Earliest == {i \in Due(q) : q[i].arriveStep = a}
<1>3. PICK i \in Earliest : \A j \in Earliest : i <= j
  <2>1. Earliest \subseteq Nat /\ Earliest # {}
    BY <1>1, <1>2
  <2> HIDE DEF Earliest
  <2> QED
    BY <2>1, LeastExists
<1>4. /\ i \in Due(q)
      /\ \A j \in Due(q) \ {i} :
           \/ q[i].arriveStep < q[j].arriveStep
           \/ q[i].arriveStep = q[j].arriveStep /\ i < j
  <2> SUFFICES ASSUME NEW j \in Due(q) \ {i}
               PROVE  \/ q[i].arriveStep < q[j].arriveStep
                      \/ q[i].arriveStep = q[j].arriveStep /\ i < j
    BY <1>3
  <2>1. q[i].arriveStep = a /\ a <= q[j].arriveStep
    BY <1>2, <1>3
  <2>2. CASE q[j].arriveStep = a
    BY <1>1, <1>3, <2>1, <2>2
  <2>3. CASE q[j].arriveStep # a
    BY <1>1, <2>1, <2>3
  <2> QED
    BY <2>2, <2>3
<1> DEFINE First(k) == /\ k \in Due(q)
                       /\ \A j \in Due(q) \ {k} :
                            \/ q[k].arriveStep < q[j].arriveStep
                            \/ q[k].arriveStep = q[j].arriveStep /\ k < j
<1>5. First(FirstDue(q))
  BY <1>4 DEF FirstDue
<1> QED
  BY <1>1, <1>5

\* Delivering leaves a queue of packets, whatever the queue.
LEMMA InFlightType ==
  ASSUME NEW q \in Seq(Packet)
  PROVE  InFlight(q) \in Seq(Packet)
<1>1. CASE Due(q) = {}
  BY <1>1 DEF InFlight
<1>2. CASE Due(q) # {}
  <2>1. FirstDue(q) \in 1 .. Len(q)
    BY <1>2, FirstDueIsDue, DueInQueue
  <2> QED
    BY <1>2, <2>1, RemoveAtElements DEF InFlight
<1> QED
  BY <1>1, <1>2

\* What a delivery hands over is the data of a packet.
LEMMA FirstDueData ==
  ASSUME NEW q \in Seq(Packet), Due(q) # {}
  PROVE  /\ q[FirstDue(q)].data \in Lineage
         /\ q[FirstDue(q)].data.stamp \in Stamp
         /\ q[FirstDue(q)].data.stampOld \in Stamp
<1>1. FirstDue(q) \in 1 .. Len(q)
  BY FirstDueIsDue, DueInQueue
<1> QED
  BY <1>1, PacketFields

-----------------------------------------------------------------------------
(* Types *)

\* The window stays a window, whatever the age that is latched.
LEMMA LatchType ==
  ASSUME NEW w \in Window, NEW now \in Nat, NEW age \in Int
  PROVE  Latch(w, now, age) \in Window
<1> USE LatchBucketAssumption
<1>1. /\ w.start \in Nat /\ w.cur \in Stamp /\ w.prev \in Stamp
      /\ w = [start |-> w.start, cur |-> w.cur, prev |-> w.prev]
  BY DEF Window
<1>2. Rotate(w, now) \in Window
  <2>1. CASE now - w.start >= LatchBucket
    <3>1. now % LatchBucket \in 0 .. LatchBucket - 1
      OBVIOUS
    <3>2. now - (now % LatchBucket) \in Nat
      BY <1>1, <2>1, <3>1
    <3> QED
      BY <1>1, <2>1, <3>2 DEF Rotate, Window, Stamp
  <2>2. CASE ~(now - w.start >= LatchBucket)
    BY <2>2 DEF Rotate
  <2> QED
    BY <2>1, <2>2
<1> DEFINE r == Rotate(w, now)
<1>3. /\ r.start \in Nat /\ r.cur \in Stamp /\ r.prev \in Stamp
      /\ r = [start |-> r.start, cur |-> r.cur, prev |-> r.prev]
  BY <1>2 DEF Window
<1>4. Later(age, r.cur) \in Stamp
  BY <1>3 DEF Later, Stamp
<1> HIDE DEF r
<1>5. [r EXCEPT !.cur = Later(age, @)]
        = [start |-> r.start, cur |-> Later(age, r.cur), prev |-> r.prev]
  BY <1>3
<1> QED
  BY <1>3, <1>4, <1>5 DEF Latch, r, Window

\* The worst age over the run stays a stamp.
LEMMA AgeAtType ==
  ASSUME step \in Nat, NEW s \in Stamp, NEW worst \in Stamp
  PROVE  AgeAt(s, worst) \in Stamp
BY DEF AgeAt, Later, Stamp

\* The fields of a kind's job.
LEMMA JobFields ==
  ASSUME TypeOK, NEW k \in TaskKind
  PROVE  /\ job[k] \in Job
         /\ job[k].nextRelease \in Nat
         /\ job[k].active \in BOOLEAN /\ job[k].started \in BOOLEAN
         /\ job[k].execTicks \in Nat /\ job[k].ranTicks \in Nat
         /\ job[k].band \in {0, 1}
BY DEF TypeOK, Job

LEMMA AdvanceType ==
  ASSUME TypeOK, NEW k \in TaskKind, NEW granted
  PROVE  Advance(k, granted) \in Job
<1>1. RanTicks(k) \in Nat /\ (~Finishes(k, granted)) \in BOOLEAN
  BY JobFields DEF RanTicks
<1> QED
  BY <1>1, JobFields DEF Advance, Job

LEMMA ReleaseType ==
  ASSUME TypeOK, NEW k \in TaskKind, NEW exec \in Nat, NEW flagged \in BOOLEAN
  PROVE  ReleaseIfDue(k, exec, flagged) \in Job
<1>1. job[k].nextRelease + Period[k] \in Nat
  BY JobFields, TaskSetAssumption
<1>2. Released(k, exec, flagged) \in Job
  BY <1>1 DEF Released, Job
<1>3. [job[k] EXCEPT !.nextRelease = @ + Period[k]] \in Job
  BY <1>1, JobFields DEF Job
<1> QED
  BY <1>2, <1>3, JobFields DEF ReleaseIfDue

\* The data a tick delivers.
LEMMA ReceiveType ==
  ASSUME TypeOK, ReceivePackets
  PROVE  scRec' \in Stamp /\ caRec' \in Lineage
<1>1. scReceiveAt \in Seq(Packet) /\ caReceiveAt \in Seq(Packet)
  BY DEF TypeOK
<1>2. scRec' \in Stamp
  BY <1>1, FirstDueData DEF TypeOK, ReceivePackets
<1>3. caRec' \in Lineage
  BY <1>1, FirstDueData DEF TypeOK, ReceivePackets
<1> QED
  BY <1>2, <1>3

LEMMA SensorType ==
  ASSUME TypeOK, NEW granted, SensorStage(granted)
  PROVE  sensComp' \in Stamp /\ sensOut' \in Stamp /\ scReceiveAt' \in Seq(Packet)
<1>1. sensComp' \in Stamp /\ sensOut' \in Stamp
  BY DEF TypeOK, SensorStage, Stamp
<1>2. InFlight(scReceiveAt) \in Seq(Packet)
  BY InFlightType DEF TypeOK
<1>3. CASE Finishes("Sensor", granted)
  <2>1. PICK delay \in ScDelays :
          scReceiveAt' = Append(InFlight(scReceiveAt),
                                [arriveStep |-> step + delay,
                                 data |-> [stamp |-> sensOut', stampOld |-> sensOut']])
    BY <1>3 DEF SensorStage
  <2>2. step + delay \in Nat
    BY TaskSetAssumption DEF TypeOK
  <2>3. [arriveStep |-> step + delay,
         data |-> [stamp |-> sensOut', stampOld |-> sensOut']] \in Packet
    BY <1>1, <2>2 DEF Packet, Lineage
  <2> QED
    BY <1>1, <1>2, <2>1, <2>3, AppendProperties
<1>4. CASE ~Finishes("Sensor", granted)
  BY <1>1, <1>2, <1>4 DEF SensorStage
<1> QED
  BY <1>3, <1>4

\* Both merge conventions return one of their arguments.
LEMMA MergeType ==
  ASSUME NEW a \in Stamp, NEW b \in Stamp
  PROVE  [stamp |-> Freshest(a, b), stampOld |-> OldestValid(a, b)] \in Lineage
BY DEF Freshest, Later, OldestValid, Lineage

LEMMA MergerType ==
  ASSUME TypeOK, NEW granted, MergerStage(granted),
         view \in View, fbOut' \in Stamp, estOut' \in Stamp
  PROVE  aggComp' \in Lineage /\ aggOut' \in Lineage /\ caReceiveAt' \in Seq(Packet)
<1>1. aggComp' \in Lineage
  BY MergeType DEF TypeOK, MergerStage
<1>2. aggOut' \in Lineage
  BY <1>1 DEF TypeOK, MergerStage
<1>3. InFlight(caReceiveAt) \in Seq(Packet)
  BY InFlightType DEF TypeOK
<1>4. CASE Finishes("Merger", granted)
  <2>1. PICK delay \in CaDelays :
          caReceiveAt' = Append(InFlight(caReceiveAt),
                                [arriveStep |-> step + delay + view.extraNetDelay,
                                 data |-> aggOut'])
    BY <1>4 DEF MergerStage
  <2>2. step + delay + view.extraNetDelay \in Nat
    BY TaskSetAssumption, SMTT(30) DEF TypeOK, View
  <2>3. [arriveStep |-> step + delay + view.extraNetDelay, data |-> aggOut'] \in Packet
    BY <1>2, <2>2 DEF Packet
  <2> QED
    BY <1>1, <1>2, <1>3, <2>1, <2>3, AppendProperties
<1>5. CASE ~Finishes("Merger", granted)
  BY <1>1, <1>2, <1>3, <1>5 DEF MergerStage
<1> QED
  BY <1>4, <1>5

LEMMA FeedforwardType ==
  ASSUME TypeOK, NEW granted, FeedforwardStage(granted)
  PROVE  ffCurAct' \in Stamp /\ ffPubAct' \in Stamp /\ ffFinDueAt' \in Stamp
<1>1. FfExtra \in Nat
  BY TaskSetAssumption DEF TypeOK, View, FfExtra, Later
<1>2. job["Feedforward"].nextRelease \in Nat
  BY JobFields DEF TaskKind
<1>3. FfDueTick \in Stamp
  BY <1>1, <1>2 DEF TypeOK, FfDueTick, Stamp
<1>4. FfPending(granted) \in Stamp
  BY <1>3 DEF TypeOK, FfPending
<1> QED
  BY <1>4 DEF TypeOK, FeedforwardStage, Stamp

LEMMA ActuatorType ==
  ASSUME TypeOK, NEW granted, ActuatorStage(granted), caRec' \in Lineage
  PROVE  /\ actIn' \in Lineage /\ actOut' \in Lineage /\ maxAge' \in Lineage
         /\ latch' \in Window
<1>1. actIn' \in Lineage /\ actOut' \in Lineage
  BY DEF TypeOK, ActuatorStage
<1>2. actOut'.stamp \in Stamp /\ actOut'.stampOld \in Stamp
  BY <1>1 DEF Lineage
<1>3. maxAge.stamp \in Stamp /\ maxAge.stampOld \in Stamp
  BY DEF TypeOK, Lineage
<1>4. maxAge' \in Lineage
  <2>1. step \in Nat
    BY DEF TypeOK
  <2> QED
    BY <1>2, <1>3, <2>1, AgeAtType DEF ActuatorStage, Lineage
<1>5. latch' \in Window
  <2>1. step \in Nat /\ latch \in Window /\ step - actOut'.stampOld \in Int
    BY <1>2 DEF TypeOK, Stamp
  <2> QED
    BY <2>1, LatchType DEF ActuatorStage
<1> QED
  BY <1>1, <1>4, <1>5

LEMMA InitType == Init => TypeOK
<1> SUFFICES ASSUME Init PROVE TypeOK
  OBVIOUS
<1>1. job \in [TaskKind -> Job]
  BY TaskSetAssumption DEF Init, Job
<1>2. view \in View /\ EmptyWindow \in Window /\ NoLineage \in Lineage
  BY TaskSetAssumption DEF Init, EmptyWindow, Window, NoLineage, Lineage, Stamp
<1>3. scReceiveAt \in Seq(Packet) /\ caReceiveAt \in Seq(Packet)
  BY EmptySeq DEF Init
<1> QED
  BY <1>1, <1>2, <1>3 DEF Init, TypeOK, Stamp, Pulse

LEMMA BeginTickType == TypeOK /\ BeginTick => TypeOK'
<1> SUFFICES ASSUME TypeOK, BeginTick PROVE TypeOK'
  OBVIOUS
<1>1. view' \in View
  BY TaskSetAssumption DEF BeginTick
<1>2. job' \in [TaskKind -> Job]
  <2>1. PICK exec \in Samples :
          job' = [k \in TaskKind |-> ReleaseIfDue(k, exec[k], view'.zoneFlagged)]
    BY DEF BeginTick
  <2>2. ASSUME NEW k \in TaskKind
        PROVE  ReleaseIfDue(k, exec[k], view'.zoneFlagged) \in Job
    <3>1. exec[k] \in Nat
      BY TaskSetAssumption DEF Samples
    <3>2. view'.zoneFlagged \in BOOLEAN
      BY <1>1 DEF View
    <3> QED
      BY <3>1, <3>2, ReleaseType
  <2> QED
    BY <2>1, <2>2
<1>3. missed' \in [TaskKind -> Nat]
  BY DEF BeginTick, TypeOK
<1> QED
  BY <1>1, <1>2, <1>3
  DEF BeginTick, TypeOK, scVars, estVars, bVars, ffVars, aggVars, caVars, actVars

LEMMA EndTickType ==
  ASSUME TypeOK, NEW granted, EndTick(granted)
  PROVE  TypeOK'
<1>1. scRec' \in Stamp /\ caRec' \in Lineage
  BY ReceiveType DEF EndTick
<1>2. sensComp' \in Stamp /\ sensOut' \in Stamp /\ scReceiveAt' \in Seq(Packet)
  BY SensorType DEF EndTick
<1>3. estComp' \in Stamp /\ estOut' \in Stamp
  BY <1>1 DEF TypeOK, EndTick, EstimatorStage
<1>4. /\ fbComp' \in Stamp /\ fbOut' \in Stamp
      /\ bCurAct' \in Stamp /\ bPubAct' \in Stamp
  BY <1>3 DEF TypeOK, EndTick, ControllerStage, Stamp
<1>5. ffCurAct' \in Stamp /\ ffPubAct' \in Stamp /\ ffFinDueAt' \in Stamp
  BY FeedforwardType DEF EndTick
<1>6. aggComp' \in Lineage /\ aggOut' \in Lineage /\ caReceiveAt' \in Seq(Packet)
  BY <1>3, <1>4, MergerType DEF EndTick, TypeOK
<1>7. /\ actIn' \in Lineage /\ actOut' \in Lineage /\ maxAge' \in Lineage
      /\ latch' \in Window
  BY <1>1, ActuatorType DEF EndTick
<1>8. job' \in [TaskKind -> Job]
  BY AdvanceType DEF EndTick
<1>9. finished' \in [TaskKind -> Nat]
  BY DEF EndTick, TypeOK
<1>10. trig' \subseteq Pulse
  BY DEF EndTick, EmitPulses, Pulse
<1>11. /\ step' \in Nat /\ phase' \in {"begin", "end"} /\ view' \in View
       /\ missed' \in [TaskKind -> Nat]
  BY DEF EndTick, TypeOK
<1> QED
  BY <1>1, <1>2, <1>3, <1>4, <1>5, <1>6, <1>7, <1>8, <1>9, <1>10, <1>11 DEF TypeOK

\* Type correctness, for every task set: in particular every stamp is a tick or
\* -1, and both packet queues stay sequences of packets whatever is delivered.
THEOREM TypeCorrect == Spec => []TypeOK
<1>1. Init => TypeOK
  BY InitType
<1>2. TypeOK /\ [Next]_vars => TypeOK'
  <2> SUFFICES ASSUME TypeOK, [Next]_vars PROVE TypeOK'
    OBVIOUS
  <2>1. CASE BeginTick
    BY <2>1, BeginTickType
  <2>2. ASSUME NEW granted \in Grants, EndTick(granted) PROVE TypeOK'
    BY <2>2, EndTickType
  <2>3. CASE UNCHANGED vars
    BY <2>3 DEF TypeOK, vars, jobVars, scVars, estVars, bVars, ffVars, aggVars,
                caVars, actVars
  <2> QED
    BY <2>1, <2>2, <2>3 DEF Next
<1> QED
  BY <1>1, <1>2, PTL DEF Spec

-----------------------------------------------------------------------------
(* Bookkeeping: releases, misses and completions *)

\* How many releases of a kind have been accounted for.
Accounted(k) == finished[k] + missed[k] + IF job[k].active THEN 1 ELSE 0

\* One more release, one more period.
LEMMA AccountedNext ==
  ASSUME NEW offset \in Nat, NEW period \in Nat, NEW count \in Nat
  PROVE  offset + period * (count + 1) = (offset + period * count) + period
<1>1. period * (count + 1) = period * count + period /\ period * count \in Nat
  OBVIOUS
<1> QED
  BY <1>1

LEMMA AccountedBegin ==
  ASSUME TypeOK, BeginTick, NEW k \in TaskKind
  PROVE  \/ job'[k].nextRelease = job[k].nextRelease /\ Accounted(k)' = Accounted(k)
         \/ /\ job'[k].nextRelease = job[k].nextRelease + Period[k]
            /\ Accounted(k)' = Accounted(k) + 1
<1>1. PICK exec \in Samples :
        job' = [kind \in TaskKind |-> ReleaseIfDue(kind, exec[kind], view'.zoneFlagged)]
  BY DEF BeginTick
<1>2. /\ job'[k] = ReleaseIfDue(k, exec[k], view'.zoneFlagged)
      /\ missed'[k] = IF Overruns(k) THEN missed[k] + 1 ELSE missed[k]
      /\ finished' = finished
      /\ step \in Nat /\ finished[k] \in Nat /\ missed[k] \in Nat
      /\ job[k].nextRelease \in Nat /\ job[k].active \in BOOLEAN
  BY <1>1, JobFields DEF BeginTick, TypeOK
<1>3. CASE step < job[k].nextRelease
  <2>1. job'[k] = job[k] /\ missed'[k] = missed[k]
    BY <1>2, <1>3 DEF ReleaseIfDue, Overruns
  <2> QED
    BY <1>2, <2>1 DEF Accounted
<1>4. CASE step >= job[k].nextRelease /\ Overruns(k) /\ Overrun = "SkipNext"
  <2>1. job'[k] = [job[k] EXCEPT !.nextRelease = @ + Period[k]] /\ missed'[k] = missed[k] + 1
    BY <1>2, <1>4 DEF ReleaseIfDue
  <2>2. job'[k].nextRelease = job[k].nextRelease + Period[k]
        /\ job'[k].active = job[k].active
    BY <2>1, JobFields DEF Job
  <2> QED
    BY <1>2, <2>1, <2>2 DEF Accounted
<1>5. CASE step >= job[k].nextRelease /\ ~(Overruns(k) /\ Overrun = "SkipNext")
  <2>1. job'[k] = Released(k, exec[k], view'.zoneFlagged)
    BY <1>2, <1>5 DEF ReleaseIfDue
  <2>2. job'[k].nextRelease = job[k].nextRelease + Period[k] /\ job'[k].active
    BY <2>1 DEF Released
  <2>3. missed'[k] = IF job[k].active THEN missed[k] + 1 ELSE missed[k]
    BY <1>2, <1>5 DEF Overruns
  <2> QED
    BY <1>2, <2>2, <2>3 DEF Accounted
<1> QED
  BY <1>2, <1>3, <1>4, <1>5

LEMMA AccountedEnd ==
  ASSUME TypeOK, NEW granted, EndTick(granted), NEW k \in TaskKind
  PROVE  job'[k].nextRelease = job[k].nextRelease /\ Accounted(k)' = Accounted(k)
<1>1. /\ job'[k] = Advance(k, granted) /\ missed' = missed
      /\ finished'[k] = IF Finishes(k, granted) THEN finished[k] + 1 ELSE finished[k]
      /\ finished[k] \in Nat /\ missed[k] \in Nat /\ job[k] \in Job
  BY DEF EndTick, TypeOK
<1>2. CASE Runs(k, granted)
  <2>1. job'[k] = [job[k] EXCEPT !.started = TRUE, !.ranTicks = RanTicks(k),
                                 !.active = ~Finishes(k, granted)]
    BY <1>1, <1>2 DEF Advance
  <2>2. /\ job'[k].nextRelease = job[k].nextRelease
        /\ job'[k].active <=> ~Finishes(k, granted)
        /\ job[k].active
    BY <1>1, <1>2, <2>1 DEF Job, Runs
  <2>3. CASE Finishes(k, granted)
    BY <1>1, <2>2, <2>3 DEF Accounted
  <2>4. CASE ~Finishes(k, granted)
    BY <1>1, <2>2, <2>4 DEF Accounted
  <2> QED
    BY <2>2, <2>3, <2>4
<1>3. CASE ~Runs(k, granted)
  BY <1>1, <1>3 DEF Advance, Finishes, Accounted
<1> QED
  BY <1>2, <1>3

\* Every release ends exactly once, under both overrun policies: it is completed, counted
\* as a miss, or still running.
THEOREM ReleasesBalance == Spec => []ReleasesAccounted
<1>1. Init => ReleasesAccounted
  <2> SUFFICES ASSUME Init, NEW k \in TaskKind
               PROVE  job[k].nextRelease = Offset[k] + Period[k] * Accounted(k)
    BY DEF ReleasesAccounted, Accounted
  <2>1. Accounted(k) = 0 /\ Offset[k] \in Nat /\ Period[k] \in Nat
    BY TaskSetAssumption DEF Init, Accounted
  <2>2. Period[k] * 0 = 0
    BY <2>1
  <2> QED
    BY <2>1, <2>2 DEF Init
<1>2. TypeOK /\ ReleasesAccounted /\ [Next]_vars => ReleasesAccounted'
  <2> SUFFICES ASSUME TypeOK, ReleasesAccounted, [Next]_vars, NEW k \in TaskKind
               PROVE  job'[k].nextRelease = Offset[k] + Period[k] * Accounted(k)'
    BY DEF ReleasesAccounted, Accounted
  <2>1. job[k].nextRelease = Offset[k] + Period[k] * Accounted(k)
    BY DEF ReleasesAccounted, Accounted
  <2>2. \/ job'[k].nextRelease = job[k].nextRelease /\ Accounted(k)' = Accounted(k)
        \/ /\ job'[k].nextRelease = job[k].nextRelease + Period[k]
           /\ Accounted(k)' = Accounted(k) + 1
    <3>1. CASE BeginTick
      BY <3>1, AccountedBegin
    <3>2. ASSUME NEW granted \in Grants, EndTick(granted)
          PROVE  job'[k].nextRelease = job[k].nextRelease /\ Accounted(k)' = Accounted(k)
      BY <3>2, AccountedEnd
    <3>3. CASE UNCHANGED vars
      BY <3>3 DEF vars, jobVars, Accounted
    <3> QED
      BY <3>1, <3>2, <3>3 DEF Next
  <2>3. Offset[k] \in Nat /\ Period[k] \in Nat /\ Accounted(k) \in Nat
    BY TaskSetAssumption DEF TypeOK, Accounted
  <2>4. PICK count \in Nat : count = Accounted(k)
    BY <2>3
  <2>5. Offset[k] + Period[k] * (count + 1) = (Offset[k] + Period[k] * count) + Period[k]
    BY <2>3, AccountedNext
  <2> QED
    BY <2>1, <2>2, <2>4, <2>5
<1> QED
  BY <1>1, <1>2, TypeCorrect, PTL DEF Spec

-----------------------------------------------------------------------------
(* What may be published, and when.  The inductive invariant: a job's        *)
(* release is never overdue, its implicit deadline is at most a period away  *)
(* and it needs two ticks or more; a pending publication lies before the     *)
(* next Feedforward release; and under kill-and-hold a job that has started  *)
(* was activated since its release.                                          *)

\* The tick from which on a release is still to come.
Horizon == IF phase = "end" THEN step + 1 ELSE step

JobOnTime(k) ==
  /\ Horizon <= job[k].nextRelease
  /\ job[k].active => /\ job[k].nextRelease <= step + Period[k]
                      /\ job[k].execTicks >= 2

LatestRelease(k) == job[k].nextRelease - Period[k]

ActivatedSinceRelease ==
  Overrun = "KillAndHold" =>
    /\ (job["Controller"].active /\ job["Controller"].started)
         => bCurAct >= LatestRelease("Controller")
    /\ (job["Feedforward"].active /\ job["Feedforward"].started)
         => ffCurAct >= LatestRelease("Feedforward")
    /\ ffFinDueAt >= 0 => ffCurAct >= LatestRelease("Feedforward")

PublicationInv ==
  /\ TypeOK
  /\ \A k \in TaskKind : JobOnTime(k)
  /\ PendingPublishOwned
  /\ ActivatedSinceRelease
  /\ NoPublishWithActivate
  /\ KilledJobNeverPublishes

-----------------------------------------------------------------------------
(* Pulses *)

\* The pulses of a tick, kind by kind.
LEMMA PulsesOfTick ==
  ASSUME NEW granted, EmitPulses(granted), NEW k \in TaskKind
  PROVE  /\ ActPulse[k] \in trig' <=> Activates(k, granted)
         /\ FinPulse[k] \in trig' <=> Publishes(k, granted)
<1>1. \A a, b \in TaskKind : /\ ActPulse[a] # FinPulse[b]
                             /\ ActPulse[a] = ActPulse[b] => a = b
                             /\ FinPulse[a] = FinPulse[b] => a = b
  BY DEF ActPulse, FinPulse, TaskKind
<1>2. \A a \in TaskKind :
        /\ ActPulse[a] \notin {"net_sc_recv", "net_ca_recv", "net_sc_sent", "net_ca_sent"}
        /\ FinPulse[a] \notin {"net_sc_recv", "net_ca_recv", "net_sc_sent", "net_ca_sent"}
  BY DEF ActPulse, FinPulse, TaskKind
<1> QED
  BY <1>1, <1>2 DEF EmitPulses

LEMMA NamedPulses ==
  ASSUME NEW granted, EmitPulses(granted)
  PROVE  /\ "ctrl_fin" \in trig' <=> BPublishes(granted)
         /\ "ff_fin" \in trig' <=> FfPublishes(granted)
<1>1. /\ FinPulse["Controller"] = "ctrl_fin" /\ FinPulse["Feedforward"] = "ff_fin"
      /\ "Controller" \in TaskKind /\ "Feedforward" \in TaskKind
  BY DEF FinPulse, TaskKind
<1>2. /\ Publishes("Controller", granted) <=> BPublishes(granted)
      /\ Publishes("Feedforward", granted) <=> FfPublishes(granted)
  BY DEF Publishes
<1> QED
  BY <1>1, <1>2, PulsesOfTick

\* A job cannot complete in the tick that activates it.
LEMMA NoFinishWithActivate ==
  ASSUME TypeOK, NEW k \in TaskKind, JobOnTime(k), NEW granted, Activates(k, granted)
  PROVE  ~Finishes(k, granted)
<1>1. job[k].execTicks \in Nat /\ job[k].execTicks >= 2
  BY JobFields DEF JobOnTime, Activates, Runs
<1>2. RanTicks(k) = 1
  BY DEF RanTicks, Activates
<1> QED
  BY <1>1, <1>2 DEF Finishes

-----------------------------------------------------------------------------
(* Steps *)

LEMMA PublicationInit == Init => PublicationInv
<1> SUFFICES ASSUME Init PROVE PublicationInv
  OBVIOUS
<1>1. TypeOK
  BY InitType
<1>2. \A k \in TaskKind : JobOnTime(k)
  BY TaskSetAssumption DEF Init, JobOnTime, Horizon
<1>3. PendingPublishOwned /\ NoPublishWithActivate /\ KilledJobNeverPublishes
  BY DEF Init, PendingPublishOwned, NoPublishWithActivate, KilledJobNeverPublishes
<1>4. ActivatedSinceRelease
  BY DEF Init, ActivatedSinceRelease, TaskKind
<1> QED
  BY <1>1, <1>2, <1>3, <1>4 DEF PublicationInv

\* What a release does to one kind's job.
LEMMA ReleaseOnTime ==
  ASSUME PublicationInv, BeginTick, NEW k \in TaskKind
  PROVE  /\ JobOnTime(k)'
         /\ step < job[k].nextRelease => job'[k] = job[k]
         /\ (Overrun = "KillAndHold" /\ step >= job[k].nextRelease) => ~job'[k].started
<1>0. step \in Nat /\ phase = "begin" /\ phase' = "end" /\ step' = step /\ TypeOK
  BY DEF PublicationInv, TypeOK, BeginTick
<1>1. PICK exec \in Samples :
        job' = [kind \in TaskKind |-> ReleaseIfDue(kind, exec[kind], view'.zoneFlagged)]
  BY DEF BeginTick
<1>2. job'[k] = ReleaseIfDue(k, exec[k], view'.zoneFlagged)
  BY <1>1
<1>3. exec[k] \in Nat /\ exec[k] >= 2
  BY TaskSetAssumption DEF Samples
<1>4. Period[k] \in Nat /\ Period[k] >= 1
  BY TaskSetAssumption
<1>5. /\ job[k].nextRelease \in Nat /\ step <= job[k].nextRelease
      /\ job[k].active => /\ job[k].nextRelease <= step + Period[k]
                          /\ job[k].execTicks >= 2
  BY <1>0, JobFields DEF PublicationInv, JobOnTime, Horizon
<1>6. CASE step < job[k].nextRelease
  <2>1. job'[k] = job[k]
    BY <1>0, <1>2, <1>5, <1>6 DEF ReleaseIfDue, Overruns
  <2> QED
    BY <1>0, <1>5, <1>6, <2>1 DEF JobOnTime, Horizon
<1>7. CASE step >= job[k].nextRelease /\ Overruns(k) /\ Overrun = "SkipNext"
  <2>1. job'[k] = [job[k] EXCEPT !.nextRelease = @ + Period[k]]
    BY <1>2, <1>5, <1>7, <1>0 DEF ReleaseIfDue
  <2>2. /\ job'[k].nextRelease = job[k].nextRelease + Period[k]
        /\ job'[k].active = job[k].active /\ job'[k].execTicks = job[k].execTicks
    BY <2>1, JobFields, <1>0 DEF Job
  <2> QED
    BY <1>0, <1>4, <1>5, <1>7, <2>2 DEF JobOnTime, Horizon
<1>8. CASE step >= job[k].nextRelease /\ ~(Overruns(k) /\ Overrun = "SkipNext")
  <2>1. job'[k] = Released(k, exec[k], view'.zoneFlagged)
    BY <1>2, <1>5, <1>8, <1>0 DEF ReleaseIfDue
  <2>2. /\ job'[k].nextRelease = job[k].nextRelease + Period[k]
        /\ job'[k].active /\ ~job'[k].started /\ job'[k].execTicks = exec[k]
    BY <2>1 DEF Released
  <2> QED
    BY <1>0, <1>3, <1>4, <1>5, <1>8, <2>2 DEF JobOnTime, Horizon
<1> QED
  BY <1>0, <1>5, <1>6, <1>7, <1>8

LEMMA PublicationBegin == PublicationInv /\ BeginTick => PublicationInv'
<1> SUFFICES ASSUME PublicationInv, BeginTick PROVE PublicationInv'
  OBVIOUS
<1>1. TypeOK'
  BY BeginTickType DEF PublicationInv
<1>2. \A k \in TaskKind : JobOnTime(k)'
  BY ReleaseOnTime
<1>3. /\ step \in Nat /\ step' = step /\ phase' = "end" /\ phase = "begin"
      /\ bCurAct' = bCurAct /\ ffCurAct' = ffCurAct /\ ffFinDueAt' = ffFinDueAt
      /\ trig' = trig /\ ffFinDueAt \in Int
  BY DEF PublicationInv, TypeOK, BeginTick, bVars, ffVars, Stamp
<1>4. "Controller" \in TaskKind /\ "Feedforward" \in TaskKind
  BY DEF TaskKind
<1>5. PendingPublishOwned'
  <2> SUFFICES ASSUME ffFinDueAt >= 0
               PROVE  /\ ~job'["Feedforward"].active
                      /\ step <= ffFinDueAt /\ ffFinDueAt < job'["Feedforward"].nextRelease
    BY <1>3 DEF PendingPublishOwned
  <2>1. /\ ~job["Feedforward"].active
        /\ step <= ffFinDueAt /\ ffFinDueAt < job["Feedforward"].nextRelease
    BY DEF PublicationInv, PendingPublishOwned
  <2>2. job["Feedforward"].nextRelease \in Nat
    BY <1>4, JobFields DEF PublicationInv
  <2>3. job'["Feedforward"] = job["Feedforward"]
    BY <1>3, <1>4, <2>1, <2>2, ReleaseOnTime
  <2> QED
    BY <2>1, <2>3
<1>6. ActivatedSinceRelease'
  <2> SUFFICES ASSUME Overrun = "KillAndHold" PROVE ActivatedSinceRelease'
    BY DEF ActivatedSinceRelease
  <2>1. ASSUME NEW k \in TaskKind, job'[k].started
        PROVE  job'[k] = job[k]
    <3>1. job[k].nextRelease \in Nat
      BY JobFields DEF PublicationInv
    <3> QED
      BY <1>3, <2>1, <3>1, ReleaseOnTime
  <2>2. ffFinDueAt >= 0 => job'["Feedforward"] = job["Feedforward"]
    BY <1>3, <1>4, ReleaseOnTime, JobFields DEF PublicationInv, PendingPublishOwned
  <2> QED
    BY <1>3, <1>4, <2>1, <2>2 DEF ActivatedSinceRelease, PublicationInv, LatestRelease
<1>7. NoPublishWithActivate' /\ KilledJobNeverPublishes'
  BY <1>3 DEF PublicationInv, NoPublishWithActivate, KilledJobNeverPublishes
<1> QED
  BY <1>1, <1>2, <1>5, <1>6, <1>7 DEF PublicationInv

\* What a core does to one kind's job.
LEMMA AdvanceOnTime ==
  ASSUME PublicationInv, NEW granted, EndTick(granted), NEW k \in TaskKind
  PROVE  /\ JobOnTime(k)'
         /\ job'[k].nextRelease = job[k].nextRelease
         /\ ~job[k].active => job'[k] = job[k]
         /\ Finishes(k, granted) => ~job'[k].active
         /\ (job'[k].active /\ job'[k].started)
              => job[k].active /\ (job[k].started \/ Activates(k, granted))
<1>0. /\ step \in Nat /\ phase = "end" /\ phase' = "begin" /\ step' = step + 1
      /\ job'[k] = Advance(k, granted) /\ TypeOK /\ JobOnTime(k)
  BY DEF PublicationInv, TypeOK, EndTick
<1>1. /\ job[k].nextRelease \in Nat /\ Period[k] \in Nat
      /\ step + 1 <= job[k].nextRelease
      /\ job[k].active => /\ job[k].nextRelease <= step + Period[k]
                          /\ job[k].execTicks >= 2
  BY <1>0, JobFields, TaskSetAssumption DEF JobOnTime, Horizon
<1>2. /\ job'[k].nextRelease = job[k].nextRelease
      /\ job'[k].execTicks = job[k].execTicks
      /\ job'[k].active => job[k].active
      /\ ~job[k].active => job'[k] = job[k]
      /\ Finishes(k, granted) => ~job'[k].active
      /\ (job'[k].active /\ job'[k].started)
           => job[k].active /\ (job[k].started \/ Activates(k, granted))
  <2>1. CASE Runs(k, granted)
    <3>1. job'[k] = [job[k] EXCEPT !.started = TRUE, !.ranTicks = RanTicks(k),
                                   !.active = ~Finishes(k, granted)]
      BY <1>0, <2>1 DEF Advance
    <3>2. /\ job'[k].nextRelease = job[k].nextRelease
          /\ job'[k].execTicks = job[k].execTicks
          /\ job'[k].active = ~Finishes(k, granted)
      BY <3>1, JobFields, <1>0 DEF Job
    <3> QED
      BY <2>1, <3>2 DEF Runs, Activates
  <2>2. CASE ~Runs(k, granted)
    <3>1. job'[k] = job[k] /\ ~Finishes(k, granted)
      BY <1>0, <2>2 DEF Advance, Finishes
    <3> QED
      BY <3>1
  <2> QED
    BY <2>1, <2>2
<1>3. JobOnTime(k)'
  BY <1>0, <1>1, <1>2 DEF JobOnTime, Horizon
<1> QED
  BY <1>2, <1>3

\* A job that completes, or whose publication is pending, has not been activated
\* in this tick, but since its latest release.
LEMMA ControllerOwned ==
  ASSUME PublicationInv, NEW granted, EndTick(granted), Overrun = "KillAndHold",
         Finishes("Controller", granted)
  PROVE  bCurAct' = bCurAct /\ bCurAct >= LatestRelease("Controller")
<1>1. TypeOK /\ "Controller" \in TaskKind /\ JobOnTime("Controller")
  BY DEF PublicationInv, TaskKind
<1>2. ~Activates("Controller", granted)
  BY <1>1, NoFinishWithActivate
<1>3. job["Controller"].active /\ job["Controller"].started
  BY <1>2 DEF Finishes, Activates, Runs
<1> QED
  BY <1>2, <1>3 DEF EndTick, ControllerStage, PublicationInv, ActivatedSinceRelease

LEMMA FeedforwardOwned ==
  ASSUME PublicationInv, NEW granted, EndTick(granted),
         Finishes("Feedforward", granted) \/ FfPending(granted) >= 0
  PROVE  /\ ~Activates("Feedforward", granted)
         /\ Overrun = "KillAndHold" =>
              ffCurAct' = ffCurAct /\ ffCurAct >= LatestRelease("Feedforward")
<1>1. TypeOK /\ "Feedforward" \in TaskKind /\ JobOnTime("Feedforward")
  BY DEF PublicationInv, TaskKind
<1>2. CASE Finishes("Feedforward", granted)
  <2>1. ~Activates("Feedforward", granted)
    BY <1>1, <1>2, NoFinishWithActivate
  <2>2. job["Feedforward"].active /\ job["Feedforward"].started
    BY <1>2, <2>1 DEF Finishes, Activates, Runs
  <2> QED
    BY <2>1, <2>2 DEF EndTick, FeedforwardStage, PublicationInv, ActivatedSinceRelease
<1>3. CASE ~Finishes("Feedforward", granted)
  <2>1. ffFinDueAt >= 0
    BY <1>3 DEF FfPending
  <2>2. ~Activates("Feedforward", granted)
    BY <2>1 DEF PublicationInv, PendingPublishOwned, Activates, Runs
  <2> QED
    BY <2>1, <2>2 DEF EndTick, FeedforwardStage, PublicationInv, ActivatedSinceRelease
<1> QED
  BY <1>2, <1>3

LEMMA PendingEnd ==
  ASSUME PublicationInv, NEW granted, EndTick(granted)
  PROVE  PendingPublishOwned'
<1> SUFFICES ASSUME ffFinDueAt' >= 0
             PROVE  /\ ~job'["Feedforward"].active
                    /\ step' <= ffFinDueAt' /\ ffFinDueAt' < job'["Feedforward"].nextRelease
  BY DEF PendingPublishOwned
<1>1. /\ TypeOK /\ "Feedforward" \in TaskKind /\ step \in Nat /\ step' = step + 1
      /\ job["Feedforward"].nextRelease \in Nat
      /\ FfExtra \in Nat /\ ffFinDueAt \in Int
  <2>1. TypeOK /\ "Feedforward" \in TaskKind /\ step' = step + 1
    BY DEF PublicationInv, EndTick, TaskKind
  <2>2. step \in Nat /\ ffFinDueAt \in Int
    BY <2>1 DEF TypeOK, Stamp
  <2>3. FfExtra \in Nat
    BY <2>1, TaskSetAssumption DEF TypeOK, View, FfExtra, Later
  <2> QED
    BY <2>1, <2>2, <2>3, JobFields
<1>2. FfDueTick \in Int /\ FfDueTick < job["Feedforward"].nextRelease
  BY <1>1 DEF FfDueTick
<1>3. FfPending(granted) \in Int
  BY <1>1, <1>2 DEF FfPending
<1>4. ffFinDueAt' = FfPending(granted) /\ FfPending(granted) >= step + 1
  <2>1. ffFinDueAt' = IF FfFires(granted) THEN -1 ELSE FfPending(granted)
    BY DEF EndTick, FeedforwardStage
  <2>2. ~FfFires(granted)
    BY <2>1
  <2> QED
    BY <1>1, <1>3, <2>1, <2>2 DEF FfFires
<1>5. /\ job'["Feedforward"].nextRelease = job["Feedforward"].nextRelease
      /\ ~job["Feedforward"].active => job'["Feedforward"] = job["Feedforward"]
      /\ Finishes("Feedforward", granted) => ~job'["Feedforward"].active
  BY <1>1, AdvanceOnTime
<1>6. CASE Finishes("Feedforward", granted) /\ ~FSuppressed /\ FfExtra > 0
  BY <1>1, <1>2, <1>4, <1>5, <1>6 DEF FfPending
<1>7. CASE ~(Finishes("Feedforward", granted) /\ ~FSuppressed /\ FfExtra > 0)
  <2>1. FfPending(granted) = ffFinDueAt
    BY <1>7 DEF FfPending
  <2>2. ~job["Feedforward"].active /\ ffFinDueAt < job["Feedforward"].nextRelease
    BY <1>1, <1>4, <2>1 DEF PublicationInv, PendingPublishOwned
  <2> QED
    BY <1>1, <1>4, <1>5, <2>1, <2>2
<1> QED
  BY <1>6, <1>7

LEMMA ActivatedEnd ==
  ASSUME PublicationInv, NEW granted, EndTick(granted)
  PROVE  ActivatedSinceRelease'
<1> SUFFICES ASSUME Overrun = "KillAndHold" PROVE ActivatedSinceRelease'
  BY DEF ActivatedSinceRelease
<1>1. /\ TypeOK /\ step \in Nat
      /\ "Controller" \in TaskKind /\ "Feedforward" \in TaskKind
  BY DEF PublicationInv, TypeOK, TaskKind
<1>2. ASSUME NEW k \in TaskKind
      PROVE  /\ LatestRelease(k)' = LatestRelease(k)
             /\ Activates(k, granted) => step >= LatestRelease(k)
  <2>1. job[k].nextRelease \in Nat /\ Period[k] \in Nat
    BY <1>1, JobFields, TaskSetAssumption
  <2>2. LatestRelease(k)' = LatestRelease(k)
    BY AdvanceOnTime DEF LatestRelease
  <2>3. Activates(k, granted) => job[k].nextRelease <= step + Period[k]
    BY DEF Activates, Runs, PublicationInv, JobOnTime
  <2> QED
    BY <1>1, <2>1, <2>2, <2>3 DEF LatestRelease
<1>3. (job["Controller"].active /\ job["Controller"].started)'
        => bCurAct' >= LatestRelease("Controller")'
  <2>1. CASE Activates("Controller", granted)
    BY <1>1, <1>2, <2>1 DEF EndTick, ControllerStage
  <2>2. CASE ~Activates("Controller", granted)
    <3>1. bCurAct' = bCurAct
      BY <2>2 DEF EndTick, ControllerStage
    <3>2. (job["Controller"].active /\ job["Controller"].started)'
            => job["Controller"].active /\ job["Controller"].started
      BY <1>1, <2>2, AdvanceOnTime
    <3> QED
      BY <1>1, <1>2, <3>1, <3>2 DEF PublicationInv, ActivatedSinceRelease
  <2> QED
    BY <2>1, <2>2
<1>4. (job["Feedforward"].active /\ job["Feedforward"].started)'
        => ffCurAct' >= LatestRelease("Feedforward")'
  <2>1. CASE Activates("Feedforward", granted)
    BY <1>1, <1>2, <2>1 DEF EndTick, FeedforwardStage
  <2>2. CASE ~Activates("Feedforward", granted)
    <3>1. ffCurAct' = ffCurAct
      BY <2>2 DEF EndTick, FeedforwardStage
    <3>2. (job["Feedforward"].active /\ job["Feedforward"].started)'
            => job["Feedforward"].active /\ job["Feedforward"].started
      BY <1>1, <2>2, AdvanceOnTime
    <3> QED
      BY <1>1, <1>2, <3>1, <3>2 DEF PublicationInv, ActivatedSinceRelease
  <2> QED
    BY <2>1, <2>2
<1>5. ffFinDueAt' >= 0 => ffCurAct' >= LatestRelease("Feedforward")'
  <2> SUFFICES ASSUME ffFinDueAt' >= 0
               PROVE  ffCurAct' >= LatestRelease("Feedforward")'
    OBVIOUS
  <2>1. ffFinDueAt' = IF FfFires(granted) THEN -1 ELSE FfPending(granted)
    BY DEF EndTick, FeedforwardStage
  <2>2. FfPending(granted) >= 0
    BY <2>1
  <2> QED
    BY <1>1, <1>2, <2>2, FeedforwardOwned
<1> QED
  BY <1>3, <1>4, <1>5 DEF ActivatedSinceRelease

LEMMA PublicationEnd ==
  ASSUME PublicationInv, NEW granted, EndTick(granted)
  PROVE  PublicationInv'
<1>1. TypeOK'
  BY EndTickType DEF PublicationInv
<1>2. \A k \in TaskKind : JobOnTime(k)'
  BY AdvanceOnTime
<1>3. PendingPublishOwned' /\ ActivatedSinceRelease'
  BY PendingEnd, ActivatedEnd
<1>4. EmitPulses(granted) /\ TypeOK
      /\ "Controller" \in TaskKind /\ "Feedforward" \in TaskKind
  BY DEF EndTick, PublicationInv, TaskKind
<1>5. ASSUME NEW k \in TaskKind, Publishes(k, granted)
      PROVE  ~Activates(k, granted)
  <2>1. CASE k = "Feedforward"
    <3>1. Finishes("Feedforward", granted) \/ FfPending(granted) >= 0
      BY <1>5, <2>1 DEF Publishes, FfPublishes, FfFires
    <3> QED
      BY <2>1, <3>1, FeedforwardOwned
  <2>2. CASE k # "Feedforward"
    <3>1. Finishes(k, granted)
      BY <1>5, <2>2 DEF Publishes, BPublishes
    <3> QED
      BY <1>4, <3>1, NoFinishWithActivate DEF PublicationInv
  <2> QED
    BY <2>1, <2>2
<1>6. NoPublishWithActivate'
  <2>1. ASSUME NEW k \in TaskKind
        PROVE  ~(ActPulse[k] \in trig' /\ FinPulse[k] \in trig')
    BY <1>4, <1>5, PulsesOfTick
  <2> QED
    BY <2>1 DEF NoPublishWithActivate
<1>7. KilledJobNeverPublishes'
  <2> SUFFICES ASSUME Overrun = "KillAndHold"
               PROVE  /\ "ctrl_fin" \in trig' => bPubAct' >= LatestRelease("Controller")'
                      /\ "ff_fin" \in trig' => ffPubAct' >= LatestRelease("Feedforward")'
    BY DEF KilledJobNeverPublishes, LatestRelease
  <2>1. /\ LatestRelease("Controller")' = LatestRelease("Controller")
        /\ LatestRelease("Feedforward")' = LatestRelease("Feedforward")
    BY <1>4, AdvanceOnTime DEF LatestRelease
  <2>2. ASSUME "ctrl_fin" \in trig'
        PROVE  bPubAct' >= LatestRelease("Controller")'
    <3>1. BPublishes(granted)
      BY <1>4, <2>2, NamedPulses
    <3>2. bPubAct' = bCurAct' /\ Finishes("Controller", granted)
      BY <3>1 DEF EndTick, ControllerStage, BPublishes
    <3> QED
      BY <2>1, <3>2, ControllerOwned
  <2>3. ASSUME "ff_fin" \in trig'
        PROVE  ffPubAct' >= LatestRelease("Feedforward")'
    <3>1. FfPublishes(granted)
      BY <1>4, <2>3, NamedPulses
    <3>2. /\ ffPubAct' = ffCurAct'
          /\ Finishes("Feedforward", granted) \/ FfPending(granted) >= 0
      BY <3>1 DEF EndTick, FeedforwardStage, FfPublishes, FfFires
    <3> QED
      BY <2>1, <3>2, FeedforwardOwned
  <2> QED
    BY <2>2, <2>3
<1> QED
  BY <1>1, <1>2, <1>3, <1>6, <1>7 DEF PublicationInv

LEMMA PublicationStutter == PublicationInv /\ UNCHANGED vars => PublicationInv'
<1> SUFFICES ASSUME PublicationInv, UNCHANGED vars PROVE PublicationInv'
  OBVIOUS
<1>1. /\ step' = step /\ phase' = phase /\ job' = job /\ trig' = trig
      /\ bCurAct' = bCurAct /\ bPubAct' = bPubAct
      /\ ffCurAct' = ffCurAct /\ ffPubAct' = ffPubAct /\ ffFinDueAt' = ffFinDueAt
  BY DEF vars, jobVars, bVars, ffVars
<1>2. TypeOK'
  BY DEF PublicationInv, TypeOK, vars, jobVars, scVars, estVars, bVars, ffVars,
         aggVars, caVars, actVars
<1>3. \A k \in TaskKind : JobOnTime(k)'
  BY <1>1 DEF PublicationInv, JobOnTime, Horizon
<1>4. PendingPublishOwned' /\ ActivatedSinceRelease'
  BY <1>1 DEF PublicationInv, PendingPublishOwned, ActivatedSinceRelease, LatestRelease
<1>5. NoPublishWithActivate' /\ KilledJobNeverPublishes'
  BY <1>1 DEF PublicationInv, NoPublishWithActivate, KilledJobNeverPublishes
<1> QED
  BY <1>2, <1>3, <1>4, <1>5 DEF PublicationInv

LEMMA PublicationInvariant == Spec => []PublicationInv
<1>1. PublicationInv /\ [Next]_vars => PublicationInv'
  BY PublicationBegin, PublicationEnd, PublicationStutter DEF Next
<1> QED
  BY <1>1, PublicationInit, PTL DEF Spec

-----------------------------------------------------------------------------
(* Theorems *)

\* A delayed Feedforward publication always belongs to the job that has just
\* completed: the clamp keeps it before the next release, whatever the delay.
THEOREM PublicationOwned == Spec => []PendingPublishOwned
<1>1. PublicationInv => PendingPublishOwned
  BY DEF PublicationInv
<1> QED
  BY <1>1, PublicationInvariant, PTL

\* No kind is ever told to publish and to start in the same tick, so the order
\* in which the FMU handles the two does not matter.
THEOREM PulsesDisjoint == Spec => []NoPublishWithActivate
<1>1. PublicationInv => NoPublishWithActivate
  BY DEF PublicationInv
<1> QED
  BY <1>1, PublicationInvariant, PTL

\* Under kill-and-hold a job that was killed never gets to publish.
THEOREM KilledNeverPublishes == Spec => []KilledJobNeverPublishes
<1>1. PublicationInv => KilledJobNeverPublishes
  BY DEF PublicationInv
<1> QED
  BY <1>1, PublicationInvariant, PTL

-----------------------------------------------------------------------------
(* The Feedforward hold.  It is reached whenever no publication is delayed   *)
(* outside the zone and all zones demand the same dose; ff_hold_extra shows  *)
(* that --ff-extra-ms breaks it.                                             *)

UniformHold ==
  /\ FfExtraTicks = 0
  /\ \A v, w \in Views : v.fzHold > 0 /\ w.fzHold > 0 => v.fzHold = w.fzHold

\* A pending publication waits for a value that has already reached its dose.
HoldInv ==
  /\ PublicationInv
  /\ view \in Views
  /\ \A v \in Views :
       v.fzHold > 0 /\ ffFinDueAt >= 0 /\ ffPubAct >= 0 => step - ffPubAct >= v.fzHold

\* What is known when a publication is pending or happens.
LEMMA DoseReached ==
  ASSUME UniformHold, HoldInv, NEW granted, EndTick(granted), NEW v \in Views, v.fzHold > 0,
         ffPubAct >= 0,
         \/ FfPending(granted) >= 0
         \/ view.fzHold > 0 /\ FfPublishes(granted)
  PROVE  step - ffPubAct >= v.fzHold
<1>1. /\ step \in Nat /\ ffPubAct \in Int /\ view \in Views
      /\ view.fzHold \in Nat /\ view.fzDelta \in Nat /\ v.fzHold \in Nat
  <2>1. TypeOK /\ view \in Views
    BY DEF HoldInv, PublicationInv
  <2>2. step \in Nat /\ ffPubAct \in Int
    BY <2>1 DEF TypeOK, Stamp
  <2>3. view \in View /\ v \in View
    BY <2>1, TaskSetAssumption
  <2> QED
    BY <2>1, <2>2, <2>3 DEF View
<1>2. CASE Finishes("Feedforward", granted) /\ ~FSuppressed /\ view.fzHold > 0
  <2>1. view.fzHold = v.fzHold
    BY <1>1, <1>2 DEF UniformHold
  <2> QED
    BY <1>1, <1>2, <2>1 DEF FSuppressed
<1>3. CASE ~(Finishes("Feedforward", granted) /\ ~FSuppressed /\ view.fzHold > 0)
  <2>1. FfExtra > 0 => view.fzHold > 0
    BY <1>1 DEF UniformHold, FfExtra, Later
  <2>2. FfPending(granted) = ffFinDueAt
    BY <1>3, <2>1 DEF FfPending
  <2>3. ffFinDueAt >= 0
    BY <1>3, <2>2 DEF FfPublishes, FfFires
  <2> QED
    BY <2>3 DEF HoldInv
<1> QED
  BY <1>2, <1>3

LEMMA HoldEnd ==
  ASSUME UniformHold, HoldInv, NEW granted, EndTick(granted)
  PROVE  HoldInv'
<1>1. PublicationInv' /\ view' \in Views
  BY PublicationEnd DEF HoldInv, EndTick
<1>2. ASSUME NEW v \in Views, v.fzHold > 0, ffFinDueAt' >= 0, ffPubAct' >= 0
      PROVE  step' - ffPubAct' >= v.fzHold
  <2>1. /\ ffFinDueAt' = IF FfFires(granted) THEN -1 ELSE FfPending(granted)
        /\ ffPubAct' = IF FfPublishes(granted) THEN ffCurAct' ELSE ffPubAct
        /\ step' = step + 1
    BY DEF EndTick, FeedforwardStage
  <2>2. ~FfFires(granted) /\ FfPending(granted) >= 0
    BY <1>2, <2>1
  <2>3. ~FfPublishes(granted)
    <3>1. ASSUME Finishes("Feedforward", granted), ~FSuppressed, FfExtra = 0
          PROVE  FALSE
      <4>1. ffFinDueAt >= 0
        BY <2>2, <3>1 DEF FfPending
      <4>2. ~job["Feedforward"].active
        BY <4>1 DEF HoldInv, PublicationInv, PendingPublishOwned
      <4> QED
        BY <3>1, <4>2 DEF Finishes, Runs
    <3> QED
      BY <2>2, <3>1 DEF FfPublishes
  <2>4. ffPubAct' = ffPubAct
    BY <2>1, <2>3
  <2>5. step - ffPubAct >= v.fzHold
    BY <1>2, <2>2, <2>4, DoseReached
  <2>6. step \in Nat /\ ffPubAct \in Int /\ v.fzHold \in Nat
    <3>1. TypeOK
      BY DEF HoldInv, PublicationInv
    <3>2. v \in View
      BY TaskSetAssumption
    <3>3. step \in Nat /\ ffPubAct \in Int
      BY <3>1 DEF TypeOK, Stamp
    <3> QED
      BY <3>2, <3>3 DEF View
  <2> QED
    BY <2>1, <2>4, <2>5, <2>6
<1> QED
  BY <1>1, <1>2 DEF HoldInv

LEMMA HoldInvariant == ASSUME UniformHold PROVE Spec => []HoldInv
<1>1. Init => HoldInv
  BY PublicationInit DEF HoldInv, Init
<1>2. HoldInv /\ BeginTick => HoldInv'
  BY PublicationBegin DEF HoldInv, BeginTick, ffVars
<1>3. HoldInv /\ UNCHANGED vars => HoldInv'
  BY PublicationStutter DEF HoldInv, vars, ffVars
<1>4. HoldInv /\ [Next]_vars => HoldInv'
  BY <1>2, <1>3, HoldEnd DEF Next
<1> QED
  BY <1>1, <1>4, PTL DEF Spec

\* Within a zone a new Feedforward value is published only once the published one
\* has reached the dose, however completions, kills and delays fall.
THEOREM HoldReached == ASSUME UniformHold PROVE Spec => FDoseReached
<1>1. HoldInv /\ [Next]_vars
        => [("ff_fin" \in trig' /\ phase = "end" /\ view.fzHold > 0 /\ ffPubAct >= 0)
              => step - ffPubAct >= view.fzHold]_vars
  <2> SUFFICES ASSUME HoldInv, Next, "ff_fin" \in trig', phase = "end",
                      view.fzHold > 0, ffPubAct >= 0
               PROVE  step - ffPubAct >= view.fzHold
    OBVIOUS
  <2>1. PICK granted \in Grants : EndTick(granted)
    BY DEF Next, BeginTick
  <2>2. FfPublishes(granted)
    BY <2>1, NamedPulses DEF EndTick
  <2> QED
    BY <2>1, <2>2, DoseReached DEF HoldInv
<1> QED
  BY <1>1, HoldInvariant, PTL DEF Spec, FDoseReached

-----------------------------------------------------------------------------
(* Lineage.  The age of the data behind every register: what the two merge conventions of
   the chain promise whatever the network does to the order of packets, and what fixed
   network delays add.  Then packets arrive in the order in which they were sent and on
   time, so every register's data only gets newer, the merger's two conventions are the two
   chains that endTick's comment names, and the applied command never goes back in time. *)
-----------------------------------------------------------------------------
(* Fresh data is no older than path data, with no assumption on the delays *)

Ordered(l) == l.stampOld <= l.stamp /\ (l.stampOld >= 0 <=> l.stamp >= 0)

LineageInv ==
  /\ TypeOK
  /\ \A l \in {aggComp, aggOut, caRec, actIn, actOut} : Ordered(l)
  /\ \A i \in 1 .. Len(caReceiveAt) : Ordered(caReceiveAt[i].data)
  /\ maxAge.stamp <= maxAge.stampOld

LEMMA MergeOrdered ==
  ASSUME NEW a \in Stamp, NEW b \in Stamp
  PROVE  Ordered([stamp |-> Freshest(a, b), stampOld |-> OldestValid(a, b)])
BY DEF Ordered, Freshest, Later, OldestValid, Stamp

\* A property of every packet in a queue survives a delivery and a send.
LEMMA InFlightElement ==
  ASSUME NEW q \in Seq(Packet), NEW i \in 1 .. Len(InFlight(q))
  PROVE  \E j \in 1 .. Len(q) : InFlight(q)[i] = q[j]
<1>1. CASE Due(q) = {}
  BY <1>1 DEF InFlight
<1>2. CASE Due(q) # {}
  <2>1. FirstDue(q) \in 1 .. Len(q) /\ Len(q) \in Nat
    BY <1>2, FirstDueIsDue, DueInQueue, LenProperties
  <2>2. /\ InFlight(q) = RemoveAt(q, FirstDue(q))
        /\ Len(InFlight(q)) = Len(q) - 1
        /\ InFlight(q)[i] = IF i < FirstDue(q) THEN q[i] ELSE q[i + 1]
    <3>1. InFlight(q) = RemoveAt(q, FirstDue(q))
      BY <1>2 DEF InFlight
    <3>2. Len(InFlight(q)) = Len(q) - 1
      BY <2>1, <3>1, RemoveAtElements
    <3> QED
      BY <2>1, <3>1, <3>2, RemoveAtElements
  <2>3. i \in 1 .. Len(q) /\ i + 1 \in 1 .. Len(q)
    BY <2>1, <2>2
  <2> QED
    BY <2>2, <2>3
<1> QED
  BY <1>1, <1>2

\* The older of two stamps keeps the greater worst age.
LEMMA OlderAge ==
  ASSUME step \in Nat, NEW s \in Stamp, NEW older \in Stamp,
         NEW w \in Stamp, NEW worst \in Stamp,
         older <= s, older >= 0 <=> s >= 0, w <= worst
  PROVE  AgeAt(s, w) <= AgeAt(older, worst)
BY DEF AgeAt, Later, Stamp

LEMMA LineageInit == Init => LineageInv
<1> SUFFICES ASSUME Init PROVE LineageInv
  OBVIOUS
<1>1. TypeOK
  BY InitType
<1>2. Ordered(NoLineage) /\ NoLineage.stamp <= NoLineage.stampOld
  BY DEF Ordered, NoLineage
<1>3. Len(caReceiveAt) = 0
  BY EmptySeq DEF Init
<1> QED
  BY <1>1, <1>2, <1>3 DEF Init, LineageInv

LEMMA LineageBegin == LineageInv /\ BeginTick => LineageInv'
<1> SUFFICES ASSUME LineageInv, BeginTick PROVE LineageInv'
  OBVIOUS
<1>1. TypeOK'
  BY BeginTickType DEF LineageInv
<1> QED
  BY <1>1 DEF LineageInv, BeginTick, aggVars, caVars, actVars, Ordered

LEMMA LineageEnd ==
  ASSUME LineageInv, NEW granted, EndTick(granted)
  PROVE  LineageInv'
<1>1. TypeOK /\ TypeOK' /\ caReceiveAt \in Seq(Packet) /\ step \in Nat
  BY EndTickType DEF LineageInv, TypeOK
<1>2. Ordered(caRec')
  <2>1. CASE Due(caReceiveAt) = {}
    BY <2>1 DEF EndTick, ReceivePackets, LineageInv
  <2>2. CASE Due(caReceiveAt) # {}
    <3>1. FirstDue(caReceiveAt) \in 1 .. Len(caReceiveAt)
      BY <1>1, <2>2, FirstDueIsDue, DueInQueue
    <3>2. caRec' = caReceiveAt[FirstDue(caReceiveAt)].data
      BY <2>2 DEF EndTick, ReceivePackets
    <3> QED
      BY <3>1, <3>2 DEF LineageInv
  <2> QED
    BY <2>1, <2>2
<1>3. Ordered(aggComp') /\ Ordered(aggOut')
  <2>1. fbOut' \in Stamp /\ estOut' \in Stamp
    BY <1>1 DEF TypeOK
  <2>2. Ordered(aggComp')
    BY <2>1, MergeOrdered DEF EndTick, MergerStage, LineageInv
  <2> QED
    BY <2>2 DEF EndTick, MergerStage, LineageInv
<1>4. Ordered(actIn') /\ Ordered(actOut')
  BY <1>2 DEF EndTick, ActuatorStage, LineageInv
<1>5. \A i \in 1 .. Len(caReceiveAt') : Ordered(caReceiveAt'[i].data)
  <2>1. \A i \in 1 .. Len(InFlight(caReceiveAt)) : Ordered(InFlight(caReceiveAt)[i].data)
    BY <1>1, InFlightElement DEF LineageInv
  <2>2. InFlight(caReceiveAt) \in Seq(Packet)
    BY <1>1, InFlightType
  <2>3. CASE Finishes("Merger", granted)
    <3>1. PICK delay \in CaDelays :
            caReceiveAt' = Append(InFlight(caReceiveAt),
                                  [arriveStep |-> step + delay + view.extraNetDelay,
                                   data |-> aggOut'])
      BY <2>3 DEF EndTick, MergerStage
    <3> DEFINE packet == [arriveStep |-> step + delay + view.extraNetDelay, data |-> aggOut']
    <3>2. packet \in Packet
      <4>1. aggOut' \in Lineage /\ view \in View
        BY <1>1 DEF TypeOK
      <4>2. step + delay + view.extraNetDelay \in Nat
        BY <1>1, <4>1, TaskSetAssumption DEF View
      <4> QED
        BY <4>1, <4>2 DEF Packet
    <3>3. packet.data = aggOut'
      OBVIOUS
    <3> HIDE DEF packet
    <3>4. /\ Len(caReceiveAt') = Len(InFlight(caReceiveAt)) + 1
          /\ \A i \in 1 .. Len(InFlight(caReceiveAt)) :
               caReceiveAt'[i] = InFlight(caReceiveAt)[i]
          /\ caReceiveAt'[Len(InFlight(caReceiveAt)) + 1] = packet
      BY <2>2, <3>1, <3>2, AppendProperties DEF packet
    <3>5. Len(InFlight(caReceiveAt)) \in Nat
      BY <2>2, LenProperties
    <3> QED
      BY <1>3, <2>1, <3>3, <3>4, <3>5
  <2>4. CASE ~Finishes("Merger", granted)
    BY <2>1, <2>4 DEF EndTick, MergerStage
  <2> QED
    BY <2>3, <2>4
<1>6. maxAge'.stamp <= maxAge'.stampOld
  <2>1. /\ maxAge.stamp \in Stamp /\ maxAge.stampOld \in Stamp
        /\ actOut'.stamp \in Stamp /\ actOut'.stampOld \in Stamp
    BY <1>1 DEF TypeOK, Lineage
  <2>2. /\ maxAge'.stamp = AgeAt(actOut'.stamp, maxAge.stamp)
        /\ maxAge'.stampOld = AgeAt(actOut'.stampOld, maxAge.stampOld)
    BY DEF EndTick, ActuatorStage
  <2>3. maxAge.stamp <= maxAge.stampOld
    BY DEF LineageInv
  <2>4. Ordered(actOut')
    BY <1>4
  <2> QED
    BY <1>1, <2>1, <2>2, <2>3, <2>4, OlderAge DEF Ordered
<1> QED
  BY <1>1, <1>2, <1>3, <1>4, <1>5, <1>6 DEF LineageInv

LEMMA LineageInvariant == Spec => []LineageInv
<1>1. LineageInv /\ UNCHANGED vars => LineageInv'
  BY DEF LineageInv, TypeOK, Ordered, vars, jobVars, scVars, estVars, bVars, ffVars,
         aggVars, caVars, actVars
<1>2. LineageInv /\ [Next]_vars => LineageInv'
  BY <1>1, LineageBegin, LineageEnd DEF Next
<1> QED
  BY <1>2, LineageInit, PTL DEF Spec

\* However the network delays and reorders packets, no register is older under
\* the freshest convention than under the oldest-direct-input one, nor is the
\* run's worst age.
THEOREM FreshBoundsPath == Spec => []FreshNoOlderThanPath
<1>1. LineageInv => FreshNoOlderThanPath
  BY DEF LineageInv, FreshNoOlderThanPath, Ordered
<1> QED
  BY <1>1, LineageInvariant, PTL

-----------------------------------------------------------------------------
(* Fixed delays *)

\* --net-random off (or one latency) and the same extra delay in every zone.
FixedDelays ==
  /\ \A a, b \in ScDelays : a = b
  /\ \A a, b \in CaDelays : a = b
  /\ \A v, w \in Views : v.extraNetDelay = w.extraNetDelay

-----------------------------------------------------------------------------
(* The inductive invariant: each register holds data no newer than the one  *)
(* it is filled from, and the packets in flight lie between the register    *)
(* they were sent from and the one they go to, in order of sending.         *)

\* In flight between lo and hi, arriving one after the other and before tick end.
InOrder(q, lo, hi, end) ==
  /\ \A i \in 1 .. Len(q) : /\ lo <= q[i].data.stamp /\ q[i].data.stamp <= hi
                            /\ q[i].arriveStep < end
  /\ \A i, j \in 1 .. Len(q) : i < j =>
       /\ q[i].data.stamp <= q[j].data.stamp
       /\ q[i].arriveStep < q[j].arriveStep

Downstream ==
  /\ sensComp <= step
  /\ sensOut <= sensComp
  /\ scRec <= sensOut
  /\ estComp <= scRec
  /\ estOut <= estComp
  /\ fbComp <= estOut
  /\ fbOut <= fbComp
  /\ aggComp.stamp <= estOut
  /\ aggOut.stamp <= aggComp.stamp
  /\ caRec.stamp <= aggOut.stamp
  /\ actIn.stamp <= caRec.stamp
  /\ actOut.stamp <= actIn.stamp

ScInOrder == \A d \in ScDelays : InOrder(scReceiveAt, scRec, sensOut, step + d)

CaInOrder ==
  \A d \in CaDelays : \A v \in Views :
    InOrder(caReceiveAt, caRec.stamp, aggOut.stamp, step + (d + v.extraNetDelay))

ChainInv ==
  /\ TypeOK
  /\ view \in Views
  /\ Downstream
  /\ ScInOrder
  /\ CaInOrder
  /\ MergerReadsShortcutAndPath

-----------------------------------------------------------------------------
(* Queues *)

\* In an ordered queue the packet that is delivered is the one in front.
LEMMA FrontIsFirstDue ==
  ASSUME step \in Nat, NEW q \in Seq(Packet), NEW lo, NEW hi, NEW end,
         InOrder(q, lo, hi, end), Due(q) # {}
  PROVE  1 \in 1 .. Len(q) /\ FirstDue(q) = 1
<1>1. /\ FirstDue(q) \in 1 .. Len(q) /\ Len(q) \in Nat
      /\ \A j \in Due(q) : q[FirstDue(q)].arriveStep <= q[j].arriveStep
      /\ q[FirstDue(q)].arriveStep <= step
  BY FirstDueIsDue, DueInQueue, LenProperties
<1>2. 1 \in 1 .. Len(q)
  BY <1>1
<1>3. q[1].arriveStep \in Nat /\ q[FirstDue(q)].arriveStep \in Nat
  BY <1>1, <1>2, PacketFields
<1>4. ASSUME FirstDue(q) # 1 PROVE FALSE
  <2>1. q[1].arriveStep < q[FirstDue(q)].arriveStep
    BY <1>1, <1>2, <1>4 DEF InOrder
  <2>2. 1 \in Due(q)
    BY <1>1, <1>2, <1>3, <2>1, DueInQueue
  <2> QED
    BY <1>1, <1>3, <2>1, <2>2
<1> QED
  BY <1>2, <1>4

\* What a delivery does to an ordered queue: the receiver's data gets newer, and
\* what stays in flight is newer still.
LEMMA DeliverInOrder ==
  ASSUME step \in Nat, NEW q \in Seq(Packet), NEW lo \in Stamp, NEW hi \in Stamp,
         NEW end \in Nat, InOrder(q, lo, hi, end), lo <= hi,
         NEW rec, rec = IF Due(q) = {} THEN lo ELSE q[FirstDue(q)].data.stamp
  PROVE  /\ rec \in Stamp /\ lo <= rec /\ rec <= hi
         /\ InOrder(InFlight(q), rec, hi, end)
<1>1. CASE Due(q) = {}
  BY <1>1 DEF InFlight, Stamp
<1>2. CASE Due(q) # {}
  <2>1. 1 \in 1 .. Len(q) /\ FirstDue(q) = 1 /\ Len(q) \in Nat
    BY <1>2, FrontIsFirstDue, LenProperties
  <2>2. rec = q[1].data.stamp /\ InFlight(q) = RemoveAt(q, 1)
    BY <1>2, <2>1 DEF InFlight
  <2>3. Len(InFlight(q)) = Len(q) - 1
    BY <2>1, <2>2, RemoveAtElements
  <2>4. \A i \in 1 .. Len(q) - 1 : InFlight(q)[i] = q[i + 1]
    <3> SUFFICES ASSUME NEW i \in 1 .. Len(q) - 1 PROVE InFlight(q)[i] = q[i + 1]
      OBVIOUS
    <3>1. RemoveAt(q, 1)[i] = IF i < 1 THEN q[i] ELSE q[i + 1]
      BY <2>1, RemoveAtElements
    <3> QED
      BY <2>2, <3>1
  <2>5. rec \in Stamp /\ lo <= rec /\ rec <= hi
    BY <2>1, <2>2, PacketFields DEF InOrder
  <2>6. ASSUME NEW i \in 1 .. Len(q) - 1
        PROVE  i + 1 \in 1 .. Len(q) /\ 1 < i + 1
    BY <2>1, <2>6
  <2>7. \A i \in 1 .. Len(q) - 1 :
          /\ rec <= InFlight(q)[i].data.stamp /\ InFlight(q)[i].data.stamp <= hi
          /\ InFlight(q)[i].arriveStep < end
    BY <2>1, <2>2, <2>4, <2>6 DEF InOrder
  <2>8. \A i, j \in 1 .. Len(q) - 1 : i < j =>
          /\ InFlight(q)[i].data.stamp <= InFlight(q)[j].data.stamp
          /\ InFlight(q)[i].arriveStep < InFlight(q)[j].arriveStep
    <3> SUFFICES ASSUME NEW i \in 1 .. Len(q) - 1, NEW j \in 1 .. Len(q) - 1, i < j
                 PROVE  /\ InFlight(q)[i].data.stamp <= InFlight(q)[j].data.stamp
                        /\ InFlight(q)[i].arriveStep < InFlight(q)[j].arriveStep
      OBVIOUS
    <3>1. i + 1 \in 1 .. Len(q) /\ j + 1 \in 1 .. Len(q) /\ i + 1 < j + 1
      BY <2>1
    <3> QED
      BY <2>4, <3>1 DEF InOrder
  <2> QED
    BY <2>3, <2>5, <2>7, <2>8 DEF InOrder
<1> QED
  BY <1>1, <1>2

\* Sending, or not sending, at the end of a tick keeps the order.
LEMMA SendInOrder ==
  ASSUME NEW q \in Seq(Packet), NEW lo \in Stamp, NEW hi \in Stamp, NEW end \in Nat,
         InOrder(q, lo, hi, end), lo <= hi, NEW stamp \in Stamp, hi <= stamp,
         NEW packet \in Packet, packet.arriveStep = end, packet.data.stamp = stamp
  PROVE  InOrder(Append(q, packet), lo, stamp, end + 1)
<1> DEFINE r == Append(q, packet)
<1>1. lo \in Int /\ hi \in Int /\ stamp \in Int /\ end \in Int
  BY DEF Stamp
<1>2. Len(q) \in Nat /\ Len(r) = Len(q) + 1
  BY LenProperties, AppendProperties
<1>3. \A i \in 1 .. Len(r) : i \in 1 .. Len(q) \/ i = Len(q) + 1
  BY <1>2
<1>4. \A i \in 1 .. Len(q) : r[i] = q[i]
  BY AppendProperties
<1>5. r[Len(q) + 1] = packet
  BY AppendProperties
<1> HIDE DEF r
\* What is known of an element of r: it is one of q's, or it is packet.
<1>6. ASSUME NEW i \in 1 .. Len(r)
      PROVE  /\ r[i].data.stamp \in Int /\ r[i].arriveStep \in Int
             /\ lo <= r[i].data.stamp /\ r[i].data.stamp <= stamp
             /\ r[i].arriveStep < end + 1
             /\ i \in 1 .. Len(q) => r[i].data.stamp <= hi /\ r[i].arriveStep < end
             /\ i \notin 1 .. Len(q) => r[i].data.stamp = stamp /\ r[i].arriveStep = end
  <2>1. CASE i \in 1 .. Len(q)
    <3>1. q[i].data.stamp \in Int /\ q[i].arriveStep \in Int
      BY <2>1, PacketFields DEF Stamp
    <3>2. lo <= q[i].data.stamp /\ q[i].data.stamp <= hi /\ q[i].arriveStep < end
      BY <2>1 DEF InOrder
    <3>3. q[i].data.stamp <= stamp /\ q[i].arriveStep < end + 1
      BY <1>1, <3>1, <3>2
    <3>4. r[i] = q[i]
      BY <1>4, <2>1, Zenon
    <3> QED
      BY <2>1, <3>1, <3>2, <3>3, <3>4
  <2>2. CASE i \notin 1 .. Len(q)
    <3>1. i = Len(q) + 1
      BY <1>3, <2>2
    <3>2. r[i] = packet
      BY <1>5, <3>1
    <3>3. lo <= stamp /\ stamp <= stamp /\ end < end + 1
      BY <1>1
    <3> QED
      BY <1>1, <2>2, <3>2, <3>3
  <2> QED
    BY <2>1, <2>2
<1>7. ASSUME NEW i \in 1 .. Len(r), NEW j \in 1 .. Len(r), i < j
      PROVE  /\ r[i].data.stamp <= r[j].data.stamp
             /\ r[i].arriveStep < r[j].arriveStep
  <2>1. i \in 1 .. Len(q)
    BY <1>2, <1>7
  <2>2. CASE j \in 1 .. Len(q)
    <3>1. q[i].data.stamp <= q[j].data.stamp /\ q[i].arriveStep < q[j].arriveStep
      BY <1>7, <2>1, <2>2 DEF InOrder
    <3>2. r[i] = q[i] /\ r[j] = q[j]
      BY <1>4, <2>1, <2>2, Zenon
    <3> QED
      BY <3>1, <3>2
  <2>3. CASE j \notin 1 .. Len(q)
    <3>1. r[i].data.stamp <= stamp /\ r[i].arriveStep < end
      BY <1>6, <2>1, Zenon
    <3>2. r[j].data.stamp = stamp /\ r[j].arriveStep = end
      BY <1>6, <2>3, Zenon
    <3> QED
      BY <3>1, <3>2
  <2> QED
    BY <2>2, <2>3
<1>8. \A i \in 1 .. Len(r) : /\ lo <= r[i].data.stamp /\ r[i].data.stamp <= stamp
                             /\ r[i].arriveStep < end + 1
  BY <1>6, Zenon
<1>9. \A i, j \in 1 .. Len(r) : i < j => /\ r[i].data.stamp <= r[j].data.stamp
                                         /\ r[i].arriveStep < r[j].arriveStep
  BY <1>7, Zenon
<1> QED
  BY <1>8, <1>9, Zenon DEF InOrder, r

LEMMA WaitInOrder ==
  ASSUME NEW q \in Seq(Packet), NEW lo \in Stamp, NEW hi \in Stamp, NEW end \in Nat,
         InOrder(q, lo, hi, end), NEW stamp \in Stamp, hi <= stamp
  PROVE  InOrder(q, lo, stamp, end + 1)
<1>1. \A i \in 1 .. Len(q) : q[i].data.stamp \in Stamp /\ q[i].arriveStep \in Nat
  BY PacketFields
<1> QED
  BY <1>1 DEF InOrder, Stamp

-----------------------------------------------------------------------------
(* Steps *)

LEMMA ChainInit == Init => ChainInv
<1> SUFFICES ASSUME Init PROVE ChainInv
  OBVIOUS
<1>1. TypeOK /\ view \in Views
  BY InitType DEF Init
<1>2. Downstream
  BY DEF Init, Downstream, NoLineage
<1>3. ScInOrder /\ CaInOrder
  <2>1. Len(scReceiveAt) = 0 /\ Len(caReceiveAt) = 0
    BY EmptySeq DEF Init
  <2> QED
    BY <2>1 DEF ScInOrder, CaInOrder, InOrder
<1>4. MergerReadsShortcutAndPath
  BY DEF Init, MergerReadsShortcutAndPath
<1> QED
  BY <1>1, <1>2, <1>3, <1>4 DEF ChainInv

LEMMA ChainBegin == ChainInv /\ BeginTick => ChainInv'
<1> SUFFICES ASSUME ChainInv, BeginTick PROVE ChainInv'
  OBVIOUS
<1>1. TypeOK' /\ view' \in Views
  BY BeginTickType DEF ChainInv, BeginTick
<1>2. UNCHANGED <<step, scVars, estVars, bVars, aggVars, caVars, actVars, trig>>
  BY DEF BeginTick
<1>3. Downstream'
  BY <1>2 DEF ChainInv, Downstream, scVars, estVars, bVars, aggVars, caVars, actVars
<1>4. ScInOrder' /\ CaInOrder'
  BY <1>2 DEF ChainInv, ScInOrder, CaInOrder, InOrder, scVars, aggVars, caVars
<1>5. MergerReadsShortcutAndPath'
  BY <1>2 DEF ChainInv, MergerReadsShortcutAndPath, estVars, bVars, aggVars
<1> QED
  BY <1>1, <1>3, <1>4, <1>5 DEF ChainInv

\* The sensor network: scRec gets newer, and so does what is still in flight.
LEMMA SensorNetwork ==
  ASSUME FixedDelays, ChainInv, NEW granted, EndTick(granted)
  PROVE  /\ scRec <= scRec' /\ scRec' <= sensOut'
         /\ sensOut' <= sensComp' /\ sensComp' <= step'
         /\ ScInOrder'
<1>1. /\ step \in Nat /\ step' = step + 1 /\ scReceiveAt \in Seq(Packet)
      /\ sensComp \in Stamp /\ sensOut \in Stamp /\ scRec \in Stamp
      /\ sensComp' \in Stamp /\ sensOut' \in Stamp
  BY SensorType DEF ChainInv, TypeOK, EndTick
<1>2. sensComp <= step /\ sensOut <= sensComp /\ scRec <= sensOut
  BY DEF ChainInv, Downstream
<1>3. /\ sensComp' = IF Activates("Sensor", granted) THEN step ELSE sensComp
      /\ sensOut' = IF Finishes("Sensor", granted) THEN sensComp' ELSE sensOut
  BY DEF EndTick, SensorStage
<1>4. /\ sensComp' <= step' /\ sensOut' <= sensComp' /\ sensOut <= sensOut'
  BY <1>1, <1>2, <1>3 DEF Stamp
<1>5. ASSUME NEW d \in ScDelays
      PROVE  /\ scRec' \in Stamp /\ scRec <= scRec' /\ scRec' <= sensOut
             /\ InOrder(InFlight(scReceiveAt), scRec', sensOut, step + d)
  <2>1. step + d \in Nat /\ InOrder(scReceiveAt, scRec, sensOut, step + d)
    BY <1>1, TaskSetAssumption DEF ChainInv, ScInOrder
  <2>2. scRec' = IF Due(scReceiveAt) = {} THEN scRec
                 ELSE scReceiveAt[FirstDue(scReceiveAt)].data.stamp
    BY DEF EndTick, ReceivePackets
  <2> QED
    BY <1>1, <1>2, <2>1, <2>2, DeliverInOrder
<1>6. PICK some \in ScDelays : TRUE
  BY TaskSetAssumption
<1>7. scRec' \in Stamp /\ scRec <= scRec' /\ scRec' <= sensOut
  BY <1>5, <1>6
<1>8. ASSUME NEW d \in ScDelays
      PROVE  InOrder(scReceiveAt', scRec', sensOut', step' + d)
  <2>1. step + d \in Nat /\ step' + d = (step + d) + 1
    BY <1>1, TaskSetAssumption
  <2>2. InFlight(scReceiveAt) \in Seq(Packet)
    BY <1>1, InFlightType
  <2>3. CASE Finishes("Sensor", granted)
    <3>1. scReceiveAt' = Append(InFlight(scReceiveAt),
                                [arriveStep |-> step + d,
                                 data |-> [stamp |-> sensOut', stampOld |-> sensOut']])
      BY <2>3 DEF EndTick, SensorStage, FixedDelays
    <3> DEFINE packet == [arriveStep |-> step + d,
                          data |-> [stamp |-> sensOut', stampOld |-> sensOut']]
    <3>2. packet \in Packet /\ packet.arriveStep = step + d /\ packet.data.stamp = sensOut'
      BY <1>1, <2>1 DEF Packet, Lineage
    <3>3. InOrder(Append(InFlight(scReceiveAt), packet), scRec', sensOut', (step + d) + 1)
      <4> HIDE DEF packet
      <4> QED
        BY <1>1, <1>4, <1>5, <1>7, <2>1, <2>2, <3>2, SendInOrder
    <3> QED
      BY <2>1, <3>1, <3>3
  <2>4. CASE ~Finishes("Sensor", granted)
    <3>1. scReceiveAt' = InFlight(scReceiveAt)
      BY <2>4 DEF EndTick, SensorStage
    <3> QED
      BY <1>1, <1>4, <1>5, <1>7, <2>1, <2>2, <3>1, WaitInOrder
  <2> QED
    BY <2>3, <2>4
<1> QED
  BY <1>1, <1>4, <1>7, <1>8 DEF ScInOrder, Stamp

\* The cloud stages: each reads what the one before it holds now.
LEMMA CloudStages ==
  ASSUME FixedDelays, ChainInv, NEW granted, EndTick(granted)
  PROVE  /\ estComp' <= scRec' /\ estOut' <= estComp' /\ fbComp' <= estOut'
         /\ fbOut' <= fbComp'
         /\ aggComp'.stamp <= estOut' /\ aggOut'.stamp <= aggComp'.stamp
         /\ aggOut.stamp <= aggOut'.stamp
         /\ MergerReadsShortcutAndPath'
<1>1. TypeOK /\ TypeOK'
  BY EndTickType DEF ChainInv
<1>2. /\ scRec \in Stamp /\ estComp \in Stamp /\ estOut \in Stamp
      /\ fbComp \in Stamp /\ fbOut \in Stamp
      /\ aggComp \in Lineage /\ aggOut \in Lineage
      /\ aggComp.stamp \in Stamp /\ aggOut.stamp \in Stamp
  BY <1>1 DEF TypeOK, Lineage
<1>3. /\ scRec' \in Stamp /\ estComp' \in Stamp /\ estOut' \in Stamp
      /\ fbComp' \in Stamp /\ fbOut' \in Stamp
      /\ aggComp' \in Lineage /\ aggOut' \in Lineage
      /\ aggComp'.stamp \in Stamp /\ aggOut'.stamp \in Stamp
  BY <1>1 DEF TypeOK, Lineage
<1>4. /\ estComp <= scRec /\ estOut <= estComp /\ fbComp <= estOut /\ fbOut <= fbComp
      /\ aggComp.stamp <= estOut /\ aggOut.stamp <= aggComp.stamp
  BY DEF ChainInv, Downstream
<1>5. scRec <= scRec'
  BY SensorNetwork
<1>6. estComp' <= scRec' /\ estOut' <= estComp' /\ estOut <= estOut'
  BY <1>2, <1>3, <1>4, <1>5 DEF EndTick, EstimatorStage, Stamp
<1>7. fbComp' <= estOut' /\ fbOut' <= fbComp'
  BY <1>2, <1>3, <1>4, <1>6 DEF EndTick, ControllerStage, Stamp
<1>8. fbOut' <= estOut'
  BY <1>3, <1>7 DEF Stamp
<1>9. /\ Freshest(fbOut', estOut') = estOut'
      /\ OldestValid(fbOut', estOut') = IF fbOut' >= 0 THEN fbOut' ELSE estOut'
  BY <1>3, <1>8 DEF Freshest, Later, OldestValid, Stamp
<1>10. aggComp' = IF Activates("Merger", granted)
                    THEN [stamp |-> Freshest(fbOut', estOut'),
                          stampOld |-> OldestValid(fbOut', estOut')]
                    ELSE aggComp
  BY DEF EndTick, MergerStage
<1>11. aggComp'.stamp <= estOut' /\ aggComp.stamp <= aggComp'.stamp
  BY <1>2, <1>3, <1>4, <1>6, <1>9, <1>10 DEF Stamp
<1>12. aggOut'.stamp <= aggComp'.stamp /\ aggOut.stamp <= aggOut'.stamp
  BY <1>2, <1>3, <1>4, <1>11 DEF EndTick, MergerStage, Stamp
<1>13. MergerReadsShortcutAndPath'
  <2> SUFFICES ASSUME "merge_act" \in trig'
               PROVE  /\ aggComp'.stamp = estOut'
                      /\ aggComp'.stampOld = IF fbOut' >= 0 THEN fbOut' ELSE estOut'
    BY DEF MergerReadsShortcutAndPath
  <2>1. Activates("Merger", granted)
    <3>1. /\ "Merger" \in TaskKind
          /\ \A k \in TaskKind : ActPulse[k] = "merge_act" => k = "Merger"
          /\ \A k \in TaskKind : FinPulse[k] # "merge_act"
      BY DEF ActPulse, FinPulse, TaskKind
    <3> QED
      BY <3>1 DEF EndTick, EmitPulses
  <2> QED
    BY <1>9, <1>10, <2>1
<1> QED
  BY <1>6, <1>7, <1>11, <1>12, <1>13

\* The command network, as the sensor network: one append per tick, a fixed delay.
LEMMA CommandNetwork ==
  ASSUME FixedDelays, ChainInv, NEW granted, EndTick(granted)
  PROVE  /\ caRec.stamp <= caRec'.stamp /\ caRec'.stamp <= aggOut'.stamp
         /\ CaInOrder'
<1>1. /\ step \in Nat /\ step' = step + 1 /\ caReceiveAt \in Seq(Packet)
      /\ view \in Views /\ TypeOK
  BY DEF ChainInv, TypeOK, EndTick
<1>2. /\ aggOut.stamp \in Stamp /\ caRec.stamp \in Stamp
      /\ aggOut' \in Lineage /\ aggOut'.stamp \in Stamp
  <2>1. TypeOK'
    BY <1>1, EndTickType
  <2> QED
    BY <1>1, <2>1 DEF TypeOK, Lineage
<1>3. caRec.stamp <= aggOut.stamp /\ aggOut.stamp <= aggOut'.stamp
  BY CloudStages DEF ChainInv, Downstream
<1>4. ASSUME NEW d \in CaDelays, NEW v \in Views
      PROVE  step + (d + v.extraNetDelay) \in Nat
  <2>1. v.extraNetDelay \in Nat /\ d \in Nat
    BY TaskSetAssumption DEF View
  <2> QED
    BY <1>1, <2>1
<1>5. ASSUME NEW d \in CaDelays, NEW v \in Views
      PROVE  /\ caRec'.stamp \in Stamp
             /\ caRec.stamp <= caRec'.stamp /\ caRec'.stamp <= aggOut.stamp
             /\ InOrder(InFlight(caReceiveAt), caRec'.stamp, aggOut.stamp,
                        step + (d + v.extraNetDelay))
  <2>1. InOrder(caReceiveAt, caRec.stamp, aggOut.stamp, step + (d + v.extraNetDelay))
    BY DEF ChainInv, CaInOrder
  <2>2. caRec'.stamp = IF Due(caReceiveAt) = {} THEN caRec.stamp
                       ELSE caReceiveAt[FirstDue(caReceiveAt)].data.stamp
    BY DEF EndTick, ReceivePackets
  <2> QED
    BY <1>1, <1>2, <1>3, <1>4, <2>1, <2>2, DeliverInOrder
<1>6. PICK some \in CaDelays : TRUE
  BY TaskSetAssumption
<1>7. /\ caRec'.stamp \in Stamp
      /\ caRec.stamp <= caRec'.stamp /\ caRec'.stamp <= aggOut.stamp
  BY <1>1, <1>5, <1>6
<1>8. ASSUME NEW d \in CaDelays, NEW v \in Views
      PROVE  InOrder(caReceiveAt', caRec'.stamp, aggOut'.stamp,
                     step' + (d + v.extraNetDelay))
  <2> DEFINE end == step + (d + v.extraNetDelay)
  <2>1. end \in Nat /\ step' + (d + v.extraNetDelay) = end + 1
    <3>1. d \in Nat /\ v.extraNetDelay \in Nat
      BY TaskSetAssumption DEF View
    <3>2. step \in Nat /\ step' = step + 1
      BY <1>1
    <3>3. PICK e \in Nat : e = d + v.extraNetDelay
      BY <3>1
    <3> QED
      BY <3>2, <3>3
  <2>2. InFlight(caReceiveAt) \in Seq(Packet)
    BY <1>1, InFlightType
  <2>3. InOrder(InFlight(caReceiveAt), caRec'.stamp, aggOut.stamp, end)
    BY <1>5
  <2>4. CASE Finishes("Merger", granted)
    <3>1. PICK delay \in CaDelays :
            caReceiveAt' = Append(InFlight(caReceiveAt),
                                  [arriveStep |-> step + delay + view.extraNetDelay,
                                   data |-> aggOut'])
      BY <2>4 DEF EndTick, MergerStage
    <3>2. step + delay + view.extraNetDelay = end
      <4>1. delay = d /\ view.extraNetDelay = v.extraNetDelay
        BY <1>1 DEF FixedDelays
      <4>2. d \in Nat /\ v.extraNetDelay \in Nat
        BY TaskSetAssumption DEF View
      <4> QED
        BY <1>1, <4>1, <4>2
    <3> DEFINE packet == [arriveStep |-> end, data |-> aggOut']
    <3>3. /\ packet \in Packet /\ packet.arriveStep = end
          /\ packet.data.stamp = aggOut'.stamp
      BY <1>2, <2>1 DEF Packet
    <3>4. caReceiveAt' = Append(InFlight(caReceiveAt), packet)
      BY <3>1, <3>2
    <3> HIDE DEF packet, end
    <3>5. InOrder(Append(InFlight(caReceiveAt), packet), caRec'.stamp, aggOut'.stamp, end + 1)
      BY <1>2, <1>3, <1>7, <2>1, <2>2, <2>3, <3>3, SendInOrder
    <3> QED
      BY <2>1, <3>4, <3>5
  <2>5. CASE ~Finishes("Merger", granted)
    <3>1. caReceiveAt' = InFlight(caReceiveAt)
      BY <2>5 DEF EndTick, MergerStage
    <3> HIDE DEF end
    <3>2. InOrder(InFlight(caReceiveAt), caRec'.stamp, aggOut'.stamp, end + 1)
      BY <1>2, <1>3, <1>7, <2>1, <2>2, <2>3, WaitInOrder
    <3> QED
      BY <2>1, <3>1, <3>2
  <2> QED
    BY <2>4, <2>5
<1> QED
  BY <1>2, <1>3, <1>7, <1>8 DEF CaInOrder, Stamp

\* The actuator applies what it latched, and latches what has arrived.
LEMMA ActuatorStages ==
  ASSUME FixedDelays, ChainInv, NEW granted, EndTick(granted)
  PROVE  /\ actIn'.stamp <= caRec'.stamp /\ actOut'.stamp <= actIn'.stamp
         /\ actOut.stamp <= actOut'.stamp
<1>1. TypeOK /\ TypeOK'
  BY EndTickType DEF ChainInv
<1>2. /\ caRec.stamp \in Stamp /\ actIn.stamp \in Stamp /\ actOut.stamp \in Stamp
      /\ caRec'.stamp \in Stamp /\ actIn'.stamp \in Stamp /\ actOut'.stamp \in Stamp
  BY <1>1 DEF TypeOK, Lineage
<1>3. /\ actIn.stamp <= caRec.stamp /\ actOut.stamp <= actIn.stamp
      /\ caRec.stamp <= caRec'.stamp
  BY CommandNetwork DEF ChainInv, Downstream
<1>4. actIn'.stamp <= caRec'.stamp /\ actIn.stamp <= actIn'.stamp
  BY <1>2, <1>3 DEF EndTick, ActuatorStage, Stamp
<1>5. actOut'.stamp <= actIn'.stamp /\ actOut.stamp <= actOut'.stamp
  BY <1>2, <1>3, <1>4 DEF EndTick, ActuatorStage, Stamp
<1> QED
  BY <1>4, <1>5

LEMMA ChainEnd ==
  ASSUME FixedDelays, ChainInv, NEW granted, EndTick(granted)
  PROVE  ChainInv'
<1>1. TypeOK' /\ view' \in Views
  BY EndTickType DEF ChainInv, EndTick
<1>2. Downstream'
  BY SensorNetwork, CloudStages, CommandNetwork, ActuatorStages DEF Downstream
<1> QED
  BY <1>1, <1>2, SensorNetwork, CloudStages, CommandNetwork DEF ChainInv

LEMMA ChainInvariant == ASSUME FixedDelays PROVE Spec => []ChainInv
<1>1. ChainInv /\ UNCHANGED vars => ChainInv'
  BY DEF ChainInv, TypeOK, Downstream, ScInOrder, CaInOrder, InOrder,
         MergerReadsShortcutAndPath, vars, jobVars, scVars, estVars, bVars, ffVars,
         aggVars, caVars, actVars
<1>2. ChainInv /\ [Next]_vars => ChainInv'
  BY <1>1, ChainBegin, ChainEnd DEF Next
<1> QED
  BY <1>2, ChainInit, PTL DEF Spec

-----------------------------------------------------------------------------
(* On time: with fixed delays at most one packet is due in a tick, and it is *)
(* delivered in exactly the tick it arrives in.                              *)

NoneOverdue(q) == \A i \in 1 .. Len(q) : q[i].arriveStep >= step

NothingOverdue == NoneOverdue(scReceiveAt) /\ NoneOverdue(caReceiveAt)

\* How many packets of a queue this tick delivers.
Gone(q) == IF Due(q) = {} THEN 0 ELSE 1

\* What is left of q in q2 at the end of a tick: its packets are where they were, or one
\* place further up, and arrive in a later tick.
MovesUp(q, q2) ==
  \A i \in 1 .. Len(q) - Gone(q) : /\ i + Gone(q) \in 1 .. Len(q)
                                  /\ q2[i] = q[i + Gone(q)]
                                  /\ q2[i].arriveStep >= step + 1

\* A tick takes the front packet off an ordered queue when that is due, and leaves
\* the others, which arrive later.
LEMMA OnTimeDelivery ==
  ASSUME step \in Nat, NEW q \in Seq(Packet), NEW lo, NEW hi, NEW end,
         InOrder(q, lo, hi, end), NoneOverdue(q)
  PROVE  /\ Len(q) \in Nat /\ Gone(q) \in {0, 1} /\ Gone(q) <= Len(q)
         /\ Due(q) # {} => FirstDue(q) = 1
         /\ Len(InFlight(q)) = Len(q) - Gone(q)
         /\ MovesUp(q, InFlight(q))
<1>0. Len(q) \in Nat /\ \A i \in 1 .. Len(q) : q[i].arriveStep \in Nat
  BY LenProperties, PacketFields
<1>1. CASE Due(q) = {}
  <2>1. \A i \in 1 .. Len(q) : q[i].arriveStep >= step + 1
    BY <1>0, <1>1, DueInQueue
  <2> QED
    BY <1>0, <1>1, <2>1 DEF InFlight, Gone, MovesUp
<1>2. CASE Due(q) # {}
  <2>1. 1 \in 1 .. Len(q) /\ FirstDue(q) = 1
    BY <1>2, FrontIsFirstDue
  <2>2. Gone(q) = 1 /\ InFlight(q) = RemoveAt(q, 1)
    BY <1>2, <2>1 DEF InFlight, Gone
  <2>3. Len(InFlight(q)) = Len(q) - 1
    BY <2>1, <2>2, RemoveAtElements
  <2>4. ASSUME NEW i \in 1 .. Len(q) - 1
        PROVE  /\ i + 1 \in 1 .. Len(q)
               /\ InFlight(q)[i] = q[i + 1]
               /\ InFlight(q)[i].arriveStep >= step + 1
    <3>1. i + 1 \in 1 .. Len(q) /\ 1 < i + 1
      BY <1>0, <2>4
    <3>2. RemoveAt(q, 1)[i] = IF i < 1 THEN q[i] ELSE q[i + 1]
      BY <2>1, RemoveAtElements
    <3>3. q[1].arriveStep >= step /\ q[1].arriveStep < q[i + 1].arriveStep
      BY <2>1, <3>1 DEF NoneOverdue, InOrder
    <3> QED
      BY <1>0, <2>1, <2>2, <3>1, <3>2, <3>3
  <2> QED
    BY <1>0, <1>2, <2>1, <2>2, <2>3, <2>4 DEF MovesUp
<1> QED
  BY <1>1, <1>2

\* The two queues of the chain, as OnTimeDelivery wants them.
LEMMA QueuesInOrder ==
  ASSUME ChainInv
  PROVE  /\ step \in Nat /\ scReceiveAt \in Seq(Packet) /\ caReceiveAt \in Seq(Packet)
         /\ \E end : InOrder(scReceiveAt, scRec, sensOut, end)
         /\ \E end : InOrder(caReceiveAt, caRec.stamp, aggOut.stamp, end)
<1>1. \E d \in ScDelays : TRUE
  BY TaskSetAssumption
<1>2. \E d \in CaDelays : \E v \in Views : TRUE
  BY TaskSetAssumption
<1> QED
  BY <1>1, <1>2 DEF ChainInv, TypeOK, ScInOrder, CaInOrder

\* What a send does to a queue that holds nothing due any more.
LEMMA SendOnTime ==
  ASSUME step \in Nat, NEW q \in Seq(Packet), NEW packet \in Packet,
         \A i \in 1 .. Len(q) : q[i].arriveStep >= step + 1, packet.arriveStep >= step + 1
  PROVE  LET r == Append(q, packet) IN
           /\ Len(r) = Len(q) + 1 /\ r[Len(q) + 1] = packet
           /\ \A i \in 1 .. Len(q) : r[i] = q[i]
           /\ \A i \in 1 .. Len(r) : r[i].arriveStep >= step + 1
<1> DEFINE r == Append(q, packet)
<1>1. /\ Len(q) \in Nat /\ Len(r) = Len(q) + 1 /\ r[Len(q) + 1] = packet
      /\ \A i \in 1 .. Len(q) : r[i] = q[i]
  BY LenProperties, AppendProperties
<1> HIDE DEF r
<1>2. \A i \in 1 .. Len(r) : i \in 1 .. Len(q) \/ i = Len(q) + 1
  BY <1>1
<1>3. \A i \in 1 .. Len(r) : r[i].arriveStep >= step + 1
  BY <1>1, <1>2
<1> QED
  BY <1>1, <1>3 DEF r

\* A whole tick of a queue: what it holds moves up by what is delivered, and what is
\* sent goes to the end.
LEMMA DeliverAndSend ==
  ASSUME step \in Nat, NEW q \in Seq(Packet), NEW lo, NEW hi, NEW end,
         InOrder(q, lo, hi, end), NoneOverdue(q),
         NEW packet \in Packet, packet.arriveStep >= step + 1,
         NEW q2, q2 = Append(InFlight(q), packet)
  PROVE  /\ Len(q2) = Len(q) - Gone(q) + 1 /\ q2[Len(q2)] = packet
         /\ MovesUp(q, q2)
<1>1. InFlight(q) \in Seq(Packet)
  BY InFlightType
<1>2. /\ Len(InFlight(q)) = Len(q) - Gone(q)
      /\ \A i \in 1 .. Len(q) - Gone(q) :
           /\ i + Gone(q) \in 1 .. Len(q)
           /\ InFlight(q)[i] = q[i + Gone(q)]
           /\ InFlight(q)[i].arriveStep >= step + 1
  BY OnTimeDelivery DEF MovesUp
<1>3. /\ Len(q2) = Len(InFlight(q)) + 1 /\ q2[Len(InFlight(q)) + 1] = packet
      /\ \A i \in 1 .. Len(InFlight(q)) : q2[i] = InFlight(q)[i]
  BY <1>1, <1>2, SendOnTime
<1> QED
  BY <1>2, <1>3 DEF MovesUp

\* The packet that a tick sends, if any, on each network.
LEMMA SentPackets ==
  ASSUME ChainInv, NEW granted, EndTick(granted)
  PROVE  /\ IF Finishes("Sensor", granted)
              THEN \E delay \in ScDelays : \E packet \in Packet :
                     /\ packet.arriveStep = step + delay /\ packet.arriveStep >= step + 1
                     /\ packet.data = [stamp |-> sensOut', stampOld |-> sensOut']
                     /\ scReceiveAt' = Append(InFlight(scReceiveAt), packet)
              ELSE scReceiveAt' = InFlight(scReceiveAt)
         /\ IF Finishes("Merger", granted)
              THEN \E delay \in CaDelays : \E packet \in Packet :
                     /\ packet.arriveStep = step + delay + view.extraNetDelay
                     /\ packet.arriveStep >= step + 1
                     /\ packet.data = aggOut'
                     /\ caReceiveAt' = Append(InFlight(caReceiveAt), packet)
              ELSE caReceiveAt' = InFlight(caReceiveAt)
<1>1. TypeOK /\ TypeOK' /\ step \in Nat
  BY EndTickType DEF ChainInv, TypeOK
<1>2. sensOut' \in Stamp /\ aggOut' \in Lineage /\ view.extraNetDelay \in Nat
  BY <1>1 DEF TypeOK, View
<1>3. ASSUME Finishes("Sensor", granted)
      PROVE  \E delay \in ScDelays : \E packet \in Packet :
               /\ packet.arriveStep = step + delay /\ packet.arriveStep >= step + 1
               /\ packet.data = [stamp |-> sensOut', stampOld |-> sensOut']
               /\ scReceiveAt' = Append(InFlight(scReceiveAt), packet)
  <2>1. PICK delay \in ScDelays :
          scReceiveAt' = Append(InFlight(scReceiveAt),
                                [arriveStep |-> step + delay,
                                 data |-> [stamp |-> sensOut', stampOld |-> sensOut']])
    BY <1>3 DEF EndTick, SensorStage
  <2>2. step + delay \in Nat /\ step + delay >= step + 1
    BY <1>1, TaskSetAssumption
  <2>3. [stamp |-> sensOut', stampOld |-> sensOut'] \in Lineage
    BY <1>2 DEF Lineage
  <2>4. [arriveStep |-> step + delay,
         data |-> [stamp |-> sensOut', stampOld |-> sensOut']] \in Packet
    BY <2>2, <2>3 DEF Packet
  <2> QED
    BY <2>1, <2>2, <2>4
<1>4. ASSUME Finishes("Merger", granted)
      PROVE  \E delay \in CaDelays : \E packet \in Packet :
               /\ packet.arriveStep = step + delay + view.extraNetDelay
               /\ packet.arriveStep >= step + 1
               /\ packet.data = aggOut'
               /\ caReceiveAt' = Append(InFlight(caReceiveAt), packet)
  <2>1. PICK delay \in CaDelays :
          caReceiveAt' = Append(InFlight(caReceiveAt),
                                [arriveStep |-> step + delay + view.extraNetDelay,
                                 data |-> aggOut'])
    BY <1>4 DEF EndTick, MergerStage
  <2>2. step + delay + view.extraNetDelay \in Nat /\ step + delay + view.extraNetDelay >= step + 1
    BY <1>1, <1>2, TaskSetAssumption
  <2>3. [arriveStep |-> step + delay + view.extraNetDelay, data |-> aggOut'] \in Packet
    BY <1>2, <2>2 DEF Packet
  <2> QED
    BY <2>1, <2>2, <2>3
<1>5. ~Finishes("Sensor", granted) => scReceiveAt' = InFlight(scReceiveAt)
  BY DEF EndTick, SensorStage
<1>6. ~Finishes("Merger", granted) => caReceiveAt' = InFlight(caReceiveAt)
  BY DEF EndTick, MergerStage
<1> QED
  BY <1>3, <1>4, <1>5, <1>6

LEMMA OverdueEnd ==
  ASSUME ChainInv, NothingOverdue, NEW granted, EndTick(granted)
  PROVE  NothingOverdue'
<1>1. /\ step \in Nat /\ step' = step + 1
      /\ InFlight(scReceiveAt) \in Seq(Packet) /\ InFlight(caReceiveAt) \in Seq(Packet)
  BY QueuesInOrder, InFlightType DEF EndTick
<1>2. /\ \A i \in 1 .. Len(InFlight(scReceiveAt)) :
           InFlight(scReceiveAt)[i].arriveStep >= step + 1
      /\ \A i \in 1 .. Len(InFlight(caReceiveAt)) :
           InFlight(caReceiveAt)[i].arriveStep >= step + 1
  BY QueuesInOrder, OnTimeDelivery DEF NothingOverdue, MovesUp
<1>3. \A i \in 1 .. Len(scReceiveAt') : scReceiveAt'[i].arriveStep >= step + 1
  <2>1. CASE Finishes("Sensor", granted)
    <3>1. PICK packet \in Packet : /\ packet.arriveStep >= step + 1
                                   /\ scReceiveAt' = Append(InFlight(scReceiveAt), packet)
      BY <2>1, SentPackets
    <3> QED
      BY <1>1, <1>2, <3>1, SendOnTime
  <2>2. CASE ~Finishes("Sensor", granted)
    BY <1>2, <2>2, SentPackets
  <2> QED
    BY <2>1, <2>2
<1>4. \A i \in 1 .. Len(caReceiveAt') : caReceiveAt'[i].arriveStep >= step + 1
  <2>1. CASE Finishes("Merger", granted)
    <3>1. PICK packet \in Packet : /\ packet.arriveStep >= step + 1
                                   /\ caReceiveAt' = Append(InFlight(caReceiveAt), packet)
      BY <2>1, SentPackets
    <3> QED
      BY <1>1, <1>2, <3>1, SendOnTime
  <2>2. CASE ~Finishes("Merger", granted)
    BY <1>2, <2>2, SentPackets
  <2> QED
    BY <2>1, <2>2
<1> QED
  BY <1>1, <1>3, <1>4 DEF NothingOverdue, NoneOverdue

\* With fixed delays no packet is ever late.
LEMMA OverdueInvariant == ASSUME FixedDelays PROVE Spec => [](ChainInv /\ NothingOverdue)
<1>1. Init => NothingOverdue
  BY EmptySeq DEF Init, NothingOverdue, NoneOverdue
<1>2. ChainInv /\ NothingOverdue /\ [Next]_vars => NothingOverdue'
  <2> SUFFICES ASSUME ChainInv, NothingOverdue, [Next]_vars PROVE NothingOverdue'
    OBVIOUS
  <2>1. CASE BeginTick
    BY <2>1 DEF BeginTick, scVars, caVars, NothingOverdue, NoneOverdue
  <2>2. ASSUME NEW granted \in Grants, EndTick(granted) PROVE NothingOverdue'
    BY <2>2, OverdueEnd
  <2>3. CASE UNCHANGED vars
    BY <2>3 DEF vars, scVars, caVars, NothingOverdue, NoneOverdue
  <2> QED
    BY <2>1, <2>2, <2>3 DEF Next
<1> QED
  BY <1>1, <1>2, ChainInvariant, PTL DEF Spec

-----------------------------------------------------------------------------
(* Theorems *)

\* With fixed delays the two merge conventions are the chains they are named
\* for, for every task set, overrun policy and choice of cores.
THEOREM MergerConventions == ASSUME FixedDelays PROVE Spec => []MergerReadsShortcutAndPath
<1>1. ChainInv => MergerReadsShortcutAndPath
  BY DEF ChainInv
<1> QED
  BY <1>1, ChainInvariant, PTL

\* With fixed delays the data behind the applied command only gets newer.
THEOREM AppliedMonotone == ASSUME FixedDelays PROVE Spec => AppliedNeverRegresses
<1>1. ChainInv /\ [Next]_vars => [actOut'.stamp >= actOut.stamp]_vars
  <2> SUFFICES ASSUME ChainInv, Next PROVE actOut'.stamp >= actOut.stamp
    OBVIOUS
  <2>1. actOut.stamp \in Stamp
    BY DEF ChainInv, TypeOK, Lineage
  <2>2. CASE BeginTick
    BY <2>1, <2>2 DEF BeginTick, actVars, Stamp
  <2>3. ASSUME NEW granted \in Grants, EndTick(granted) PROVE actOut'.stamp >= actOut.stamp
    <3>1. actOut'.stamp \in Stamp
      BY <2>3, EndTickType DEF ChainInv, TypeOK, Lineage
    <3> QED
      BY <2>1, <2>3, <3>1, ActuatorStages DEF Stamp
  <2> QED
    BY <2>2, <2>3 DEF Next
<1> QED
  BY <1>1, ChainInvariant, PTL DEF Spec, AppliedNeverRegresses
=============================================================================
