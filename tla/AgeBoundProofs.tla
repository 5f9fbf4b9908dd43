--------------------------- MODULE AgeBoundProofs ----------------------------
(***************************************************************************)
(* The end-to-end data-age bound, for every task set, every response-time  *)
(* bound up to the period and every schedule that keeps to them.  The age  *)
(* of the data in a register is bounded stage by stage down the chain: by  *)
(* the age of what the stage reads, and by how long the register it writes *)
(* may have to wait for the next value.                                    *)
(***************************************************************************)
EXTENDS AgeBound, TaskChainProofs

-----------------------------------------------------------------------------
(* Ages of the registers, down the chain *)

\* What a stage adds to the age of its input: in the tick before its next value is
\* published, the old one was read Period + Response - 2 ticks ago.
Refresh(k) == Period[k] + Response[k] - 2

SensorAge == Refresh("Sensor")
ScAge     == SensorAge + ScDelay
EstAge    == ScAge + Refresh("Estimator")
FbAge     == EstAge + Refresh("Controller")
AggAge    == FbAge + Refresh("Merger")
CaAge     == AggAge + CaDelay
ActAge    == CaAge + Refresh("Actuator")

\* The tick it is, and the age of the data in a register that has any.
AgeWithin(now, stamp, age) == stamp >= 0 => now <= stamp + age

\* The same in every tick before the one given.
AgeUntil(next, stamp, age) == stamp >= 0 => next <= stamp + age + 1

-----------------------------------------------------------------------------
(* The inductive invariant *)

\* A stage whose input is at most age old: what it has read goes back no further than
\* that from the release of its job, and what it has published from the release before.
StageAge(k, j, comp, out, age) ==
  /\ out >= 0 =>
       j.nextRelease <= out + age + Period[k] + (IF j.active THEN Period[k] ELSE 0)
  /\ (j.active /\ j.started /\ comp >= 0) => j.nextRelease <= comp + age + Period[k]

(* A network: n packets in flight, with their arrival ticks and stamps.  The last packet
   carries what was sent last, and every packet arrives before the one received before it
   is older than age. *)
Refreshed(n, arrive, stamp, rec, out, age) ==
  /\ out = IF n = 0 THEN rec ELSE stamp[n]
  /\ \A i \in 1 .. n : AgeUntil(arrive[i], IF i = 1 THEN rec ELSE stamp[i - 1], age)

Arrivals(q) == [i \in 1 .. Len(q) |-> q[i].arriveStep]
Stamps(q, s) == [i \in 1 .. Len(q) |-> s[q[i]]]
FreshOf == [p \in Packet |-> p.data.stamp]
OldOf == [p \in Packet |-> p.data.stampOld]
StampOfPacket(s) == s \in [Packet -> Stamp]

ScRefreshed ==
  Refreshed(Len(scReceiveAt), Arrivals(scReceiveAt), Stamps(scReceiveAt, FreshOf),
            scRec, sensOut, ScAge)

CaRefreshed ==
  Refreshed(Len(caReceiveAt), Arrivals(caReceiveAt), Stamps(caReceiveAt, OldOf),
            caRec.stampOld, aggOut.stampOld, CaAge)

StagesRefreshed ==
  /\ StageAge("Sensor", job["Sensor"], sensComp, sensOut, 0)
  /\ StageAge("Estimator", job["Estimator"], estComp, estOut, ScAge)
  /\ StageAge("Controller", job["Controller"], fbComp, fbOut, EstAge)
  /\ StageAge("Merger", job["Merger"], aggComp.stampOld, aggOut.stampOld, FbAge)
  /\ StageAge("Actuator", job["Actuator"], actIn.stampOld, actOut.stampOld, CaAge)

AgeInv ==
  /\ Timely
  /\ StagesRefreshed
  /\ ScRefreshed
  /\ CaRefreshed
  /\ maxAge.stampOld <= TickBound

-----------------------------------------------------------------------------
(* What the assumptions say *)

LEMMA StageConstants ==
  ASSUME NEW k \in Stages
  PROVE  /\ k \in TaskKind /\ Period[k] \in Nat /\ Response[k] \in Nat
         /\ 2 <= Response[k] /\ Response[k] <= Period[k] /\ Refresh(k) \in Nat
<1>1. /\ k \in TaskKind /\ Period[k] \in Nat /\ Response[k] \in Nat
      /\ C[k] \in Nat /\ C[k] >= 2 /\ C[k] <= Response[k] /\ Response[k] <= Period[k]
  BY TaskSetAssumption, BoundAssumption DEF Stages
<1> QED
  BY <1>1 DEF Refresh

LEMMA AgesAreNaturals ==
  /\ ScDelay \in Nat \ {0} /\ CaDelay \in Nat \ {0}
  /\ SensorAge \in Nat /\ ScAge \in Nat /\ EstAge \in Nat /\ FbAge \in Nat
  /\ AggAge \in Nat /\ CaAge \in Nat /\ ActAge \in Nat
<1>1. {"Sensor", "Estimator", "Controller", "Merger", "Actuator"} \subseteq Stages
  BY DEF Stages, TaskKind
<1>2. ScDelay \in Nat \ {0} /\ CaDelay \in Nat \ {0}
  BY TaskSetAssumption, BoundAssumption
<1>3. /\ Refresh("Sensor") \in Nat /\ Refresh("Estimator") \in Nat
      /\ Refresh("Controller") \in Nat /\ Refresh("Merger") \in Nat
      /\ Refresh("Actuator") \in Nat
  BY <1>1, StageConstants
<1> QED
  BY <1>2, <1>3 DEF SensorAge, ScAge, EstAge, FbAge, AggAge, CaAge, ActAge

\* The age of what the actuator applies is the exact bound.
LEMMA TickBoundIsActAge == TickBound = ActAge
<1>1. /\ Response["Sensor"] = C["Sensor"] /\ Response["Actuator"] = C["Actuator"]
      /\ \A k \in TaskKind : Period[k] \in Int /\ Response[k] \in Int
  BY TaskSetAssumption, BoundAssumption DEF InVehicle
<1>2. ScDelay \in Int /\ CaDelay \in Int
  BY AgesAreNaturals
<1>3. \A k \in {"Sensor", "Estimator", "Controller", "Merger", "Actuator"} :
        Period[k] \in Int /\ Response[k] \in Int
  BY <1>1 DEF TaskKind
<1> QED
  BY <1>1, <1>2, <1>3 DEF TickBound, ActAge, CaAge, AggAge, FbAge, EstAge, ScAge, SensorAge,
     Refresh

\* The published bound is at least ten ticks above the exact one.
LEMMA PublishedIsLooser == TickBound + 10 <= Layer1Bound
<1> DEFINE K == {"Sensor", "Estimator", "Controller", "Merger", "Actuator"}
<1>1. \A k \in K : /\ Period[k] \in Int /\ Response[k] \in Int /\ C[k] \in Int
                   /\ C[k] <= Response[k]
  BY TaskSetAssumption, BoundAssumption DEF Stages, TaskKind
<1>2. ScDelay \in Int /\ CaDelay \in Int
  BY AgesAreNaturals
<1> QED
  BY <1>1, <1>2 DEF TickBound, Layer1Bound, Gap

\* Fixed times and no zone demands: packets keep their order.
LEMMA BoundFixesDelays == FixedDelays /\ \A v \in Views : v.extraNetDelay = 0 /\ v.bzHold = 0
BY BoundAssumption DEF FixedDelays

-----------------------------------------------------------------------------
(* One stage *)

\* A release finds the stage's job finished, so nothing is killed or skipped.
LEMMA StageBegin ==
  ASSUME PublicationInv, Timely, BeginTick, NEW k \in Stages
  PROVE  /\ job'[k].active => step' < job'[k].nextRelease - Period[k] + Response[k]
         /\ \A comp, out \in Stamp, age \in Nat :
              StageAge(k, job[k], comp, out, age) => StageAge(k, job'[k], comp, out, age)
<1>1. /\ k \in TaskKind /\ Period[k] \in Nat /\ Response[k] \in Nat
      /\ 2 <= Response[k] /\ Response[k] <= Period[k]
  BY StageConstants
<1>2. /\ step \in Nat /\ step' = step /\ TypeOK
      /\ job[k].nextRelease \in Nat /\ job[k].active \in BOOLEAN
      /\ step <= job[k].nextRelease
  BY <1>1, JobFields DEF PublicationInv, TypeOK, BeginTick, JobOnTime, Horizon
<1>3. CASE step < job[k].nextRelease
  BY <1>1, <1>2, <1>3, ReleaseOnTime DEF Timely
<1>4. CASE step >= job[k].nextRelease
  <2>1. ~job[k].active
    BY <1>1, <1>2, <1>4 DEF Timely
  <2>2. PICK exec \in Samples :
          job' = [kind \in TaskKind |-> ReleaseIfDue(kind, exec[kind], view'.zoneFlagged)]
    BY DEF BeginTick
  <2>3. job'[k] = Released(k, exec[k], view'.zoneFlagged)
    BY <1>1, <1>2, <1>4, <2>1, <2>2 DEF ReleaseIfDue, Overruns
  <2>4. /\ job'[k].nextRelease = job[k].nextRelease + Period[k]
        /\ job'[k].active /\ ~job'[k].started
    BY <2>3 DEF Released
  <2> QED
    BY <1>1, <1>2, <1>4, <2>1, <2>4 DEF StageAge, Stamp
<1> QED
  BY <1>2, <1>3, <1>4

\* What endTick does with the registers of a stage.
StageTick(k, granted, input, comp, out, comp2, out2) ==
  /\ comp2 = IF Activates(k, granted) THEN input ELSE comp
  /\ out2 = IF Finishes(k, granted) THEN comp2 ELSE out

\* One tick of a timely stage: the data it holds is bounded again, and so is the age of
\* what it has published.
LEMMA StageEnd ==
  ASSUME PublicationInv, Timely, Timely', NEW granted, EndTick(granted), NEW k \in Stages,
         NEW age \in Nat, NEW comp \in Stamp, NEW out \in Stamp, NEW input \in Stamp,
         NEW comp2, NEW out2, NEW total \in Nat, total = age + Refresh(k),
         StageAge(k, job[k], comp, out, age),
         AgeWithin(step, input, age),
         StageTick(k, granted, input, comp, out, comp2, out2)
  PROVE  /\ StageAge(k, job'[k], comp2, out2, age)
         /\ AgeWithin(step, out2, total)
         /\ AgeUntil(step, out, total)
<1> USE DEF StageTick
<1>1. /\ k \in TaskKind /\ Period[k] \in Nat /\ Response[k] \in Nat
      /\ 2 <= Response[k] /\ Response[k] <= Period[k]
  BY StageConstants
<1>2. /\ step \in Nat /\ step' = step + 1 /\ TypeOK
      /\ job[k].nextRelease \in Nat /\ job[k].active \in BOOLEAN
      /\ job[k].started \in BOOLEAN /\ job[k].execTicks \in Nat
      /\ step + 1 <= job[k].nextRelease
      /\ job[k].active => job[k].nextRelease <= step + Period[k]
      /\ job'[k] = Advance(k, granted)
  BY <1>1, JobFields DEF PublicationInv, TypeOK, EndTick, JobOnTime, Horizon
<1>3. job[k].active => step < job[k].nextRelease - Period[k] + Response[k]
  BY DEF Timely
<1>4. job'[k].active => step + 1 < job'[k].nextRelease - Period[k] + Response[k]
  BY <1>2 DEF Timely
<1>5. CASE ~Runs(k, granted)
  <2>1. /\ job'[k] = job[k] /\ comp2 = comp /\ out2 = out
    BY <1>2, <1>5 DEF Advance, Activates, Finishes
  <2> QED
    BY <1>1, <1>2, <1>3, <1>4, <2>1 DEF StageAge, AgeWithin, AgeUntil, Refresh, Stamp
<1>6. CASE Runs(k, granted)
  <2>1. /\ job[k].active
        /\ job'[k].nextRelease = job[k].nextRelease /\ job'[k].started
        /\ job'[k].active = ~Finishes(k, granted)
    BY <1>1, <1>2, <1>6, JobFields DEF Advance, Runs, Job
  <2>2. Activates(k, granted) => ~Finishes(k, granted)
    BY <1>1, NoFinishWithActivate DEF PublicationInv
  <2>3. CASE Activates(k, granted)
    <3>1. job'[k].active /\ comp2 = input /\ out2 = out
      BY <2>1, <2>2, <2>3
    <3> QED
      BY <1>1, <1>2, <1>3, <1>4, <2>1, <3>1 DEF StageAge, AgeWithin, AgeUntil, Refresh, Stamp
  <2>4. CASE ~Activates(k, granted)
    <3>1. job[k].started /\ comp2 = comp
      BY <1>6, <2>4 DEF Activates
    <3>2. CASE Finishes(k, granted)
      BY <1>1, <1>2, <1>3, <2>1, <3>1, <3>2 DEF StageAge, AgeWithin, AgeUntil, Refresh, Stamp
    <3>3. CASE ~Finishes(k, granted)
      <4>1. job'[k].active /\ out2 = out
        BY <2>1, <3>3
      <4> QED
        BY <1>1, <1>2, <1>3, <1>4, <2>1, <3>1, <4>1 DEF StageAge, AgeWithin, AgeUntil, Refresh, Stamp
    <3> QED
      BY <3>2, <3>3
  <2> QED
    BY <2>3, <2>4
<1> QED
  BY <1>5, <1>6

-----------------------------------------------------------------------------
(* One network *)

(* One tick of a network: at most one packet is delivered, the one in front; the others
   arrive later; and one more may be sent, which arrives before what was sent last is
   older than age. *)
Shifted(gone, n, arrive, stamp, arrive2, stamp2) ==
  \A i \in 1 .. n - gone : /\ arrive2[i] = arrive[i + gone]
                           /\ stamp2[i] = stamp[i + gone]
                           /\ arrive2[i] >= step + 1

Transmits(n, arrive, stamp, rec, out, n2, arrive2, stamp2, rec2, out2, age) ==
  \E gone \in {0, 1} :
    /\ gone <= n
    /\ rec2 = IF gone = 0 THEN rec ELSE stamp[1]
    /\ Shifted(gone, n, arrive, stamp, arrive2, stamp2)
    /\ \/ n2 = n - gone /\ out2 = out
       \/ /\ n2 = n - gone + 1
          /\ arrive2[n2] \in Nat /\ arrive2[n2] >= step + 1 /\ stamp2[n2] = out2
          /\ AgeUntil(arrive2[n2], out, age)

\* The arrival ticks and the stamps of n packets.
Columns(n, arrive, stamp) ==
  n \in Nat /\ arrive \in [1 .. n -> Nat] /\ stamp \in [1 .. n -> Stamp]

\* What a network delivers is within its age again.
LEMMA NetworkTick ==
  ASSUME step \in Nat,
         NEW n, NEW arrive, NEW stamp, Columns(n, arrive, stamp),
         NEW rec \in Stamp, NEW out \in Stamp, NEW age \in Nat,
         NEW n2, NEW arrive2, NEW stamp2, NEW rec2, NEW out2 \in Stamp,
         Refreshed(n, arrive, stamp, rec, out, age),
         Transmits(n, arrive, stamp, rec, out, n2, arrive2, stamp2, rec2, out2, age),
         AgeWithin(step, out2, age)
  PROVE  /\ Refreshed(n2, arrive2, stamp2, rec2, out2, age)
         /\ AgeWithin(step, rec2, age)
<1> USE DEF Columns
<1> DEFINE Before(i) == IF i = 1 THEN rec ELSE stamp[i - 1]
           Before2(i) == IF i = 1 THEN rec2 ELSE stamp2[i - 1]
           Sent(gone) == /\ n2 = n - gone + 1
                         /\ arrive2[n2] \in Nat /\ arrive2[n2] >= step + 1
                         /\ stamp2[n2] = out2
                         /\ AgeUntil(arrive2[n2], out, age)
<1>0. PICK gone \in {0, 1} :
        /\ gone <= n
        /\ rec2 = IF gone = 0 THEN rec ELSE stamp[1]
        /\ \A i \in 1 .. n - gone : /\ arrive2[i] = arrive[i + gone]
                                    /\ stamp2[i] = stamp[i + gone]
                                    /\ arrive2[i] >= step + 1
        /\ (n2 = n - gone /\ out2 = out) \/ Sent(gone)
  BY DEF Transmits, Shifted
<1>1. n2 \in Nat /\ rec2 \in Stamp
  BY <1>0
<1>2. \A i \in 1 .. n : AgeUntil(arrive[i], Before(i), age)
  BY DEF Refreshed
<1>3. \A i \in 1 .. n - gone : i + gone \in 1 .. n /\ Before2(i) = Before(i + gone)
  <2> SUFFICES ASSUME NEW i \in 1 .. n - gone
               PROVE  i + gone \in 1 .. n /\ Before2(i) = Before(i + gone)
    OBVIOUS
  <2>1. gone \in {0, 1} /\ gone <= n /\ n \in Nat /\ i + gone \in 1 .. n
    BY <1>0
  <2>2. CASE i = 1
    BY <1>0, <2>1, <2>2
  <2>3. CASE i > 1
    <3>1. i - 1 \in 1 .. n - gone /\ (i - 1) + gone = (i + gone) - 1 /\ i + gone # 1
      BY <2>1, <2>3
    <3>2. stamp2[i - 1] = stamp[(i + gone) - 1]
      BY <1>0, <3>1
    <3> QED
      BY <2>1, <2>3, <3>1, <3>2
  <2> QED
    BY <2>1, <2>2, <2>3
<1>4. \A i \in 1 .. n - gone : AgeUntil(arrive2[i], Before2(i), age)
  <2> SUFFICES ASSUME NEW i \in 1 .. n - gone PROVE AgeUntil(arrive2[i], Before2(i), age)
    OBVIOUS
  <2>1. arrive2[i] = arrive[i + gone]
    BY <1>0
  <2>2. i + gone \in 1 .. n /\ Before2(i) = Before(i + gone)
    BY <1>3
  <2>3. AgeUntil(arrive[i + gone], Before(i + gone), age)
    BY <1>2, <2>2
  <2> HIDE DEF Before, Before2
  <2> QED
    BY <2>1, <2>2, <2>3
<1>5. Sent(gone) => Before2(n2) = out
  <2> SUFFICES ASSUME Sent(gone) PROVE Before2(n2) = out
    OBVIOUS
  <2>1. n2 = n - gone + 1 /\ out = IF n = 0 THEN rec ELSE stamp[n]
    BY DEF Refreshed
  <2>2. CASE n = gone
    BY <1>0, <2>1, <2>2
  <2>3. CASE n # gone
    <3>1. n - gone \in 1 .. n - gone /\ (n - gone) + gone = n /\ n2 - 1 = n - gone
      BY <1>0, <2>1, <2>3
    <3>2. stamp2[n - gone] = stamp[n]
      BY <1>0, <3>1
    <3> QED
      BY <1>0, <2>1, <2>3, <3>1, <3>2
  <2> QED
    BY <2>2, <2>3
<1>6. \A i \in 1 .. n2 : AgeUntil(arrive2[i], Before2(i), age)
  <2>1. \A i \in 1 .. n2 : i \in 1 .. n - gone \/ (Sent(gone) /\ i = n2)
    BY <1>0
  <2>2. Sent(gone) => AgeUntil(arrive2[n2], Before2(n2), age)
    BY <1>5
  <2> HIDE DEF Before2, Sent
  <2> QED
    BY <1>4, <2>1, <2>2
<1>7. out2 = IF n2 = 0 THEN rec2 ELSE stamp2[n2]
  <2>1. CASE Sent(gone)
    BY <1>0, <2>1
  <2>2. CASE n2 = n - gone /\ out2 = out /\ n2 = 0
    BY <1>0, <2>2 DEF Refreshed
  <2>3. CASE n2 = n - gone /\ out2 = out /\ n2 # 0
    <3>1. n2 \in 1 .. n - gone /\ n2 + gone = n
      BY <1>0, <2>3
    <3>2. stamp2[n2] = stamp[n]
      BY <1>0, <3>1
    <3> QED
      BY <1>0, <2>3, <3>2 DEF Refreshed
  <2> QED
    BY <1>0, <2>1, <2>2, <2>3
<1>8. AgeWithin(step, rec2, age)
  <2>1. CASE n2 = 0
    BY <1>7, <2>1
  <2>2. CASE n2 # 0
    <3>1. 1 \in 1 .. n2 /\ AgeUntil(arrive2[1], rec2, age)
      BY <1>1, <1>6, <2>2
    <3>2. arrive2[1] \in Int /\ arrive2[1] >= step + 1
      BY <1>0, <1>1, <2>2
    <3> QED
      BY <1>1, <3>1, <3>2 DEF AgeWithin, AgeUntil, Stamp
  <2> QED
    BY <2>1, <2>2
<1> QED
  BY <1>6, <1>7, <1>8 DEF Refreshed

LEMMA TransmitsNothing ==
  ASSUME NEW n \in Nat, NEW arrive, NEW stamp, NEW rec, NEW out, NEW age,
         NEW n2, NEW arrive2, NEW stamp2, NEW rec2, NEW out2,
         NEW gone \in {0, 1}, gone <= n,
         rec2 = IF gone = 0 THEN rec ELSE stamp[1],
         Shifted(gone, n, arrive, stamp, arrive2, stamp2),
         n2 = n - gone, out2 = out
  PROVE  Transmits(n, arrive, stamp, rec, out, n2, arrive2, stamp2, rec2, out2, age)
BY DEF Transmits

LEMMA TransmitsSent ==
  ASSUME NEW n \in Nat, NEW arrive, NEW stamp, NEW rec, NEW out, NEW age,
         NEW n2, NEW arrive2, NEW stamp2, NEW rec2, NEW out2,
         NEW gone \in {0, 1}, gone <= n,
         rec2 = IF gone = 0 THEN rec ELSE stamp[1],
         Shifted(gone, n, arrive, stamp, arrive2, stamp2),
         n2 = n - gone + 1,
         arrive2[n2] \in Nat, arrive2[n2] >= step + 1, stamp2[n2] = out2,
         AgeUntil(arrive2[n2], out, age)
  PROVE  Transmits(n, arrive, stamp, rec, out, n2, arrive2, stamp2, rec2, out2, age)
BY DEF Transmits

LEMMA LooserAge ==
  ASSUME NEW now \in Int, NEW stamp \in Stamp, NEW age \in Nat, NEW age2 \in Nat,
         AgeWithin(now, stamp, age), age <= age2
  PROVE  AgeWithin(now, stamp, age2)
BY DEF AgeWithin, AgeUntil, Stamp

\* A tick of a network: the front packet leaves if it is due, and one with the stamp of
\* what has just been published may join.
DeliversAndSends(q, s, delay, rec, out, q2, rec2, out2) ==
  /\ rec2 = IF Due(q) = {} THEN rec ELSE s[q[FirstDue(q)]]
  /\ \/ q2 = InFlight(q) /\ out2 = out
     \/ \E packet \in Packet : /\ packet.arriveStep = step + delay /\ s[packet] = out2
                               /\ q2 = Append(InFlight(q), packet)

\* One tick of a queue in order: what waits age ticks before the send and delay ticks
\* in flight is received within the sum of both.
LEMMA QueueTick ==
  ASSUME step \in Nat, NEW q \in Seq(Packet), NEW lo, NEW hi, NEW end,
         InOrder(q, lo, hi, end), NoneOverdue(q),
         NEW s, StampOfPacket(s), NEW rec \in Stamp, NEW out \in Stamp,
         NEW age \in Nat, NEW delay \in Nat \ {0}, NEW total \in Nat, total = age + delay,
         Refreshed(Len(q), Arrivals(q), Stamps(q, s), rec, out, total),
         NEW rec2, NEW q2, NEW out2 \in Stamp,
         DeliversAndSends(q, s, delay, rec, out, q2, rec2, out2),
         AgeUntil(step, out, age), AgeWithin(step, out2, age)
  PROVE  /\ Refreshed(Len(q2), Arrivals(q2), Stamps(q2, s), rec2, out2, total)
         /\ AgeWithin(step, rec2, total)
<1> DEFINE n == Len(q)
<1>1. /\ n \in Nat /\ Gone(q) \in {0, 1} /\ Gone(q) <= n
      /\ Due(q) # {} => FirstDue(q) = 1
      /\ Len(InFlight(q)) = n - Gone(q)
      /\ MovesUp(q, InFlight(q))
  BY OnTimeDelivery
<1>2. /\ \A i \in 1 .. n : /\ Arrivals(q)[i] = q[i].arriveStep
                           /\ Stamps(q, s)[i] = s[q[i]]
      /\ Arrivals(q) \in [1 .. n -> Nat] /\ Stamps(q, s) \in [1 .. n -> Stamp]
  <2>1. \A i \in 1 .. n : q[i] \in Packet /\ q[i].arriveStep \in Nat
    BY PacketFields
  <2> QED
    BY <2>1 DEF Arrivals, Stamps, StampOfPacket
<1>3. rec2 = IF Gone(q) = 0 THEN rec ELSE Stamps(q, s)[1]
  <2>1. CASE Due(q) = {}
    BY <2>1 DEF Gone, DeliversAndSends
  <2>2. CASE Due(q) # {}
    <3>1. Gone(q) = 1 /\ 1 \in 1 .. n
      BY <1>1, <2>2 DEF Gone
    <3> QED
      BY <1>1, <1>2, <2>2, <3>1 DEF DeliversAndSends
  <2> QED
    BY <2>1, <2>2
<1>4. Transmits(n, Arrivals(q), Stamps(q, s), rec, out,
                Len(q2), Arrivals(q2), Stamps(q2, s), rec2, out2, total)
  <2>1. ASSUME NEW packet \in Packet,
               packet.arriveStep = step + delay, s[packet] = out2,
               q2 = Append(InFlight(q), packet)
        PROVE  Transmits(n, Arrivals(q), Stamps(q, s), rec, out,
                         Len(q2), Arrivals(q2), Stamps(q2, s), rec2, out2, total)
    <3>0. packet.arriveStep >= step + 1
      BY <2>1
    <3>1. /\ Len(q2) = n - Gone(q) + 1 /\ q2[Len(q2)] = packet
          /\ MovesUp(q, q2)
      BY <2>1, <3>0, DeliverAndSend
    <3>2. Len(q2) \in 1 .. Len(q2) /\ \A i \in 1 .. n - Gone(q) : i \in 1 .. Len(q2)
      BY <1>1, <3>1
    <3>3. /\ Arrivals(q2)[Len(q2)] = step + delay
          /\ Stamps(q2, s)[Len(q2)] = out2
          /\ Shifted(Gone(q), n, Arrivals(q), Stamps(q, s), Arrivals(q2), Stamps(q2, s))
      BY <1>2, <2>1, <3>1, <3>2 DEF Arrivals, Stamps, Shifted, MovesUp
    <3>4. AgeUntil(step + delay, out, total)
      BY DEF AgeWithin, AgeUntil, Stamp
    <3>5. /\ Arrivals(q2)[Len(q2)] \in Nat /\ Arrivals(q2)[Len(q2)] >= step + 1
          /\ AgeUntil(Arrivals(q2)[Len(q2)], out, total)
      BY <3>3, <3>4
    <3> QED
      BY <1>1, <1>2, <1>3, <3>1, <3>3, <3>5, TransmitsSent
  <2>2. ASSUME q2 = InFlight(q), out2 = out
        PROVE  Transmits(n, Arrivals(q), Stamps(q, s), rec, out,
                         Len(q2), Arrivals(q2), Stamps(q2, s), rec2, out2, total)
    <3>1. Shifted(Gone(q), n, Arrivals(q), Stamps(q, s), Arrivals(q2), Stamps(q2, s))
      BY <1>1, <1>2, <2>2 DEF Arrivals, Stamps, Shifted, MovesUp
    <3> QED
      BY <1>1, <1>2, <1>3, <2>2, <3>1, TransmitsNothing
  <2> QED
    BY <2>1, <2>2 DEF DeliversAndSends
<1>5. AgeWithin(step, out2, total)
  BY LooserAge
<1>6. Columns(n, Arrivals(q), Stamps(q, s))
  BY <1>1, <1>2 DEF Columns
<1> QED
  BY <1>4, <1>5, <1>6, NetworkTick

\* The sensor network: the received sample is at most ScAge old.
LEMMA SensorNetworkTick ==
  ASSUME ChainInv, NothingOverdue, ScRefreshed, NEW granted, EndTick(granted),
         AgeUntil(step, sensOut, SensorAge), AgeWithin(step, sensOut', SensorAge)
  PROVE  ScRefreshed' /\ AgeWithin(step, scRec', ScAge)
<1> DEFINE s == FreshOf
<1>0. PICK q, rec, out, q2, rec2, out2 :
        /\ q = scReceiveAt /\ rec = scRec /\ out = sensOut
        /\ q2 = scReceiveAt' /\ rec2 = scRec' /\ out2 = sensOut'
  OBVIOUS
<1>1. /\ step \in Nat /\ rec \in Stamp /\ out \in Stamp /\ out2 \in Stamp
      /\ SensorAge \in Nat /\ ScAge \in Nat /\ ScDelay \in Nat \ {0} /\ ScAge = SensorAge + ScDelay
  <2>1. TypeOK /\ TypeOK'
    BY EndTickType DEF ChainInv
  <2> QED
    BY <1>0, <2>1, AgesAreNaturals DEF TypeOK, ScAge
<1>2. PICK end : /\ q \in Seq(Packet) /\ InOrder(q, rec, out, end) /\ NoneOverdue(q)
  BY <1>0, QueuesInOrder DEF NothingOverdue
<1>3. StampOfPacket(s) /\ \A p \in Packet : s[p] = p.data.stamp
  BY DEF Packet, Lineage, FreshOf, StampOfPacket
<1>4. rec2 = IF Due(q) = {} THEN rec ELSE s[q[FirstDue(q)]]
  BY <1>0, <1>2, <1>3, FirstDueIsDue, DueInQueue, PacketFields DEF EndTick, ReceivePackets
<1>5. DeliversAndSends(q, s, ScDelay, rec, out, q2, rec2, out2)
  <2>1. CASE Finishes("Sensor", granted)
    <3>1. PICK packet \in Packet : /\ packet.arriveStep = step + ScDelay
                                   /\ packet.data.stamp = out2
                                   /\ q2 = Append(InFlight(q), packet)
      BY <1>0, <2>1, SentPackets, BoundAssumption
    <3> QED
      BY <1>3, <1>4, <3>1 DEF DeliversAndSends
  <2>2. CASE ~Finishes("Sensor", granted)
    BY <1>0, <1>4, <2>2, SentPackets DEF DeliversAndSends, EndTick, SensorStage
  <2> QED
    BY <2>1, <2>2
<1>6. Refreshed(Len(q), Arrivals(q), Stamps(q, s), rec, out, ScAge)
  BY <1>0, <1>1 DEF ScRefreshed
<1>7. AgeUntil(step, out, SensorAge) /\ AgeWithin(step, out2, SensorAge)
  BY <1>0
<1> HIDE DEF s
<1>8. /\ Refreshed(Len(q2), Arrivals(q2), Stamps(q2, s), rec2, out2, ScAge)
      /\ AgeWithin(step, rec2, ScAge)
  BY <1>1, <1>2, <1>3, <1>5, <1>6, <1>7, QueueTick
<1> QED
  BY <1>0, <1>1, <1>8 DEF ScRefreshed, s

\* The command network: the received command is at most CaAge old.
LEMMA CommandNetworkTick ==
  ASSUME ChainInv, NothingOverdue, CaRefreshed, NEW granted, EndTick(granted),
         AgeUntil(step, aggOut.stampOld, AggAge), AgeWithin(step, aggOut'.stampOld, AggAge)
  PROVE  CaRefreshed' /\ AgeWithin(step, caRec'.stampOld, CaAge)
<1> DEFINE s == OldOf
<1>0. PICK q, rec, out, q2, rec2, out2 :
        /\ q = caReceiveAt /\ rec = caRec.stampOld /\ out = aggOut.stampOld
        /\ q2 = caReceiveAt' /\ rec2 = caRec'.stampOld /\ out2 = aggOut'.stampOld
  OBVIOUS
<1>1. /\ step \in Nat /\ rec \in Stamp /\ out \in Stamp /\ out2 \in Stamp
      /\ AggAge \in Nat /\ CaAge \in Nat /\ CaDelay \in Nat \ {0} /\ CaAge = AggAge + CaDelay
  <2>1. TypeOK /\ TypeOK'
    BY EndTickType DEF ChainInv
  <2> QED
    BY <1>0, <2>1, AgesAreNaturals DEF TypeOK, Lineage, CaAge
<1>2. PICK end : /\ q \in Seq(Packet) /\ InOrder(q, caRec.stamp, aggOut.stamp, end) /\ NoneOverdue(q)
  BY <1>0, QueuesInOrder DEF NothingOverdue
<1>3. StampOfPacket(s) /\ \A p \in Packet : s[p] = p.data.stampOld
  BY DEF Packet, Lineage, OldOf, StampOfPacket
<1>4. rec2 = IF Due(q) = {} THEN rec ELSE s[q[FirstDue(q)]]
  BY <1>0, <1>2, <1>3, FirstDueIsDue, DueInQueue, PacketFields DEF EndTick, ReceivePackets
<1>5. DeliversAndSends(q, s, CaDelay, rec, out, q2, rec2, out2)
  <2>1. CASE Finishes("Merger", granted)
    <3>1. PICK packet \in Packet : /\ packet.arriveStep = step + CaDelay
                                   /\ packet.data.stampOld = out2
                                   /\ q2 = Append(InFlight(q), packet)
      BY <1>0, <1>1, <2>1, SentPackets, BoundAssumption, BoundFixesDelays DEF ChainInv
    <3> QED
      BY <1>3, <1>4, <3>1 DEF DeliversAndSends
  <2>2. CASE ~Finishes("Merger", granted)
    BY <1>0, <1>4, <2>2, SentPackets DEF DeliversAndSends, EndTick, MergerStage
  <2> QED
    BY <2>1, <2>2
<1>6. Refreshed(Len(q), Arrivals(q), Stamps(q, s), rec, out, CaAge)
  BY <1>0, <1>1 DEF CaRefreshed
<1>7. AgeUntil(step, out, AggAge) /\ AgeWithin(step, out2, AggAge)
  BY <1>0
<1> HIDE DEF s
<1>8. /\ Refreshed(Len(q2), Arrivals(q2), Stamps(q2, s), rec2, out2, CaAge)
      /\ AgeWithin(step, rec2, CaAge)
  BY <1>1, <1>2, <1>3, <1>5, <1>6, <1>7, QueueTick
<1> QED
  BY <1>0, <1>1, <1>8 DEF CaRefreshed, s

-----------------------------------------------------------------------------
(* The chain *)

LEMMA AgeTypes ==
  ASSUME ChainInv
  PROVE  /\ step \in Nat
         /\ sensComp \in Stamp /\ sensOut \in Stamp /\ scRec \in Stamp
         /\ estComp \in Stamp /\ estOut \in Stamp /\ fbComp \in Stamp /\ fbOut \in Stamp
         /\ aggComp.stampOld \in Stamp /\ aggOut.stampOld \in Stamp
         /\ caRec.stampOld \in Stamp /\ actIn.stampOld \in Stamp
         /\ actOut.stampOld \in Stamp /\ maxAge.stampOld \in Stamp
BY DEF ChainInv, TypeOK, Lineage

LEMMA AgeTypesNext ==
  ASSUME ChainInv, NEW granted, EndTick(granted)
  PROVE  /\ sensComp' \in Stamp /\ sensOut' \in Stamp /\ scRec' \in Stamp
         /\ estComp' \in Stamp /\ estOut' \in Stamp /\ fbComp' \in Stamp /\ fbOut' \in Stamp
         /\ aggComp'.stampOld \in Stamp /\ aggOut'.stampOld \in Stamp
         /\ caRec'.stampOld \in Stamp /\ actIn'.stampOld \in Stamp
         /\ actOut'.stampOld \in Stamp
<1>1. TypeOK'
  BY EndTickType DEF ChainInv
<1> QED
  BY <1>1 DEF TypeOK, Lineage

LEMMA AgeInit == Init => AgeInv
<1> SUFFICES ASSUME Init PROVE AgeInv
  OBVIOUS
<1>1. \A k \in Stages : ~job[k].active
  BY DEF Init, Stages
<1>2. {"Sensor", "Estimator", "Controller", "Merger", "Actuator"} \subseteq Stages
  BY DEF Stages, TaskKind
<1>3. StagesRefreshed
  BY <1>1, <1>2 DEF Init, StagesRefreshed, StageAge, NoLineage
<1>4. ScRefreshed /\ CaRefreshed
  <2>1. Len(scReceiveAt) = 0 /\ Len(caReceiveAt) = 0
    BY EmptySeq DEF Init
  <2> QED
    BY <2>1 DEF Init, NoLineage, ScRefreshed, CaRefreshed, Refreshed
<1>5. maxAge.stampOld <= TickBound
  BY TickBoundIsActAge, AgesAreNaturals DEF Init, NoLineage
<1> QED
  BY <1>1, <1>3, <1>4, <1>5 DEF AgeInv, Timely

LEMMA AgeBegin ==
  ASSUME PublicationInv, ChainInv, AgeInv, BeginTick
  PROVE  AgeInv'
<1>1. Timely'
  BY StageBegin DEF AgeInv, Timely
<1>2. UNCHANGED <<step, scVars, estVars, bVars, aggVars, caVars, actVars>>
  BY DEF BeginTick
<1>3. StagesRefreshed'
  <2>1. {"Sensor", "Estimator", "Controller", "Merger", "Actuator"} \subseteq Stages
    BY DEF Stages, TaskKind
  <2>2. /\ StageAge("Sensor", job'["Sensor"], sensComp, sensOut, 0)
        /\ StageAge("Estimator", job'["Estimator"], estComp, estOut, ScAge)
        /\ StageAge("Controller", job'["Controller"], fbComp, fbOut, EstAge)
        /\ StageAge("Merger", job'["Merger"], aggComp.stampOld, aggOut.stampOld, FbAge)
        /\ StageAge("Actuator", job'["Actuator"], actIn.stampOld, actOut.stampOld, CaAge)
    BY <2>1, StageBegin, AgesAreNaturals, AgeTypes DEF AgeInv, StagesRefreshed
  <2> QED
    BY <1>2, <2>2 DEF StagesRefreshed, scVars, estVars, bVars, aggVars, actVars
<1>4. ScRefreshed' /\ CaRefreshed'
  BY <1>2 DEF AgeInv, ScRefreshed, CaRefreshed, scVars, aggVars, caVars
<1>5. (maxAge.stampOld <= TickBound)'
  BY <1>2 DEF AgeInv, actVars
<1> QED
  BY <1>1, <1>3, <1>4, <1>5 DEF AgeInv

\* The sensor publishes samples at most SensorAge old.
LEMMA SensorAges ==
  ASSUME PublicationInv, ChainInv, AgeInv, NEW granted, EndTick(granted), Timely'
  PROVE  /\ StageAge("Sensor", job'["Sensor"], sensComp', sensOut', 0)
         /\ AgeWithin(step, sensOut', SensorAge) /\ AgeUntil(step, sensOut, SensorAge)
<1>0. PICK comp, out, comp2, out2 :
        comp = sensComp /\ out = sensOut /\ comp2 = sensComp' /\ out2 = sensOut'
  OBVIOUS
<1>1. /\ "Sensor" \in Stages /\ comp \in Stamp /\ out \in Stamp /\ step \in Stamp
      /\ 0 \in Nat /\ SensorAge \in Nat /\ SensorAge = 0 + Refresh("Sensor")
      /\ Refresh("Sensor") \in Nat
  <2>1. "Sensor" \in Stages
    BY DEF Stages, TaskKind
  <2> QED
    BY <1>0, <2>1, AgeTypes, AgesAreNaturals, StageConstants DEF Stamp, SensorAge
<1>2. StageTick("Sensor", granted, step, comp, out, comp2, out2)
  BY <1>0 DEF StageTick, EndTick, SensorStage
<1>3. StageAge("Sensor", job["Sensor"], comp, out, 0) /\ AgeWithin(step, step, 0) /\ Timely
  BY <1>0, AgeTypes DEF AgeInv, StagesRefreshed, AgeWithin
<1>4. /\ StageAge("Sensor", job'["Sensor"], comp2, out2, 0)
      /\ AgeWithin(step, out2, SensorAge) /\ AgeUntil(step, out, SensorAge)
  BY <1>1, <1>2, <1>3, StageEnd
<1> QED
  BY <1>0, <1>4

\* The estimator's estimates are at most EstAge old.
LEMMA EstimatorAges ==
  ASSUME PublicationInv, ChainInv, AgeInv, NEW granted, EndTick(granted), Timely',
         AgeWithin(step, scRec', ScAge)
  PROVE  /\ StageAge("Estimator", job'["Estimator"], estComp', estOut', ScAge)
         /\ AgeWithin(step, estOut', EstAge)
<1>0. PICK comp, out, input, comp2, out2 :
        /\ comp = estComp /\ out = estOut /\ input = scRec'
        /\ comp2 = estComp' /\ out2 = estOut'
  OBVIOUS
<1>1. /\ "Estimator" \in Stages /\ comp \in Stamp /\ out \in Stamp /\ input \in Stamp
      /\ ScAge \in Nat /\ EstAge \in Nat /\ EstAge = ScAge + Refresh("Estimator")
  <2>1. "Estimator" \in Stages
    BY DEF Stages, TaskKind
  <2> QED
    BY <1>0, <2>1, AgeTypes, AgeTypesNext, AgesAreNaturals DEF EstAge
<1>2. StageTick("Estimator", granted, input, comp, out, comp2, out2)
  BY <1>0 DEF StageTick, EndTick, EstimatorStage
<1>3. /\ StageAge("Estimator", job["Estimator"], comp, out, ScAge)
      /\ AgeWithin(step, input, ScAge) /\ Timely
  BY <1>0 DEF AgeInv, StagesRefreshed
<1>4. /\ StageAge("Estimator", job'["Estimator"], comp2, out2, ScAge)
      /\ AgeWithin(step, out2, EstAge)
  BY <1>1, <1>2, <1>3, StageEnd
<1> QED
  BY <1>0, <1>4

\* The controller's outputs are at most FbAge old: no zone holds its publications.
LEMMA ControllerAges ==
  ASSUME PublicationInv, ChainInv, AgeInv, NEW granted, EndTick(granted), Timely',
         AgeWithin(step, estOut', EstAge)
  PROVE  /\ StageAge("Controller", job'["Controller"], fbComp', fbOut', EstAge)
         /\ AgeWithin(step, fbOut', FbAge)
<1>0. PICK comp, out, input, comp2, out2 :
        /\ comp = fbComp /\ out = fbOut /\ input = estOut'
        /\ comp2 = fbComp' /\ out2 = fbOut'
  OBVIOUS
<1>1. /\ "Controller" \in Stages /\ comp \in Stamp /\ out \in Stamp /\ input \in Stamp
      /\ EstAge \in Nat /\ FbAge \in Nat /\ FbAge = EstAge + Refresh("Controller")
  <2>1. "Controller" \in Stages
    BY DEF Stages, TaskKind
  <2> QED
    BY <1>0, <2>1, AgeTypes, AgeTypesNext, AgesAreNaturals DEF FbAge
<1>2. StageTick("Controller", granted, input, comp, out, comp2, out2)
  <2>1. ~BSuppressed
    BY BoundFixesDelays DEF ChainInv, BSuppressed
  <2> QED
    BY <1>0, <2>1 DEF StageTick, EndTick, ControllerStage, BPublishes
<1>3. /\ StageAge("Controller", job["Controller"], comp, out, EstAge)
      /\ AgeWithin(step, input, EstAge) /\ Timely
  BY <1>0 DEF AgeInv, StagesRefreshed
<1>4. /\ StageAge("Controller", job'["Controller"], comp2, out2, EstAge)
      /\ AgeWithin(step, out2, FbAge)
  BY <1>1, <1>2, <1>3, StageEnd
<1> QED
  BY <1>0, <1>4

\* The merged command is at most AggAge old on the longer of its two paths.
LEMMA MergerAges ==
  ASSUME PublicationInv, ChainInv, AgeInv, NEW granted, EndTick(granted), Timely',
         AgeWithin(step, estOut', EstAge), AgeWithin(step, fbOut', FbAge)
  PROVE  /\ StageAge("Merger", job'["Merger"], aggComp'.stampOld, aggOut'.stampOld, FbAge)
         /\ AgeWithin(step, aggOut'.stampOld, AggAge)
         /\ AgeUntil(step, aggOut.stampOld, AggAge)
<1>0. PICK comp, out, input, comp2, out2 :
        /\ comp = aggComp.stampOld /\ out = aggOut.stampOld
        /\ input = OldestValid(fbOut', estOut')
        /\ comp2 = aggComp'.stampOld /\ out2 = aggOut'.stampOld
  OBVIOUS
<1>1. /\ "Merger" \in Stages /\ comp \in Stamp /\ out \in Stamp /\ input \in Stamp
      /\ FbAge \in Nat /\ AggAge \in Nat /\ AggAge = FbAge + Refresh("Merger")
  <2>1. "Merger" \in Stages
    BY DEF Stages, TaskKind
  <2>2. OldestValid(fbOut', estOut') \in Stamp
    BY AgeTypesNext DEF OldestValid
  <2> QED
    BY <1>0, <2>1, <2>2, AgeTypes, AgesAreNaturals DEF AggAge
<1>2. StageTick("Merger", granted, input, comp, out, comp2, out2)
  BY <1>0 DEF StageTick, EndTick, MergerStage
<1>3. AgeWithin(step, input, FbAge)
  <2>1. EstAge <= FbAge
    <3>1. "Controller" \in Stages
      BY DEF Stages, TaskKind
    <3> QED
      BY <3>1, AgesAreNaturals, StageConstants DEF FbAge
  <2>2. AgeWithin(step, estOut', FbAge)
    BY <2>1, AgeTypes, AgeTypesNext, AgesAreNaturals DEF AgeWithin, Stamp
  <2>3. input = fbOut' \/ input = estOut'
    BY <1>0 DEF OldestValid
  <2> QED
    BY <2>2, <2>3
<1>4. StageAge("Merger", job["Merger"], comp, out, FbAge) /\ Timely
  BY <1>0 DEF AgeInv, StagesRefreshed
<1>5. /\ StageAge("Merger", job'["Merger"], comp2, out2, FbAge)
      /\ AgeWithin(step, out2, AggAge) /\ AgeUntil(step, out, AggAge)
  BY <1>1, <1>2, <1>3, <1>4, StageEnd
<1> QED
  BY <1>0, <1>5

\* The applied command is at most ActAge old.
LEMMA ActuatorAges ==
  ASSUME PublicationInv, ChainInv, AgeInv, NEW granted, EndTick(granted), Timely',
         AgeWithin(step, caRec'.stampOld, CaAge)
  PROVE  /\ StageAge("Actuator", job'["Actuator"], actIn'.stampOld, actOut'.stampOld, CaAge)
         /\ AgeWithin(step, actOut'.stampOld, ActAge)
<1>0. PICK comp, out, input, comp2, out2 :
        /\ comp = actIn.stampOld /\ out = actOut.stampOld /\ input = caRec'.stampOld
        /\ comp2 = actIn'.stampOld /\ out2 = actOut'.stampOld
  OBVIOUS
<1>1. /\ "Actuator" \in Stages /\ comp \in Stamp /\ out \in Stamp /\ input \in Stamp
      /\ CaAge \in Nat /\ ActAge \in Nat /\ ActAge = CaAge + Refresh("Actuator")
  <2>1. "Actuator" \in Stages
    BY DEF Stages, TaskKind
  <2> QED
    BY <1>0, <2>1, AgeTypes, AgeTypesNext, AgesAreNaturals DEF ActAge
<1>2. StageTick("Actuator", granted, input, comp, out, comp2, out2)
  BY <1>0 DEF StageTick, EndTick, ActuatorStage
<1>3. /\ StageAge("Actuator", job["Actuator"], comp, out, CaAge)
      /\ AgeWithin(step, input, CaAge) /\ Timely
  BY <1>0 DEF AgeInv, StagesRefreshed
<1>4. /\ StageAge("Actuator", job'["Actuator"], comp2, out2, CaAge)
      /\ AgeWithin(step, out2, ActAge)
  BY <1>1, <1>2, <1>3, StageEnd
<1> QED
  BY <1>0, <1>4

\* Down the chain: each register is as fresh as the one before it and its own stage allow.
LEMMA AgeEnd ==
  ASSUME PublicationInv, ChainInv, NothingOverdue, AgeInv,
         NEW granted, EndTick(granted), Timely'
  PROVE  AgeInv'
<1>1. /\ StageAge("Sensor", job'["Sensor"], sensComp', sensOut', 0)
      /\ AgeWithin(step, sensOut', SensorAge) /\ AgeUntil(step, sensOut, SensorAge)
  BY SensorAges
<1>2. ScRefreshed' /\ AgeWithin(step, scRec', ScAge)
  BY <1>1, SensorNetworkTick DEF AgeInv
<1>3. /\ StageAge("Estimator", job'["Estimator"], estComp', estOut', ScAge)
      /\ AgeWithin(step, estOut', EstAge)
  BY <1>2, EstimatorAges
<1>4. /\ StageAge("Controller", job'["Controller"], fbComp', fbOut', EstAge)
      /\ AgeWithin(step, fbOut', FbAge)
  BY <1>3, ControllerAges
<1>5. /\ StageAge("Merger", job'["Merger"], aggComp'.stampOld, aggOut'.stampOld, FbAge)
      /\ AgeWithin(step, aggOut'.stampOld, AggAge)
      /\ AgeUntil(step, aggOut.stampOld, AggAge)
  BY <1>3, <1>4, MergerAges
<1>6. CaRefreshed' /\ AgeWithin(step, caRec'.stampOld, CaAge)
  BY <1>5, CommandNetworkTick DEF AgeInv
<1>7. /\ StageAge("Actuator", job'["Actuator"], actIn'.stampOld, actOut'.stampOld, CaAge)
      /\ AgeWithin(step, actOut'.stampOld, ActAge)
  BY <1>6, ActuatorAges
<1>8. maxAge'.stampOld <= TickBound
  <2>1. maxAge'.stampOld = AgeAt(actOut'.stampOld, maxAge.stampOld)
    BY DEF EndTick, ActuatorStage
  <2>2. maxAge.stampOld <= ActAge
    BY TickBoundIsActAge DEF AgeInv
  <2>3. /\ step \in Nat /\ maxAge.stampOld \in Stamp /\ actOut'.stampOld \in Stamp
        /\ ActAge \in Nat
    BY AgeTypes, AgeTypesNext, AgesAreNaturals
  <2> QED
    BY <1>7, <2>1, <2>2, <2>3, TickBoundIsActAge DEF AgeAt, Later, AgeWithin, Stamp
<1>9. StagesRefreshed'
  BY <1>1, <1>3, <1>4, <1>5, <1>7 DEF StagesRefreshed
<1> QED
  BY <1>2, <1>6, <1>8, <1>9 DEF AgeInv

-----------------------------------------------------------------------------
(* Theorem *)

\* Under P1 (every chain job completes within its response-time bound, itself at most the
\* period), fixed execution and network times and no zone demands, the path age of the
\* applied command, hold time included, never exceeds the tick-exact bound, and that lies
\* at least ten ticks below the published one: for every task set, whatever the schedule.
THEOREM AgeBounded == TimelySpec => []AgeWithinBound
<1>1. TimelySpec => Spec
  <2>1. [TimelyNext]_vars => [Next]_vars
    BY DEF TimelyNext
  <2> QED
    BY <2>1, PTL DEF TimelySpec, Spec
<1>2. Spec => []PublicationInv
  BY PublicationInvariant
<1>3. Spec => [](ChainInv /\ NothingOverdue)
  BY BoundFixesDelays, OverdueInvariant
<1>4. AgeInv /\ PublicationInv /\ ChainInv /\ NothingOverdue /\ [TimelyNext]_vars => AgeInv'
  <2> SUFFICES ASSUME AgeInv, PublicationInv, ChainInv, NothingOverdue, [TimelyNext]_vars
               PROVE  AgeInv'
    OBVIOUS
  <2>1. CASE BeginTick
    BY <2>1, AgeBegin
  <2>2. ASSUME NEW granted \in Grants, EndTick(granted), TimelyNext PROVE AgeInv'
    <3>1. Timely'
      BY <2>2 DEF TimelyNext, EndTick
    <3> QED
      BY <2>2, <3>1, AgeEnd
  <2>3. CASE UNCHANGED vars
    BY <2>3 DEF vars, jobVars, scVars, estVars, bVars, aggVars, caVars, actVars, AgeInv,
       Timely, StagesRefreshed, ScRefreshed, CaRefreshed
  <2> QED
    BY <2>1, <2>2, <2>3 DEF TimelyNext, Next
<1>5. AgeInv => AgeWithinBound
  BY PublishedIsLooser DEF AgeInv, AgeWithinBound
<1> QED
  BY <1>1, <1>2, <1>3, <1>4, <1>5, AgeInit, PTL DEF TimelySpec
=============================================================================
