---------------------------- MODULE PlantProofs -----------------------------
(***************************************************************************)
(* The chain model's stamps against the data of the plants it drives.      *)
(* Every Feedforward value is as stale as the model says, whatever is      *)
(* killed, suppressed or delayed.  With fixed delays and buffers that can  *)
(* take what the delays keep in flight, no packet is dropped, every stamp  *)
(* is that of the data the FMU holds, and the cart-pole's routing carries  *)
(* the same data as the FMU's.                                             *)
(***************************************************************************)
EXTENDS ChainPlant, TaskChainProofs

-----------------------------------------------------------------------------
(* How many packets are in flight: each comes from a job of its own, and a   *)
(* job ends before the next one of its kind is released.                     *)

\* The packets that jobs like j send, every period ticks and each delay ticks in flight:
\* the ones behind a packet come from as many later jobs.
Span(jobs, period) == jobs * period

Ahead(j, period) == IF j.active THEN period ELSE 0

Spaced(q, j, period, delay, now) ==
  /\ \A i \in 1 .. Len(q) :
       q[i].arriveStep + Span(Len(q) - i, period) + Ahead(j, period) < j.nextRelease + delay
  /\ Len(q) >= 1 /\ ~j.active => j.nextRelease < now + period

ScSpaced == \A d \in ScDelays : Spaced(scReceiveAt, job["Sensor"], Period["Sensor"], d, step)

CaSpaced ==
  \A d \in CaDelays : \A v \in Views :
    Spaced(caReceiveAt, job["Merger"], Period["Merger"], d + v.extraNetDelay, step)

\* What is in flight for at most as long as the buffer has slots to spare fits it: the
\* code has 100 slots, periods of 50 and 200 ticks and delays of at most 160.
BuffersSuffice ==
  /\ \A d \in ScDelays : d <= (NetworkBuffer - 2) * Period["Sensor"] + 1
  /\ \A d \in CaDelays : \A v \in Views :
       d + v.extraNetDelay <= (NetworkBuffer - 2) * Period["Merger"] + 1

-----------------------------------------------------------------------------
(* What a plant is, and what the FMU holds when nothing is lost              *)

Data == [fb : Stamp, est : Stamp, ff : Stamp]

Plant == [sensComp : Stamp, sensOut : Stamp, scBuffer : Seq(Stamp), scRec : Stamp,
          estComp : Stamp, estOut : Stamp, fbComp : Stamp, fbOut : Stamp,
          ffComp : Stamp, ffOut : Stamp, aggComp : Data, aggOut : Data,
          caBuffer : Seq(Data), caRec : Data, actIn : Data, actOut : Data]

\* A buffer holds the packets of a queue, seen through v and w.
Carries(b, q, v, w) == Len(b) = Len(q) /\ \A i \in 1 .. Len(q) : v[b[i]] = w[q[i]]

SampleOf == [x \in Stamp |-> x]
SampleSent == [p \in Packet |-> p.data.stamp]
CommandOf == [c \in Data |-> LineageOf(c)]
CommandSent == [p \in Packet |-> p.data]

FfShadow ==
  /\ fmu \in Plant
  /\ ffCurAct = fmu.ffComp
  /\ ffPubAct = fmu.ffOut

FmuShadow ==
  /\ sensComp = fmu.sensComp
  /\ aggComp = LineageOf(fmu.aggComp) /\ actIn = LineageOf(fmu.actIn)
  /\ Carries(fmu.scBuffer, scReceiveAt, SampleOf, SampleSent)
  /\ Carries(fmu.caBuffer, caReceiveAt, CommandOf, CommandSent)
  /\ StampsShadowFmu

PlantInv == FfShadow /\ FmuShadow /\ RoutingsAgree

-----------------------------------------------------------------------------
(* Packets in flight *)

LEMMA Spans ==
  ASSUME NEW period \in Nat, NEW jobs \in Nat
  PROVE  /\ Span(jobs, period) \in Nat
         /\ Span(jobs + 1, period) = Span(jobs, period) + period
         /\ \A more \in Nat : jobs <= more => Span(jobs, period) <= Span(more, period)
<1>1. Span(jobs, period) \in Nat /\ Span(jobs + 1, period) = Span(jobs, period) + period
  BY DEF Span
<1>2. ASSUME NEW more \in Nat, jobs <= more PROVE Span(jobs, period) <= Span(more, period)
  <2>1. (more - jobs) * period >= 0
    BY <1>2
  <2>2. (more - jobs) * period = more * period - jobs * period
    BY <1>2
  <2>3. more * period \in Int /\ jobs * period \in Int
    OBVIOUS
  <2> QED
    BY <2>1, <2>2, <2>3 DEF Span
<1> QED
  BY <1>1, <1>2

\* A release makes the packets no less spaced.
LEMMA SpacedBegin ==
  ASSUME PublicationInv, BeginTick, NEW k \in TaskKind, NEW q \in Seq(Packet),
         NEW delay \in Nat, Spaced(q, job[k], Period[k], delay, step)
  PROVE  Spaced(q, job'[k], Period[k], delay, step)
<1> DEFINE P == Period[k]
<1>0. P \in Nat /\ Len(q) \in Nat
  BY TaskSetAssumption, LenProperties
<1>1. /\ P \in Nat /\ Len(q) \in Nat /\ step \in Nat
      /\ job[k].nextRelease \in Nat /\ job[k].active \in BOOLEAN
      /\ \A i \in 1 .. Len(q) : q[i].arriveStep \in Nat
  BY TaskSetAssumption, JobFields, LenProperties, PacketFields DEF PublicationInv, TypeOK
<1>2. PICK exec \in Samples :
        job' = [kind \in TaskKind |-> ReleaseIfDue(kind, exec[kind], view'.zoneFlagged)]
  BY DEF BeginTick
<1>3. job'[k] = ReleaseIfDue(k, exec[k], view'.zoneFlagged)
  BY <1>2
<1>4. job'[k] = job[k] \/ (job'[k].active /\ job'[k].nextRelease = job[k].nextRelease + P)
  <2>1. CASE step < job[k].nextRelease
    BY <2>1, ReleaseOnTime
  <2>2. CASE ~(step < job[k].nextRelease) /\ Overruns(k) /\ Overrun = "SkipNext"
    <3>1. job'[k] = [job[k] EXCEPT !.nextRelease = @ + P]
      BY <1>3, <2>2 DEF ReleaseIfDue
    <3>2. job[k] \in Job /\ job[k].active
      BY <2>2 DEF Overruns, PublicationInv, TypeOK
    <3> QED
      BY <3>1, <3>2 DEF Job
  <2>3. CASE ~(step < job[k].nextRelease) /\ ~(Overruns(k) /\ Overrun = "SkipNext")
    <3>1. job'[k] = Released(k, exec[k], view'.zoneFlagged)
      BY <1>3, <2>3 DEF ReleaseIfDue
    <3> QED
      BY <3>1 DEF Released
  <2> QED
    BY <2>1, <2>2, <2>3
<1>5. ASSUME job'[k].active, job'[k].nextRelease = job[k].nextRelease + P
      PROVE  Spaced(q, job'[k], P, delay, step)
  <2> SUFFICES ASSUME NEW i \in 1 .. Len(q)
               PROVE  q[i].arriveStep + Span(Len(q) - i, P) + Ahead(job'[k], P)
                        < job'[k].nextRelease + delay
    BY <1>5 DEF Spaced
  <2>1. q[i].arriveStep + Span(Len(q) - i, P) + Ahead(job[k], P) < job[k].nextRelease + delay
    BY DEF Spaced
  <2>2. PICK m \in Nat : m = Len(q) - i
    BY <1>0
  <2>3. PICK behind \in Nat : behind = Span(m, P)
    BY <1>1, Spans
  <2>4. Ahead(job'[k], P) = P /\ Ahead(job[k], P) \in Nat
    BY <1>1, <1>5 DEF Ahead
  <2>5. PICK arrive, ahead, nr \in Nat :
          /\ arrive = q[i].arriveStep /\ nr = job[k].nextRelease
          /\ ahead = Ahead(job[k], P)
    BY <1>1, <2>4
  <2>6. arrive + behind + ahead < nr + delay
    BY <2>1, <2>2, <2>3, <2>5
  <2>7. arrive + behind + P < nr + P + delay
    BY <1>0, <2>6
  <2> QED
    BY <1>5, <2>2, <2>3, <2>4, <2>5, <2>7
<1> QED
  BY <1>4, <1>5

\* Neither does a tick: what is sent comes from the job that has just ended.
LEMMA SpacedEnd ==
  ASSUME PublicationInv, NEW granted, EndTick(granted), NEW k \in TaskKind,
         NEW q \in Seq(Packet), NEW delay \in Nat,
         Spaced(q, job[k], Period[k], delay, step), Gone(q) <= Len(q),
         NEW q2, MovesUp(q, q2),
         \/ Len(q2) = Len(q) - Gone(q)
         \/ /\ Finishes(k, granted)
            /\ Len(q2) = Len(q) - Gone(q) + 1 /\ q2[Len(q2)].arriveStep = step + delay
  PROVE  Spaced(q2, job'[k], Period[k], delay, step + 1)
<1> DEFINE P == Period[k]
           G == Gone(q)
           n == Len(q)
<1>0. P \in Nat /\ n \in Nat /\ G \in {0, 1} /\ step \in Nat
  BY TaskSetAssumption, LenProperties DEF Gone, PublicationInv, TypeOK
<1>1. /\ step \in Nat /\ P \in Nat /\ n \in Nat /\ G \in {0, 1}
      /\ job[k].nextRelease \in Nat /\ job[k].active \in BOOLEAN
      /\ job'[k].active \in BOOLEAN
      /\ \A i \in 1 .. n : q[i].arriveStep \in Nat
  <2>1. TypeOK'
    BY EndTickType DEF PublicationInv
  <2> QED
    BY <2>1, TaskSetAssumption, JobFields, LenProperties, PacketFields
    DEF PublicationInv, TypeOK, Gone, Job
<1>2. /\ step + 1 <= job[k].nextRelease
      /\ job[k].active => job[k].nextRelease <= step + P
  BY <1>1 DEF PublicationInv, JobOnTime, Horizon, EndTick
<1>3. /\ job'[k].nextRelease = job[k].nextRelease
      /\ job'[k].active => job[k].active
      /\ Finishes(k, granted) => job[k].active /\ ~job'[k].active
  BY AdvanceOnTime DEF Finishes, Runs
<1>4. \A i \in 1 .. n : q[i].arriveStep + Span(n - i, P) + Ahead(job[k], P)
                           < job[k].nextRelease + delay
  BY DEF Spaced
<1>5. \A i \in 1 .. n - G : i + G \in 1 .. n /\ q2[i] = q[i + G]
  BY DEF MovesUp
<1>6. /\ Ahead(job[k], P) \in Nat /\ Ahead(job'[k], P) \in Nat
      /\ Ahead(job'[k], P) <= Ahead(job[k], P)
      /\ Finishes(k, granted) => Ahead(job[k], P) = P /\ Ahead(job'[k], P) = 0
  BY <1>1, <1>3 DEF Ahead
\* What the packet in place i has behind it in q, where it was in place i + G.
<1>7. ASSUME NEW i \in 1 .. n - G
      PROVE  \E behind \in Nat :
               /\ behind = Span(n - G - i, P) /\ behind + P = Span(n - G + 1 - i, P)
               /\ q2[i].arriveStep \in Nat
               /\ q2[i].arriveStep + behind + Ahead(job[k], P) < job[k].nextRelease + delay
  <2>1. PICK m \in Nat : /\ m = n - (i + G) /\ m = n - G - i /\ m + 1 = n - G + 1 - i
    <3> HIDE DEF n, G
    <3>1. /\ n - (i + G) \in Nat /\ n - (i + G) = n - G - i
          /\ n - (i + G) + 1 = n - G + 1 - i
      BY <1>0
    <3> QED
      BY <3>1
  <2>2. Span(m, P) \in Nat /\ Span(m + 1, P) = Span(m, P) + P
    BY <1>1, Spans
  <2>3. /\ i + G \in 1 .. n /\ q2[i] = q[i + G]
        /\ q[i + G].arriveStep + Span(n - (i + G), P) + Ahead(job[k], P)
             < job[k].nextRelease + delay
    BY <1>4, <1>5
  <2> QED
    BY <1>1, <2>1, <2>2, <2>3
<1>8. ~job'[k].active /\ Len(q2) >= 1 => job'[k].nextRelease < step + 1 + P
  <2>1. CASE job[k].active
    BY <1>1, <1>2, <1>3, <2>1
  <2>2. CASE ~job[k].active
    <3>1. ~Finishes(k, granted)
      BY <1>3, <2>2
    <3>2. Len(q2) >= 1 => n >= 1
      BY <1>1, <3>1
    <3>3. n >= 1 => job[k].nextRelease < step + P
      BY <2>2 DEF Spaced
    <3> QED
      BY <1>1, <1>3, <3>2, <3>3
  <2> QED
    BY <2>1, <2>2
<1>9. CASE Len(q2) = n - G
  <2>1. ASSUME NEW i \in 1 .. Len(q2)
        PROVE  q2[i].arriveStep + Span(Len(q2) - i, P) + Ahead(job'[k], P)
                 < job'[k].nextRelease + delay
    <3>1. i \in 1 .. n - G /\ Len(q2) - i = n - G - i
      BY <1>9
    <3>2. PICK behind \in Nat :
            /\ behind = Span(Len(q2) - i, P) /\ q2[i].arriveStep \in Nat
            /\ q2[i].arriveStep + behind + Ahead(job[k], P) < job[k].nextRelease + delay
      BY <1>7, <1>9, <3>1
    <3>3. q2[i].arriveStep + behind + Ahead(job'[k], P) < job'[k].nextRelease + delay
      <4>1. PICK arrive, ahead, ahead2, nr \in Nat :
              /\ arrive = q2[i].arriveStep /\ nr = job[k].nextRelease
              /\ ahead = Ahead(job[k], P) /\ ahead2 = Ahead(job'[k], P)
        BY <1>1, <1>6, <3>2
      <4>2. arrive + behind + ahead < nr + delay /\ ahead2 <= ahead
        BY <1>6, <3>2, <4>1
      <4>3. arrive + behind + ahead2 < nr + delay
        BY <4>2
      <4> QED
        BY <1>3, <4>1, <4>3
    <3> QED
      BY <3>2, <3>3
  <2> QED
    BY <1>8, <2>1 DEF Spaced
<1>10. CASE /\ Finishes(k, granted)
            /\ Len(q2) = n - G + 1 /\ q2[Len(q2)].arriveStep = step + delay
  <2>1. ASSUME NEW i \in 1 .. Len(q2)
        PROVE  q2[i].arriveStep + Span(Len(q2) - i, P) + Ahead(job'[k], P)
                 < job'[k].nextRelease + delay
    <3>1. CASE i \in 1 .. n - G
      <4>1. PICK behind \in Nat :
              /\ behind + P = Span(Len(q2) - i, P) /\ q2[i].arriveStep \in Nat
              /\ q2[i].arriveStep + behind + Ahead(job[k], P) < job[k].nextRelease + delay
        <5>1. Len(q2) - i = n - G + 1 - i
          BY <1>1, <1>10
        <5> QED
          BY <1>7, <3>1, <5>1
      <4>2. q2[i].arriveStep + (behind + P) + Ahead(job'[k], P) < job'[k].nextRelease + delay
        <5>1. PICK arrive, nr : arrive = q2[i].arriveStep /\ nr = job[k].nextRelease
          OBVIOUS
        <5>2. Ahead(job[k], P) = P /\ Ahead(job'[k], P) = 0 /\ job'[k].nextRelease = nr
          BY <1>3, <1>6, <1>10, <5>1
        <5>3. arrive \in Nat /\ nr \in Nat /\ arrive + behind + P < nr + delay
          BY <1>1, <4>1, <5>1, <5>2
        <5>4. arrive + (behind + P) + 0 < nr + delay
          BY <1>0, <5>3
        <5> QED
          BY <5>1, <5>2, <5>4
      <4> QED
        BY <4>1, <4>2
    <3>2. CASE i = Len(q2)
      <4>1. Span(Len(q2) - i, P) = 0
        <5>1. Len(q2) - i = 0 /\ 0 * P = 0
          BY <1>1, <1>10, <3>2
        <5> QED
          BY <5>1 DEF Span
      <4>2. PICK arrive, nr : arrive = q2[i].arriveStep /\ nr = job[k].nextRelease
        OBVIOUS
      <4>3. arrive = step + delay /\ nr \in Nat /\ step + 1 <= nr /\ job'[k].nextRelease = nr
        BY <1>1, <1>2, <1>3, <1>10, <3>2, <4>2
      <4>4. Ahead(job'[k], P) = 0
        BY <1>6, <1>10
      <4>5. arrive + 0 + 0 < nr + delay
        BY <1>0, <4>3
      <4> QED
        BY <3>2, <4>1, <4>2, <4>3, <4>4, <4>5
    <3> QED
      BY <1>1, <1>10, <3>1, <3>2
  <2> QED
    BY <1>8, <2>1 DEF Spaced
<1> QED
  BY <1>9, <1>10

\* Spaced packets leave a buffer that suffices a slot to spare.
LEMMA SpacedFits ==
  ASSUME NEW q \in Seq(Packet), NEW j, j.active \in BOOLEAN, j.nextRelease \in Nat,
         NEW period \in Nat \ {0}, NEW delay \in Nat \ {0}, step \in Nat,
         Spaced(q, j, period, delay, step), NoneOverdue(q),
         j.active => j.nextRelease <= step + period,
         delay <= (NetworkBuffer - 2) * period + 1
  PROVE  Len(q) < NetworkBuffer
<1>1. NetworkBuffer \in Nat /\ Len(q) \in Nat
  BY NetworkBufferAssumption, LenProperties
<1>2. NetworkBuffer - 2 \in Nat
  <2> SUFFICES ASSUME NetworkBuffer - 2 <= -1 PROVE FALSE
    BY <1>1
  <2>1. (NetworkBuffer - 2) * period <= -1
    BY <1>1
  <2> HIDE <1>1
  <2> QED
    BY <2>1, <1>1
<1>3. CASE Len(q) = 0
  BY <1>1, <1>2, <1>3
<1>4. CASE Len(q) >= 1
  <2> SUFFICES ASSUME Len(q) >= NetworkBuffer PROVE FALSE
    BY <1>1
  <2> DEFINE ahead == Ahead(j, period)
             behind == Span(Len(q) - 1, period)
             room == Span(NetworkBuffer - 2, period)
  <2>1. /\ 1 \in 1 .. Len(q) /\ q[1].arriveStep \in Nat /\ q[1].arriveStep >= step
        /\ q[1].arriveStep + behind + ahead < j.nextRelease + delay
        /\ ~j.active => j.nextRelease < step + period
    BY <1>1, <1>4, PacketFields DEF Spaced, NoneOverdue
  <2>2. /\ j.active => ahead = period
        /\ ~j.active => ahead = 0
    BY DEF Ahead
  <2>3. room \in Nat /\ behind \in Nat /\ room + period <= behind
    <3>1. PICK m \in Nat : m = NetworkBuffer - 2
      BY <1>2
    <3>2. m + 1 \in Nat /\ Len(q) - 1 \in Nat /\ m + 1 <= Len(q) - 1
      BY <1>1, <1>4, <3>1
    <3>3. Span(m, period) \in Nat /\ Span(m + 1, period) = Span(m, period) + period
      BY Spans
    <3>4. Span(Len(q) - 1, period) \in Nat /\ Span(m + 1, period) <= Span(Len(q) - 1, period)
      BY <3>2, Spans
    <3> QED
      BY <3>1, <3>3, <3>4
  <2>4. delay <= room + 1
    BY DEF Span
  <2> HIDE DEF ahead, behind, room
  <2>5. CASE j.active
    BY <2>1, <2>2, <2>3, <2>4, <2>5
  <2>6. CASE ~j.active
    BY <2>1, <2>2, <2>3, <2>4, <2>6
  <2> QED
    BY <2>5, <2>6
<1> QED
  BY <1>1, <1>3, <1>4

\* What is known of the packets in flight.
FlightInv ==
  /\ PublicationInv /\ ChainInv /\ NothingOverdue
  /\ ScSpaced /\ CaSpaced

LEMMA SpacingBegin ==
  ASSUME PublicationInv, ScSpaced, CaSpaced, BeginTick
  PROVE  ScSpaced' /\ CaSpaced'
<1>0. PICK sc, ca : sc = scReceiveAt /\ ca = caReceiveAt
  OBVIOUS
<1>1. /\ scReceiveAt' = sc /\ caReceiveAt' = ca /\ step' = step
      /\ sc \in Seq(Packet) /\ ca \in Seq(Packet)
      /\ "Sensor" \in TaskKind /\ "Merger" \in TaskKind
  BY <1>0 DEF BeginTick, scVars, caVars, PublicationInv, TypeOK, TaskKind
<1>2. ASSUME NEW d \in ScDelays
      PROVE  Spaced(sc, job'["Sensor"], Period["Sensor"], d, step)
  <2>1. d \in Nat /\ Spaced(sc, job["Sensor"], Period["Sensor"], d, step)
    BY <1>0, TaskSetAssumption DEF ScSpaced
  <2> QED
    BY <1>1, <2>1, SpacedBegin
<1>3. ASSUME NEW d \in CaDelays, NEW v \in Views
      PROVE  Spaced(ca, job'["Merger"], Period["Merger"], d + v.extraNetDelay, step)
  <2>1. PICK delay \in Nat : delay = d + v.extraNetDelay
    BY TaskSetAssumption DEF View
  <2>2. Spaced(ca, job["Merger"], Period["Merger"], delay, step)
    BY <1>0, <2>1 DEF CaSpaced
  <2>3. Spaced(ca, job'["Merger"], Period["Merger"], delay, step)
    BY <1>1, <2>2, SpacedBegin
  <2> QED
    BY <2>1, <2>3
<1> QED
  BY <1>1, <1>2, <1>3 DEF ScSpaced, CaSpaced

LEMMA SpacingEnd ==
  ASSUME FixedDelays, FlightInv, NEW granted, EndTick(granted)
  PROVE  ScSpaced' /\ CaSpaced'
<1>0. PICK sc, sc2, ca, ca2 : /\ sc = scReceiveAt /\ sc2 = scReceiveAt'
                              /\ ca = caReceiveAt /\ ca2 = caReceiveAt'
  OBVIOUS
<1>1. /\ step \in Nat /\ step' = step + 1
      /\ sc \in Seq(Packet) /\ ca \in Seq(Packet)
      /\ "Sensor" \in TaskKind /\ "Merger" \in TaskKind
      /\ PublicationInv /\ ChainInv /\ view \in Views
  BY <1>0 DEF FlightInv, ChainInv, EndTick, PublicationInv, TypeOK, TaskKind
<1>2. /\ \E end : InOrder(sc, scRec, sensOut, end) /\ NoneOverdue(sc)
      /\ \E end : InOrder(ca, caRec.stamp, aggOut.stamp, end) /\ NoneOverdue(ca)
  BY <1>0, <1>1, QueuesInOrder DEF FlightInv, NothingOverdue
<1>3. /\ Gone(sc) <= Len(sc) /\ Gone(ca) <= Len(ca)
      /\ Len(InFlight(sc)) = Len(sc) - Gone(sc) /\ MovesUp(sc, InFlight(sc))
      /\ Len(InFlight(ca)) = Len(ca) - Gone(ca) /\ MovesUp(ca, InFlight(ca))
  BY <1>1, <1>2, OnTimeDelivery
<1>4. ASSUME NEW d \in ScDelays
      PROVE  Spaced(sc2, job'["Sensor"], Period["Sensor"], d, step + 1)
  <2>1. d \in Nat /\ Spaced(sc, job["Sensor"], Period["Sensor"], d, step)
    BY <1>0, TaskSetAssumption DEF FlightInv, ScSpaced
  <2>2. CASE Finishes("Sensor", granted)
    <3>1. PICK packet \in Packet :
            /\ packet.arriveStep = step + d /\ packet.arriveStep >= step + 1
            /\ sc2 = Append(InFlight(sc), packet)
      BY <1>0, <1>1, <2>2, SentPackets DEF FixedDelays
    <3>2. Len(sc2) = Len(sc) - Gone(sc) + 1 /\ sc2[Len(sc2)] = packet /\ MovesUp(sc, sc2)
      BY <1>1, <1>2, <3>1, DeliverAndSend
    <3> QED
      BY <1>1, <1>3, <2>1, <2>2, <3>1, <3>2, SpacedEnd
  <2>3. CASE ~Finishes("Sensor", granted)
    <3>1. sc2 = InFlight(sc)
      BY <1>0, <1>1, <2>3, SentPackets
    <3> QED
      BY <1>1, <1>3, <2>1, <3>1, SpacedEnd
  <2> QED
    BY <2>2, <2>3
<1>5. ASSUME NEW d \in CaDelays, NEW v \in Views
      PROVE  Spaced(ca2, job'["Merger"], Period["Merger"], d + v.extraNetDelay, step + 1)
  <2>1. PICK delay \in Nat : delay = d + v.extraNetDelay
    BY TaskSetAssumption DEF View
  <2>2. Spaced(ca, job["Merger"], Period["Merger"], delay, step)
    BY <1>0, <2>1 DEF FlightInv, CaSpaced
  <2>3. Spaced(ca2, job'["Merger"], Period["Merger"], delay, step + 1)
    <3>1. CASE Finishes("Merger", granted)
      <4>1. PICK packet \in Packet :
              /\ packet.arriveStep = step + delay /\ packet.arriveStep >= step + 1
              /\ ca2 = Append(InFlight(ca), packet)
        <5>1. PICK other \in CaDelays, packet \in Packet :
                /\ packet.arriveStep = step + other + view.extraNetDelay
                /\ packet.arriveStep >= step + 1
                /\ ca2 = Append(InFlight(ca), packet)
          BY <1>0, <1>1, <3>1, SentPackets
        <5>2. other = d /\ view.extraNetDelay = v.extraNetDelay
          BY <1>1 DEF FixedDelays
        <5>3. PICK arrive, other2, extra, extra2 :
                /\ arrive = packet.arriveStep /\ other2 = other
                /\ extra = view.extraNetDelay /\ extra2 = v.extraNetDelay
          OBVIOUS
        <5>4. arrive = step + other2 + extra /\ other2 = d /\ extra = extra2
              /\ delay = d + extra2 /\ d \in Nat /\ extra2 \in Nat
          BY <2>1, <5>1, <5>2, <5>3, TaskSetAssumption DEF View
        <5>5. arrive = step + delay
          BY <1>1, <5>4
        <5> QED
          BY <5>1, <5>3, <5>5
      <4>2. Len(ca2) = Len(ca) - Gone(ca) + 1 /\ ca2[Len(ca2)] = packet /\ MovesUp(ca, ca2)
        BY <1>1, <1>2, <4>1, DeliverAndSend
      <4> QED
        BY <1>1, <1>3, <2>2, <3>1, <4>1, <4>2, SpacedEnd
    <3>2. CASE ~Finishes("Merger", granted)
      <4>1. ca2 = InFlight(ca)
        BY <1>0, <1>1, <3>2, SentPackets
      <4> QED
        BY <1>1, <1>3, <2>2, <4>1, SpacedEnd
    <3> QED
      BY <3>1, <3>2
  <2> QED
    BY <2>1, <2>3
<1> QED
  BY <1>0, <1>1, <1>4, <1>5 DEF ScSpaced, CaSpaced

LEMMA FlightInvariant == ASSUME FixedDelays PROVE Spec => []FlightInv
<1>1. Init => ScSpaced /\ CaSpaced
  <2> SUFFICES ASSUME Init PROVE ScSpaced /\ CaSpaced
    OBVIOUS
  <2>1. Len(scReceiveAt) = 0 /\ Len(caReceiveAt) = 0
    BY EmptySeq DEF Init
  <2> QED
    BY <2>1 DEF ScSpaced, CaSpaced, Spaced
<1>2. FlightInv /\ [Next]_vars => ScSpaced' /\ CaSpaced'
  <2> SUFFICES ASSUME FlightInv, [Next]_vars PROVE ScSpaced' /\ CaSpaced'
    OBVIOUS
  <2>1. CASE BeginTick
    BY <2>1, SpacingBegin DEF FlightInv
  <2>2. ASSUME NEW granted \in Grants, EndTick(granted) PROVE ScSpaced' /\ CaSpaced'
    BY <2>2, SpacingEnd
  <2>3. CASE UNCHANGED vars
    BY <2>3 DEF FlightInv, ScSpaced, CaSpaced, vars, jobVars, scVars, caVars
  <2> QED
    BY <2>1, <2>2, <2>3 DEF Next
<1> QED
  BY <1>1, <1>2, PublicationInvariant, OverdueInvariant, PTL DEF Spec, FlightInv

LEMMA FlightFits ==
  ASSUME FlightInv, BuffersSuffice
  PROVE  Len(scReceiveAt) < NetworkBuffer /\ Len(caReceiveAt) < NetworkBuffer
<1>1. /\ step \in Nat /\ scReceiveAt \in Seq(Packet) /\ caReceiveAt \in Seq(Packet)
      /\ NoneOverdue(scReceiveAt) /\ NoneOverdue(caReceiveAt)
      /\ "Sensor" \in TaskKind /\ "Merger" \in TaskKind
  BY DEF FlightInv, PublicationInv, TypeOK, NothingOverdue, TaskKind
<1>2. ASSUME NEW k \in TaskKind
      PROVE  /\ job[k].active \in BOOLEAN /\ job[k].nextRelease \in Nat
             /\ Period[k] \in Nat \ {0}
             /\ job[k].active => job[k].nextRelease <= step + Period[k]
  BY TaskSetAssumption, JobFields DEF FlightInv, PublicationInv, TypeOK, JobOnTime
<1>3. Len(scReceiveAt) < NetworkBuffer
  <2>1. PICK d \in ScDelays : d \in Nat \ {0}
    BY TaskSetAssumption
  <2>2. /\ Spaced(scReceiveAt, job["Sensor"], Period["Sensor"], d, step)
        /\ d <= (NetworkBuffer - 2) * Period["Sensor"] + 1
    BY DEF FlightInv, ScSpaced, BuffersSuffice
  <2>3. PICK q, j, period : /\ q = scReceiveAt /\ j = job["Sensor"]
                            /\ period = Period["Sensor"]
    OBVIOUS
  <2>4. /\ q \in Seq(Packet) /\ NoneOverdue(q) /\ period \in Nat \ {0}
        /\ j.active \in BOOLEAN /\ j.nextRelease \in Nat
        /\ j.active => j.nextRelease <= step + period
    BY <1>1, <1>2, <2>3
  <2>5. Spaced(q, j, period, d, step) /\ d <= (NetworkBuffer - 2) * period + 1
    BY <2>2, <2>3
  <2>6. Len(q) < NetworkBuffer
    BY <1>1, <2>1, <2>4, <2>5, SpacedFits
  <2> QED
    BY <2>3, <2>6
<1>4. Len(caReceiveAt) < NetworkBuffer
  <2>1. PICK delay \in Nat \ {0} :
          /\ Spaced(caReceiveAt, job["Merger"], Period["Merger"], delay, step)
          /\ delay <= (NetworkBuffer - 2) * Period["Merger"] + 1
    <3>1. PICK d \in CaDelays, v \in Views : d \in Nat \ {0} /\ v.extraNetDelay \in Nat
      BY TaskSetAssumption DEF View
    <3>2. d + v.extraNetDelay \in Nat \ {0}
      BY <3>1
    <3> QED
      BY <3>2 DEF FlightInv, CaSpaced, BuffersSuffice
  <2>2. PICK q, j, period : /\ q = caReceiveAt /\ j = job["Merger"]
                            /\ period = Period["Merger"]
    OBVIOUS
  <2>3. /\ q \in Seq(Packet) /\ NoneOverdue(q) /\ period \in Nat \ {0}
        /\ j.active \in BOOLEAN /\ j.nextRelease \in Nat
        /\ j.active => j.nextRelease <= step + period
    BY <1>1, <1>2, <2>2
  <2>4. Spaced(q, j, period, delay, step) /\ delay <= (NetworkBuffer - 2) * period + 1
    BY <2>1, <2>2
  <2>5. Len(q) < NetworkBuffer
    BY <1>1, <2>3, <2>4, SpacedFits
  <2> QED
    BY <2>2, <2>5
<1> QED
  BY <1>3, <1>4

-----------------------------------------------------------------------------
(* The buffers *)

LEMMA BufferTypes ==
  ASSUME NEW S, NEW b \in Seq(S), NEW x \in S
  PROVE  /\ Popped(b) \in Seq(S) /\ PopInto(b, x) \in S
         /\ Append(b, x) \in Seq(S) /\ Push(b, x) \in Seq(S)
<1>1. CASE b = <<>>
  BY <1>1, AppendProperties DEF Popped, PopInto, Push
<1>2. CASE b # <<>>
  BY <1>2, HeadTailProperties, AppendProperties DEF Popped, PopInto, Push
<1> QED
  BY <1>1, <1>2

\* A buffer with a slot left takes what is pushed.
LEMMA PushFits ==
  ASSUME NEW b, NEW x, Len(b) < NetworkBuffer, Len(b) \in Nat
  PROVE  Push(b, x) = Append(b, x)
BY NetworkBufferAssumption DEF Push

\* A buffer that carries an ordered queue is popped when that delivers, and hands over
\* the same packet.
LEMMA BufferPop ==
  ASSUME step \in Nat, NEW q \in Seq(Packet), NEW lo, NEW hi, NEW end,
         InOrder(q, lo, hi, end), NoneOverdue(q),
         NEW S, NEW b \in Seq(S), NEW r \in S, NEW v, NEW w, Carries(b, q, v, w),
         NEW b2, b2 = IF Due(q) # {} THEN Popped(b) ELSE b
  PROVE  /\ Carries(b2, InFlight(q), v, w)
         /\ Due(q) # {} => v[PopInto(b, r)] = w[q[FirstDue(q)]]
<1>1. /\ Len(q) \in Nat /\ Len(InFlight(q)) = Len(q) - Gone(q) /\ Len(b) = Len(q)
      /\ \A i \in 1 .. Len(q) - Gone(q) : /\ i + Gone(q) \in 1 .. Len(q)
                                         /\ InFlight(q)[i] = q[i + Gone(q)]
      /\ \A i \in 1 .. Len(q) : v[b[i]] = w[q[i]]
  BY OnTimeDelivery DEF MovesUp, Carries
<1>2. CASE Due(q) = {}
  <2>1. Gone(q) = 0 /\ InFlight(q) = q /\ b2 = b
    BY <1>2 DEF Gone, InFlight
  <2> QED
    BY <1>2, <2>1
<1>3. CASE Due(q) # {}
  <2>1. 1 \in 1 .. Len(q) /\ FirstDue(q) = 1 /\ Gone(q) = 1
    BY <1>3, FrontIsFirstDue DEF Gone
  <2>2. b # <<>>
    BY <1>1, <2>1, EmptySeq
  <2>3. /\ Head(b) = b[1] /\ Len(Tail(b)) = Len(b) - 1
        /\ \A i \in 1 .. Len(b) - 1 : Tail(b)[i] = b[i + 1]
    BY <2>2, HeadTailProperties
  <2>4. b2 = Tail(b) /\ PopInto(b, r) = b[1]
    BY <1>3, <2>2, <2>3 DEF Popped, PopInto
  <2>5. ASSUME NEW i \in 1 .. Len(InFlight(q)) PROVE v[b2[i]] = w[InFlight(q)[i]]
    <3>1. i \in 1 .. Len(q) - 1 /\ i + 1 \in 1 .. Len(q)
      BY <1>1, <2>1
    <3> QED
      BY <1>1, <2>1, <2>3, <2>4, <3>1
  <2> QED
    BY <1>1, <2>1, <2>3, <2>4, <2>5 DEF Carries
<1> QED
  BY <1>2, <1>3

LEMMA BufferSend ==
  ASSUME NEW q \in Seq(Packet), NEW packet \in Packet, NEW q2, q2 = Append(q, packet),
         NEW S, NEW b \in Seq(S), NEW x \in S, NEW v, NEW w, Carries(b, q, v, w),
         v[x] = w[packet], NEW b2, b2 = Append(b, x)
  PROVE  Carries(b2, q2, v, w)
<1>1. /\ Len(q) \in Nat /\ Len(q2) = Len(q) + 1 /\ q2[Len(q) + 1] = packet
      /\ \A i \in 1 .. Len(q) : q2[i] = q[i]
  BY LenProperties, AppendProperties
<1>2. /\ Len(b) = Len(q) /\ Len(b2) = Len(b) + 1 /\ b2[Len(b) + 1] = x
      /\ \A i \in 1 .. Len(b) : b2[i] = b[i]
  BY LenProperties, AppendProperties DEF Carries
<1>3. ASSUME NEW i \in 1 .. Len(q2) PROVE v[b2[i]] = w[q2[i]]
  <2>1. CASE i = Len(q) + 1
    BY <1>1, <1>2, <2>1
  <2>2. CASE i # Len(q) + 1
    <3>1. i \in 1 .. Len(q)
      BY <1>1, <2>2
    <3> QED
      BY <1>1, <1>2, <3>1 DEF Carries
  <2> QED
    BY <2>1, <2>2
<1> QED
  BY <1>1, <1>2, <1>3 DEF Carries

-----------------------------------------------------------------------------
(* The two routings, register by register *)

\* The merged command that a plant's registers make.
Merged(p) == [fb |-> p.fbOut, est |-> p.estOut, ff |-> p.ffOut]

LEMMA PlantFields ==
  ASSUME NEW p \in Plant
  PROVE  /\ p.sensComp \in Stamp /\ p.sensOut \in Stamp /\ p.scRec \in Stamp
         /\ p.estComp \in Stamp /\ p.estOut \in Stamp /\ p.fbComp \in Stamp
         /\ p.fbOut \in Stamp /\ p.ffComp \in Stamp /\ p.ffOut \in Stamp
         /\ p.aggComp \in Data /\ p.aggOut \in Data /\ p.caRec \in Data
         /\ p.actIn \in Data /\ p.actOut \in Data /\ Merged(p) \in Data
         /\ p.scBuffer \in Seq(Stamp) /\ p.caBuffer \in Seq(Data)
<1>1. p.fbOut \in Stamp /\ p.estOut \in Stamp /\ p.ffOut \in Stamp
  BY DEF Plant
<1>2. Merged(p) \in Data
  BY <1>1 DEF Merged, Data
<1> QED
  BY <1>2 DEF Plant

LEMMA SameRegisters ==
  ASSUME NEW p \in Plant, NEW r \in Plant,
         p.sensComp = r.sensComp, p.sensOut = r.sensOut, p.scBuffer = r.scBuffer,
         p.scRec = r.scRec, p.estComp = r.estComp, p.estOut = r.estOut,
         p.fbComp = r.fbComp, p.fbOut = r.fbOut, p.ffComp = r.ffComp, p.ffOut = r.ffOut,
         p.aggComp = r.aggComp, p.aggOut = r.aggOut, p.caBuffer = r.caBuffer,
         p.caRec = r.caRec, p.actIn = r.actIn, p.actOut = r.actOut
  PROVE  p = r
BY DEF Plant

\* The FMU's first pass: the outputs and receptions of a tick.
LEMMA FinishFields ==
  ASSUME NEW p \in Plant, NEW t, NEW r, r = FinishPass(p, t)
  PROVE  /\ r \in Plant
         /\ r.sensComp = p.sensComp /\ r.estComp = p.estComp /\ r.fbComp = p.fbComp
         /\ r.ffComp = p.ffComp /\ r.aggComp = p.aggComp /\ r.actIn = p.actIn
         /\ r.sensOut = IF "sensor_fin" \in t THEN p.sensComp ELSE p.sensOut
         /\ r.scRec = IF "net_sc_recv" \in t THEN PopInto(p.scBuffer, p.scRec) ELSE p.scRec
         /\ r.scBuffer = IF "net_sc_recv" \in t THEN Popped(p.scBuffer) ELSE p.scBuffer
         /\ r.estOut = IF "est_fin" \in t THEN p.estComp ELSE p.estOut
         /\ r.fbOut = IF "ctrl_fin" \in t THEN p.fbComp ELSE p.fbOut
         /\ r.ffOut = IF "ff_fin" \in t THEN p.ffComp ELSE p.ffOut
         /\ r.aggOut = IF "merge_fin" \in t THEN p.aggComp ELSE p.aggOut
         /\ r.caRec = IF "net_ca_recv" \in t THEN PopInto(p.caBuffer, p.caRec) ELSE p.caRec
         /\ r.caBuffer = IF "net_ca_recv" \in t THEN Popped(p.caBuffer) ELSE p.caBuffer
         /\ r.actOut = IF "act_fin" \in t THEN p.actIn ELSE p.actOut
<1> DEFINE so == IF "sensor_fin" \in t THEN p.sensComp ELSE p.sensOut
           sr == IF "net_sc_recv" \in t THEN PopInto(p.scBuffer, p.scRec) ELSE p.scRec
           sb == IF "net_sc_recv" \in t THEN Popped(p.scBuffer) ELSE p.scBuffer
           eo == IF "est_fin" \in t THEN p.estComp ELSE p.estOut
           bo == IF "ctrl_fin" \in t THEN p.fbComp ELSE p.fbOut
           fo == IF "ff_fin" \in t THEN p.ffComp ELSE p.ffOut
           mo == IF "merge_fin" \in t THEN p.aggComp ELSE p.aggOut
           cr == IF "net_ca_recv" \in t THEN PopInto(p.caBuffer, p.caRec) ELSE p.caRec
           cb == IF "net_ca_recv" \in t THEN Popped(p.caBuffer) ELSE p.caBuffer
           ao == IF "act_fin" \in t THEN p.actIn ELSE p.actOut
<1>1. /\ so \in Stamp /\ sr \in Stamp /\ sb \in Seq(Stamp) /\ eo \in Stamp /\ bo \in Stamp
      /\ fo \in Stamp /\ mo \in Data /\ cr \in Data /\ cb \in Seq(Data) /\ ao \in Data
  BY PlantFields, BufferTypes
<1>2. r = [p EXCEPT !.sensOut = so, !.scRec = sr, !.scBuffer = sb, !.estOut = eo,
                    !.fbOut = bo, !.ffOut = fo, !.aggOut = mo, !.caRec = cr,
                    !.caBuffer = cb, !.actOut = ao]
  BY DEF FinishPass
<1> HIDE DEF so, sr, sb, eo, bo, fo, mo, cr, cb, ao
<1>3. r \in Plant
  <2>1. [p EXCEPT !.sensOut = so, !.scRec = sr, !.scBuffer = sb, !.estOut = eo,
               !.fbOut = bo, !.ffOut = fo, !.aggOut = mo, !.caRec = cr,
               !.caBuffer = cb, !.actOut = ao] \in Plant
    BY <1>1 DEF Plant
  <2> QED
    BY <1>2, <2>1
<1>4. /\ r.sensComp = p.sensComp /\ r.estComp = p.estComp /\ r.fbComp = p.fbComp
      /\ r.ffComp = p.ffComp /\ r.aggComp = p.aggComp /\ r.actIn = p.actIn
  BY <1>2 DEF Plant
<1>5. /\ r.sensOut = so /\ r.scRec = sr /\ r.scBuffer = sb /\ r.estOut = eo
      /\ r.fbOut = bo /\ r.ffOut = fo /\ r.aggOut = mo /\ r.caRec = cr
      /\ r.caBuffer = cb /\ r.actOut = ao
  BY <1>2 DEF Plant
<1> QED
  BY <1>3, <1>4, <1>5 DEF so, sr, sb, eo, bo, fo, mo, cr, cb, ao

\* Its second pass: what is computed and sent.
LEMMA ActivateFields ==
  ASSUME NEW p \in Plant, NEW t, NEW now \in Stamp, NEW r, r = ActivatePass(p, t, now)
  PROVE  /\ r \in Plant
         /\ r.sensOut = p.sensOut /\ r.scRec = p.scRec /\ r.estOut = p.estOut
         /\ r.fbOut = p.fbOut /\ r.ffOut = p.ffOut /\ r.aggOut = p.aggOut
         /\ r.caRec = p.caRec /\ r.actOut = p.actOut
         /\ r.sensComp = IF "sensor_act" \in t THEN now ELSE p.sensComp
         /\ r.scBuffer = IF "net_sc_sent" \in t THEN Push(p.scBuffer, p.sensOut) ELSE p.scBuffer
         /\ r.estComp = IF "est_act" \in t THEN p.scRec ELSE p.estComp
         /\ r.fbComp = IF "ctrl_act" \in t THEN p.estOut ELSE p.fbComp
         /\ r.ffComp = IF "ff_act" \in t THEN now ELSE p.ffComp
         /\ r.aggComp = IF "merge_act" \in t THEN Merged(p) ELSE p.aggComp
         /\ r.caBuffer = IF "net_ca_sent" \in t THEN Push(p.caBuffer, p.aggOut) ELSE p.caBuffer
         /\ r.actIn = IF "act_act" \in t THEN p.caRec ELSE p.actIn
<1> DEFINE sc == IF "sensor_act" \in t THEN now ELSE p.sensComp
           sb == IF "net_sc_sent" \in t THEN Push(p.scBuffer, p.sensOut) ELSE p.scBuffer
           ec == IF "est_act" \in t THEN p.scRec ELSE p.estComp
           bc == IF "ctrl_act" \in t THEN p.estOut ELSE p.fbComp
           fc == IF "ff_act" \in t THEN now ELSE p.ffComp
           mc == IF "merge_act" \in t THEN Merged(p) ELSE p.aggComp
           cb == IF "net_ca_sent" \in t THEN Push(p.caBuffer, p.aggOut) ELSE p.caBuffer
           ai == IF "act_act" \in t THEN p.caRec ELSE p.actIn
<1>1. /\ sc \in Stamp /\ sb \in Seq(Stamp) /\ ec \in Stamp /\ bc \in Stamp
      /\ fc \in Stamp /\ mc \in Data /\ cb \in Seq(Data) /\ ai \in Data
  BY PlantFields, BufferTypes
<1>2. r = [p EXCEPT !.sensComp = sc, !.scBuffer = sb, !.estComp = ec, !.fbComp = bc,
                    !.ffComp = fc, !.aggComp = mc, !.caBuffer = cb, !.actIn = ai]
  BY DEF ActivatePass, Merged
<1> HIDE DEF sc, sb, ec, bc, fc, mc, cb, ai
<1>3. r \in Plant
  <2>1. [p EXCEPT !.sensComp = sc, !.scBuffer = sb, !.estComp = ec, !.fbComp = bc,
               !.ffComp = fc, !.aggComp = mc, !.caBuffer = cb, !.actIn = ai] \in Plant
    BY <1>1 DEF Plant
  <2> QED
    BY <1>2, <2>1
<1>4. /\ r.sensOut = p.sensOut /\ r.scRec = p.scRec /\ r.estOut = p.estOut
      /\ r.fbOut = p.fbOut /\ r.ffOut = p.ffOut /\ r.aggOut = p.aggOut
      /\ r.caRec = p.caRec /\ r.actOut = p.actOut
  BY <1>2 DEF Plant
<1>5. /\ r.sensComp = sc /\ r.scBuffer = sb /\ r.estComp = ec /\ r.fbComp = bc
      /\ r.ffComp = fc /\ r.aggComp = mc /\ r.caBuffer = cb /\ r.actIn = ai
  BY <1>2 DEF Plant
<1> QED
  BY <1>3, <1>4, <1>5 DEF sc, sb, ec, bc, fc, mc, cb, ai

\* A buffer after this tick's reception.
Received(b, pulse, t) == IF pulse \in t THEN Popped(b) ELSE b

\* An FMU step: a job that publishes copies what an earlier tick computed.
LEMMA FmuFields ==
  ASSUME NEW p \in Plant, NEW t, NEW now \in Stamp, NEW r, r = FmuDoStep(p, t, now)
  PROVE  /\ r \in Plant
         /\ r.sensComp = IF "sensor_act" \in t THEN now ELSE p.sensComp
         /\ r.sensOut = IF "sensor_fin" \in t THEN p.sensComp ELSE p.sensOut
         /\ r.scBuffer = IF "net_sc_sent" \in t
                           THEN Push(Received(p.scBuffer, "net_sc_recv", t), r.sensOut)
                           ELSE Received(p.scBuffer, "net_sc_recv", t)
         /\ r.scRec = IF "net_sc_recv" \in t THEN PopInto(p.scBuffer, p.scRec) ELSE p.scRec
         /\ r.estComp = IF "est_act" \in t THEN r.scRec ELSE p.estComp
         /\ r.estOut = IF "est_fin" \in t THEN p.estComp ELSE p.estOut
         /\ r.fbComp = IF "ctrl_act" \in t THEN r.estOut ELSE p.fbComp
         /\ r.fbOut = IF "ctrl_fin" \in t THEN p.fbComp ELSE p.fbOut
         /\ r.ffComp = IF "ff_act" \in t THEN now ELSE p.ffComp
         /\ r.ffOut = IF "ff_fin" \in t THEN p.ffComp ELSE p.ffOut
         /\ r.aggComp = IF "merge_act" \in t THEN Merged(r) ELSE p.aggComp
         /\ r.aggOut = IF "merge_fin" \in t THEN p.aggComp ELSE p.aggOut
         /\ r.caBuffer = IF "net_ca_sent" \in t
                           THEN Push(Received(p.caBuffer, "net_ca_recv", t), r.aggOut)
                           ELSE Received(p.caBuffer, "net_ca_recv", t)
         /\ r.caRec = IF "net_ca_recv" \in t THEN PopInto(p.caBuffer, p.caRec) ELSE p.caRec
         /\ r.actIn = IF "act_act" \in t THEN r.caRec ELSE p.actIn
         /\ r.actOut = IF "act_fin" \in t THEN p.actIn ELSE p.actOut
<1>1. PICK f : f = FinishPass(p, t)
  OBVIOUS
<1>2. r = ActivatePass(f, t, now)
  BY <1>1 DEF FmuDoStep
<1>3. f \in Plant
  BY <1>1, FinishFields
<1>4. Merged(r) = Merged(f)
  BY <1>2, <1>3, ActivateFields DEF Merged
<1>5. /\ r \in Plant
      /\ r.sensComp = IF "sensor_act" \in t THEN now ELSE p.sensComp
      /\ r.estComp = IF "est_act" \in t THEN r.scRec ELSE p.estComp
      /\ r.fbComp = IF "ctrl_act" \in t THEN r.estOut ELSE p.fbComp
      /\ r.ffComp = IF "ff_act" \in t THEN now ELSE p.ffComp
      /\ r.aggComp = IF "merge_act" \in t THEN Merged(r) ELSE p.aggComp
      /\ r.actIn = IF "act_act" \in t THEN r.caRec ELSE p.actIn
  BY <1>1, <1>2, <1>3, <1>4, FinishFields, ActivateFields
<1>6. /\ r.sensOut = IF "sensor_fin" \in t THEN p.sensComp ELSE p.sensOut
      /\ r.scRec = IF "net_sc_recv" \in t THEN PopInto(p.scBuffer, p.scRec) ELSE p.scRec
      /\ r.estOut = IF "est_fin" \in t THEN p.estComp ELSE p.estOut
      /\ r.fbOut = IF "ctrl_fin" \in t THEN p.fbComp ELSE p.fbOut
      /\ r.ffOut = IF "ff_fin" \in t THEN p.ffComp ELSE p.ffOut
      /\ r.aggOut = IF "merge_fin" \in t THEN p.aggComp ELSE p.aggOut
      /\ r.caRec = IF "net_ca_recv" \in t THEN PopInto(p.caBuffer, p.caRec) ELSE p.caRec
      /\ r.actOut = IF "act_fin" \in t THEN p.actIn ELSE p.actOut
  BY <1>1, <1>2, <1>3, FinishFields, ActivateFields
<1>7. /\ f.scBuffer = Received(p.scBuffer, "net_sc_recv", t)
      /\ f.caBuffer = Received(p.caBuffer, "net_ca_recv", t)
  BY <1>1, FinishFields DEF Received
<1>8. /\ r.scBuffer = IF "net_sc_sent" \in t THEN Push(f.scBuffer, r.sensOut) ELSE f.scBuffer
      /\ r.caBuffer = IF "net_ca_sent" \in t THEN Push(f.caBuffer, r.aggOut) ELSE f.caBuffer
  BY <1>2, <1>3, ActivateFields
<1> QED
  BY <1>5, <1>6, <1>7, <1>8

\* A cart-pole step: a job that publishes copies what it has computed by now.
LEMMA CartFields ==
  ASSUME NEW p \in Plant, NEW t, NEW now \in Stamp, NEW r, r = CartDoStep(p, t, now)
  PROVE  /\ r \in Plant
         /\ r.sensComp = IF "sensor_act" \in t THEN now ELSE p.sensComp
         /\ r.sensOut = IF "sensor_fin" \in t THEN r.sensComp ELSE p.sensOut
         /\ r.scBuffer = IF "net_sc_sent" \in t
                           THEN Append(Received(p.scBuffer, "net_sc_recv", t), r.sensOut)
                           ELSE Received(p.scBuffer, "net_sc_recv", t)
         /\ r.scRec = IF "net_sc_recv" \in t THEN PopInto(p.scBuffer, p.scRec) ELSE p.scRec
         /\ r.estComp = IF "est_act" \in t THEN r.scRec ELSE p.estComp
         /\ r.estOut = IF "est_fin" \in t THEN r.estComp ELSE p.estOut
         /\ r.fbComp = IF "ctrl_act" \in t THEN r.estOut ELSE p.fbComp
         /\ r.fbOut = IF "ctrl_fin" \in t THEN r.fbComp ELSE p.fbOut
         /\ r.ffComp = IF "ff_act" \in t THEN now ELSE p.ffComp
         /\ r.ffOut = IF "ff_fin" \in t THEN r.ffComp ELSE p.ffOut
         /\ r.aggComp = IF "merge_act" \in t THEN Merged(r) ELSE p.aggComp
         /\ r.aggOut = IF "merge_fin" \in t THEN r.aggComp ELSE p.aggOut
         /\ r.caBuffer = IF "net_ca_sent" \in t
                           THEN Append(Received(p.caBuffer, "net_ca_recv", t), r.aggOut)
                           ELSE Received(p.caBuffer, "net_ca_recv", t)
         /\ r.caRec = IF "net_ca_recv" \in t THEN PopInto(p.caBuffer, p.caRec) ELSE p.caRec
         /\ r.actIn = IF "act_act" \in t THEN r.caRec ELSE p.actIn
         /\ r.actOut = IF "act_fin" \in t THEN r.actIn ELSE p.actOut
<1> DEFINE sr == IF "net_sc_recv" \in t THEN PopInto(p.scBuffer, p.scRec) ELSE p.scRec
           sb == IF "net_sc_recv" \in t THEN Popped(p.scBuffer) ELSE p.scBuffer
           cr == IF "net_ca_recv" \in t THEN PopInto(p.caBuffer, p.caRec) ELSE p.caRec
           cb == IF "net_ca_recv" \in t THEN Popped(p.caBuffer) ELSE p.caBuffer
           f  == [p EXCEPT !.scRec = sr, !.scBuffer = sb, !.caRec = cr, !.caBuffer = cb]
<1>1. sr \in Stamp /\ sb \in Seq(Stamp) /\ cr \in Data /\ cb \in Seq(Data)
  BY PlantFields, BufferTypes
<1>2. r = CartCompute(f, t, now)
  BY DEF CartDoStep, CartReceive
<1>3. /\ sb = Received(p.scBuffer, "net_sc_recv", t)
      /\ cb = Received(p.caBuffer, "net_ca_recv", t)
  BY DEF Received
<1> HIDE DEF sr, sb, cr, cb
<1>4. /\ f \in Plant
      /\ f.scRec = sr /\ f.scBuffer = sb /\ f.caRec = cr /\ f.caBuffer = cb
      /\ f.sensComp = p.sensComp /\ f.estComp = p.estComp /\ f.fbComp = p.fbComp
      /\ f.ffComp = p.ffComp /\ f.aggComp = p.aggComp /\ f.actIn = p.actIn
      /\ f.sensOut = p.sensOut /\ f.estOut = p.estOut /\ f.fbOut = p.fbOut
      /\ f.ffOut = p.ffOut /\ f.aggOut = p.aggOut /\ f.actOut = p.actOut
  BY <1>1 DEF Plant
<1> HIDE DEF f
<1> DEFINE sensC == IF "sensor_act" \in t THEN now ELSE f.sensComp
           sensO == IF "sensor_fin" \in t THEN sensC ELSE f.sensOut
           estC  == IF "est_act" \in t THEN f.scRec ELSE f.estComp
           estO  == IF "est_fin" \in t THEN estC ELSE f.estOut
           fbC   == IF "ctrl_act" \in t THEN estO ELSE f.fbComp
           fbO   == IF "ctrl_fin" \in t THEN fbC ELSE f.fbOut
           ffC   == IF "ff_act" \in t THEN now ELSE f.ffComp
           ffO   == IF "ff_fin" \in t THEN ffC ELSE f.ffOut
           aggC  == IF "merge_act" \in t THEN [fb |-> fbO, est |-> estO, ff |-> ffO]
                    ELSE f.aggComp
           aggO  == IF "merge_fin" \in t THEN aggC ELSE f.aggOut
           actI  == IF "act_act" \in t THEN f.caRec ELSE f.actIn
           scB   == IF "net_sc_sent" \in t THEN Append(f.scBuffer, sensO) ELSE f.scBuffer
           caB   == IF "net_ca_sent" \in t THEN Append(f.caBuffer, aggO) ELSE f.caBuffer
           actO  == IF "act_fin" \in t THEN actI ELSE f.actOut
<1>5. /\ sensC \in Stamp /\ sensO \in Stamp /\ estC \in Stamp /\ estO \in Stamp
      /\ fbC \in Stamp /\ fbO \in Stamp /\ ffC \in Stamp /\ ffO \in Stamp
  BY <1>4, PlantFields
<1>6. aggC \in Data
  <2>1. f.aggComp \in Data
    BY <1>4, PlantFields
  <2> HIDE DEF fbO, estO, ffO
  <2>2. [fb |-> fbO, est |-> estO, ff |-> ffO] \in Data
    BY <1>5 DEF Data
  <2> QED
    BY <2>1, <2>2
<1>7. aggO \in Data /\ actI \in Data /\ actO \in Data
  <2> HIDE DEF aggC
  <2> QED
    BY <1>4, <1>6, PlantFields
<1>8. scB \in Seq(Stamp) /\ caB \in Seq(Data)
  <2> HIDE DEF sensO, aggO
  <2> QED
    BY <1>4, <1>5, <1>7, PlantFields, BufferTypes
<1>9. r = [f EXCEPT !.sensComp = sensC, !.sensOut = sensO, !.estComp = estC, !.estOut = estO,
                    !.fbComp = fbC, !.fbOut = fbO, !.ffComp = ffC, !.ffOut = ffO,
                    !.aggComp = aggC, !.aggOut = aggO, !.actIn = actI,
                    !.scBuffer = scB, !.caBuffer = caB, !.actOut = actO]
  BY <1>2 DEF CartCompute
<1> HIDE DEF sensC, sensO, estC, estO, fbC, fbO, ffC, ffO, aggC, aggO, actI, scB, caB, actO
<1>10. r \in Plant
  <2>1. [f EXCEPT !.sensComp = sensC, !.sensOut = sensO, !.estComp = estC, !.estOut = estO,
                  !.fbComp = fbC, !.fbOut = fbO, !.ffComp = ffC, !.ffOut = ffO,
                  !.aggComp = aggC, !.aggOut = aggO, !.actIn = actI,
                  !.scBuffer = scB, !.caBuffer = caB, !.actOut = actO] \in Plant
    BY <1>4, <1>5, <1>6, <1>7, <1>8, ZenonT(60) DEF Plant
  <2> QED
    BY <1>9, <2>1
<1>11. /\ r.sensComp = sensC /\ r.sensOut = sensO /\ r.estComp = estC /\ r.estOut = estO
       /\ r.fbComp = fbC /\ r.fbOut = fbO /\ r.ffComp = ffC /\ r.ffOut = ffO
       /\ r.aggComp = aggC /\ r.aggOut = aggO /\ r.actIn = actI
       /\ r.scBuffer = scB /\ r.caBuffer = caB /\ r.actOut = actO
       /\ r.scRec = f.scRec /\ r.caRec = f.caRec
  BY <1>4, <1>9 DEF Plant
<1>12. Merged(r) = [fb |-> fbO, est |-> estO, ff |-> ffO]
  BY <1>11 DEF Merged
<1>13. /\ r.sensComp = IF "sensor_act" \in t THEN now ELSE p.sensComp
       /\ r.sensOut = IF "sensor_fin" \in t THEN r.sensComp ELSE p.sensOut
       /\ r.estComp = IF "est_act" \in t THEN r.scRec ELSE p.estComp
       /\ r.estOut = IF "est_fin" \in t THEN r.estComp ELSE p.estOut
  BY <1>4, <1>11 DEF sensC, sensO, estC, estO
<1>14. /\ r.fbComp = IF "ctrl_act" \in t THEN r.estOut ELSE p.fbComp
       /\ r.fbOut = IF "ctrl_fin" \in t THEN r.fbComp ELSE p.fbOut
       /\ r.ffComp = IF "ff_act" \in t THEN now ELSE p.ffComp
       /\ r.ffOut = IF "ff_fin" \in t THEN r.ffComp ELSE p.ffOut
  BY <1>4, <1>11 DEF fbC, fbO, ffC, ffO
<1>15. /\ r.aggComp = IF "merge_act" \in t THEN Merged(r) ELSE p.aggComp
       /\ r.aggOut = IF "merge_fin" \in t THEN r.aggComp ELSE p.aggOut
       /\ r.actIn = IF "act_act" \in t THEN r.caRec ELSE p.actIn
       /\ r.actOut = IF "act_fin" \in t THEN r.actIn ELSE p.actOut
  BY <1>4, <1>11, <1>12 DEF aggC, aggO, actI, actO
<1>16. /\ r.scBuffer = IF "net_sc_sent" \in t THEN Append(sb, r.sensOut) ELSE sb
       /\ r.caBuffer = IF "net_ca_sent" \in t THEN Append(cb, r.aggOut) ELSE cb
       /\ r.scRec = sr /\ r.caRec = cr
  BY <1>4, <1>11 DEF scB, caB
<1> QED
  BY <1>3, <1>10, <1>13, <1>14, <1>15, <1>16 DEF sr, cr

\* The pulses of one tick, as the FMU may be told: no kind publishes and activates.
Disjoint(t) == \A k \in TaskKind : ~({ActPulse[k], FinPulse[k]} \subseteq t)

LEMMA DisjointPulses ==
  ASSUME NEW t, Disjoint(t)
  PROVE  /\ ~("sensor_act" \in t /\ "sensor_fin" \in t)
         /\ ~("est_act" \in t /\ "est_fin" \in t)
         /\ ~("ctrl_act" \in t /\ "ctrl_fin" \in t)
         /\ ~("ff_act" \in t /\ "ff_fin" \in t)
         /\ ~("merge_act" \in t /\ "merge_fin" \in t)
         /\ ~("act_act" \in t /\ "act_fin" \in t)
BY DEF Disjoint, ActPulse, FinPulse, TaskKind

\* Told so, and with room in its buffers, the FMU routes as the cart-pole does.
LEMMA SameRouting ==
  ASSUME NEW p \in Plant, NEW t, NEW now \in Stamp, Disjoint(t),
         Len(Received(p.scBuffer, "net_sc_recv", t)) < NetworkBuffer,
         Len(Received(p.caBuffer, "net_ca_recv", t)) < NetworkBuffer
  PROVE  CartDoStep(p, t, now) = FmuDoStep(p, t, now)
<1>1. PICK c, f : c = CartDoStep(p, t, now) /\ f = FmuDoStep(p, t, now)
  OBVIOUS
<1>2. c \in Plant /\ f \in Plant
  BY <1>1, CartFields, FmuFields
<1>3. /\ c.sensComp = f.sensComp /\ c.sensOut = f.sensOut
      /\ c.scRec = f.scRec /\ c.caRec = f.caRec /\ c.ffComp = f.ffComp
  BY <1>1, CartFields, FmuFields, DisjointPulses
<1>4. c.estComp = f.estComp /\ c.estOut = f.estOut /\ c.ffOut = f.ffOut
  BY <1>1, <1>3, CartFields, FmuFields, DisjointPulses
<1>5. c.fbComp = f.fbComp /\ c.fbOut = f.fbOut
  BY <1>1, <1>4, CartFields, FmuFields, DisjointPulses
<1>6. Merged(c) = Merged(f)
  BY <1>4, <1>5 DEF Merged
<1>7. c.aggComp = f.aggComp /\ c.aggOut = f.aggOut
  BY <1>1, <1>6, CartFields, FmuFields, DisjointPulses
<1>8. c.actIn = f.actIn /\ c.actOut = f.actOut
  BY <1>1, <1>3, CartFields, FmuFields, DisjointPulses
<1>9. c.scBuffer = f.scBuffer
  <2>1. PICK b \in Seq(Stamp) : b = Received(p.scBuffer, "net_sc_recv", t)
    BY PlantFields, BufferTypes DEF Received
  <2>2. Push(b, f.sensOut) = Append(b, f.sensOut)
    BY <2>1, LenProperties, PushFits
  <2>3. c.scBuffer = IF "net_sc_sent" \in t THEN Append(b, c.sensOut) ELSE b
    BY <1>1, <2>1, CartFields
  <2>4. f.scBuffer = IF "net_sc_sent" \in t THEN Push(b, f.sensOut) ELSE b
    BY <1>1, <2>1, FmuFields
  <2> QED
    BY <1>3, <2>2, <2>3, <2>4
<1>10. c.caBuffer = f.caBuffer
  <2>1. PICK b \in Seq(Data) : b = Received(p.caBuffer, "net_ca_recv", t)
    BY PlantFields, BufferTypes DEF Received
  <2>2. Push(b, f.aggOut) = Append(b, f.aggOut)
    BY <2>1, LenProperties, PushFits
  <2>3. c.caBuffer = IF "net_ca_sent" \in t THEN Append(b, c.aggOut) ELSE b
    BY <1>1, <2>1, CartFields
  <2>4. f.caBuffer = IF "net_ca_sent" \in t THEN Push(b, f.aggOut) ELSE b
    BY <1>1, <2>1, FmuFields
  <2> QED
    BY <1>7, <2>2, <2>3, <2>4
<1> QED
  BY <1>1, <1>2, <1>3, <1>4, <1>5, <1>7, <1>8, <1>9, <1>10,
     SameRegisters

-----------------------------------------------------------------------------
(* Steps *)

\* Every pulse of a tick, by the name the plants know it by.
LEMMA EventPulses ==
  ASSUME NEW granted, EmitPulses(granted), NEW t, t = trig'
  PROVE  /\ "sensor_act" \in t <=> Activates("Sensor", granted)
         /\ "sensor_fin" \in t <=> Finishes("Sensor", granted)
         /\ "est_act" \in t <=> Activates("Estimator", granted)
         /\ "est_fin" \in t <=> Finishes("Estimator", granted)
         /\ "ctrl_act" \in t <=> Activates("Controller", granted)
         /\ "ctrl_fin" \in t <=> BPublishes(granted)
         /\ "ff_act" \in t <=> Activates("Feedforward", granted)
         /\ "ff_fin" \in t <=> FfPublishes(granted)
         /\ "merge_act" \in t <=> Activates("Merger", granted)
         /\ "merge_fin" \in t <=> Finishes("Merger", granted)
         /\ "act_act" \in t <=> Activates("Actuator", granted)
         /\ "act_fin" \in t <=> Finishes("Actuator", granted)
         /\ "net_sc_recv" \in t <=> Due(scReceiveAt) # {}
         /\ "net_ca_recv" \in t <=> Due(caReceiveAt) # {}
         /\ "net_sc_sent" \in t <=> Finishes("Sensor", granted)
         /\ "net_ca_sent" \in t <=> Finishes("Merger", granted)
<1>1. /\ ActPulse["Sensor"] = "sensor_act" /\ FinPulse["Sensor"] = "sensor_fin"
      /\ ActPulse["Estimator"] = "est_act" /\ FinPulse["Estimator"] = "est_fin"
      /\ ActPulse["Controller"] = "ctrl_act"
      /\ ActPulse["Feedforward"] = "ff_act"
      /\ ActPulse["Merger"] = "merge_act" /\ FinPulse["Merger"] = "merge_fin"
      /\ ActPulse["Actuator"] = "act_act" /\ FinPulse["Actuator"] = "act_fin"
      /\ TaskKind = {"Sensor", "Estimator", "Controller", "Feedforward", "Merger", "Actuator"}
  BY DEF ActPulse, FinPulse, TaskKind
<1>2. \A k \in {"Sensor", "Estimator", "Merger", "Actuator"} :
        Publishes(k, granted) <=> Finishes(k, granted)
  BY DEF Publishes
<1>3. \A k \in TaskKind : /\ ActPulse[k] \in t <=> Activates(k, granted)
                          /\ FinPulse[k] \in t <=> Publishes(k, granted)
  BY PulsesOfTick
<1>4. \A k \in TaskKind :
        /\ ActPulse[k] \notin {"net_sc_recv", "net_ca_recv", "net_sc_sent", "net_ca_sent"}
        /\ FinPulse[k] \notin {"net_sc_recv", "net_ca_recv", "net_sc_sent", "net_ca_sent"}
  BY DEF ActPulse, FinPulse, TaskKind
<1>5. /\ "net_sc_recv" \in t <=> Due(scReceiveAt) # {}
      /\ "net_ca_recv" \in t <=> Due(caReceiveAt) # {}
      /\ "net_sc_sent" \in t <=> Finishes("Sensor", granted)
      /\ "net_ca_sent" \in t <=> Finishes("Merger", granted)
  BY <1>4 DEF EmitPulses
<1> QED
  BY <1>1, <1>2, <1>3, <1>5, NamedPulses

\* What ffPubAct keeps is the FMU's, whatever else happens: a job that publishes, late or
\* not, is not the one that has just been activated.
LEMMA FeedforwardEnd ==
  ASSUME PublicationInv, FfShadow, NEW granted, EndTick(granted),
         fmu' = FmuDoStep(fmu, trig', step)
  PROVE  FfShadow'
<1>1. PICK t, p, r : t = trig' /\ p = fmu /\ r = fmu'
  OBVIOUS
<1>2. p \in Plant /\ step \in Stamp /\ r = FmuDoStep(p, t, step)
  BY <1>1 DEF FfShadow, PublicationInv, TypeOK, Stamp
<1>3. /\ r \in Plant
      /\ r.ffComp = IF "ff_act" \in t THEN step ELSE p.ffComp
      /\ r.ffOut = IF "ff_fin" \in t THEN p.ffComp ELSE p.ffOut
  BY <1>2, FmuFields
<1>4. /\ "ff_act" \in t <=> Activates("Feedforward", granted)
      /\ "ff_fin" \in t <=> FfPublishes(granted)
  BY <1>1, EventPulses DEF EndTick
<1>5. FfPublishes(granted) => ~Activates("Feedforward", granted)
  BY FeedforwardOwned DEF FfPublishes, FfFires
<1>6. /\ ffCurAct' = IF Activates("Feedforward", granted) THEN step ELSE ffCurAct
      /\ ffPubAct' = IF FfPublishes(granted) THEN ffCurAct' ELSE ffPubAct
  BY DEF EndTick, FeedforwardStage
<1> QED
  BY <1>1, <1>3, <1>4, <1>5, <1>6 DEF FfShadow

\* One network: its FMU buffer goes on carrying what the chain has in flight.
LEMMA SampleBufferEnd ==
  ASSUME FlightInv, BuffersSuffice, FfShadow, FmuShadow, NEW granted, EndTick(granted),
         NEW r, r = FmuDoStep(fmu, trig', step), r.sensOut = sensOut'
  PROVE  /\ r.scRec = scRec'
         /\ Carries(r.scBuffer, scReceiveAt', SampleOf, SampleSent)
         /\ Len(Received(fmu.scBuffer, "net_sc_recv", trig')) < NetworkBuffer
<1>1. PICK t, p, q, q2, b : /\ t = trig' /\ p = fmu /\ q = scReceiveAt /\ q2 = scReceiveAt'
                            /\ b = Received(p.scBuffer, "net_sc_recv", t)
  OBVIOUS
<1>2. /\ PublicationInv /\ ChainInv /\ step \in Nat /\ step \in Stamp
      /\ q \in Seq(Packet) /\ NoneOverdue(q)
      /\ \E end : InOrder(q, scRec, sensOut, end)
  BY <1>1, QueuesInOrder DEF FlightInv, NothingOverdue, Stamp
<1>3. /\ p \in Plant /\ p.scBuffer \in Seq(Stamp) /\ p.scRec \in Stamp /\ p.scRec = scRec
      /\ Carries(p.scBuffer, q, SampleOf, SampleSent)
  BY <1>1, PlantFields DEF FfShadow, FmuShadow, StampsShadowFmu
<1>4. /\ "net_sc_recv" \in t <=> Due(q) # {}
      /\ "net_sc_sent" \in t <=> Finishes("Sensor", granted)
  BY <1>1, EventPulses DEF EndTick
<1>5. /\ b \in Seq(Stamp)
      /\ Carries(b, InFlight(q), SampleOf, SampleSent)
      /\ Due(q) # {} =>
           SampleOf[PopInto(p.scBuffer, p.scRec)] = SampleSent[q[FirstDue(q)]]
  <2>1. b = IF Due(q) # {} THEN Popped(p.scBuffer) ELSE p.scBuffer
    BY <1>1, <1>4 DEF Received
  <2>2. b \in Seq(Stamp)
    BY <1>3, <2>1, BufferTypes
  <2>3. PICK end : InOrder(q, scRec, sensOut, end)
    BY <1>2
  <2>4. PICK pb \in Seq(Stamp), pr \in Stamp : pb = p.scBuffer /\ pr = p.scRec
    BY <1>3
  <2>5. /\ Carries(b, InFlight(q), SampleOf, SampleSent)
        /\ Due(q) # {} => SampleOf[PopInto(pb, pr)] = SampleSent[q[FirstDue(q)]]
    BY <1>2, <1>3, <2>1, <2>3, <2>4, BufferPop
  <2> QED
    BY <2>2, <2>4, <2>5
<1>6. /\ r.scRec = IF "net_sc_recv" \in t THEN PopInto(p.scBuffer, p.scRec) ELSE p.scRec
      /\ r.scBuffer = IF "net_sc_sent" \in t THEN Push(b, r.sensOut) ELSE b
      /\ r.sensOut \in Stamp
  BY <1>1, <1>2, <1>3, FmuFields, PlantFields
<1>7. r.scRec = scRec'
  <2>1. scRec' = IF Due(q) = {} THEN scRec ELSE q[FirstDue(q)].data.stamp
    BY <1>1 DEF EndTick, ReceivePackets
  <2>2. CASE Due(q) # {}
    <3>1. q[FirstDue(q)] \in Packet
      BY <1>2, <2>2, FirstDueIsDue, DueInQueue, PacketFields
    <3>2. PopInto(p.scBuffer, p.scRec) \in Stamp
      BY <1>3, BufferTypes
    <3> QED
      BY <1>4, <1>5, <1>6, <2>1, <2>2, <3>1, <3>2 DEF SampleOf, SampleSent
  <2> QED
    BY <1>3, <1>4, <1>6, <2>1, <2>2
<1>8. Len(b) \in Nat /\ Len(b) < NetworkBuffer
  <2>1. Len(q) < NetworkBuffer
    BY <1>1, FlightFits
  <2>2. Len(b) = Len(q) - Gone(q) /\ Len(q) \in Nat /\ Gone(q) \in {0, 1} /\ Gone(q) <= Len(q)
    BY <1>2, <1>5, OnTimeDelivery DEF Carries
  <2> QED
    BY <2>1, <2>2, NetworkBufferAssumption
<1>9. Carries(r.scBuffer, q2, SampleOf, SampleSent)
  <2>1. CASE Finishes("Sensor", granted)
    <3>1. PICK packet \in Packet :
            /\ packet.data = [stamp |-> sensOut', stampOld |-> sensOut']
            /\ q2 = Append(InFlight(q), packet)
      BY <1>1, <1>2, <2>1, SentPackets
    <3>2. SampleOf[r.sensOut] = SampleSent[packet]
      BY <1>6, <3>1 DEF SampleOf, SampleSent
    <3>3. InFlight(q) \in Seq(Packet)
      BY <1>2, InFlightType
    <3>4. PICK x \in Stamp : x = r.sensOut
      BY <1>6
    <3>5. PICK b2 : b2 = r.scBuffer
      OBVIOUS
    <3>6. b2 = Append(b, x) /\ SampleOf[x] = SampleSent[packet]
      BY <1>4, <1>6, <1>8, <2>1, <3>2, <3>4, <3>5, PushFits
    <3>8. Carries(b2, q2, SampleOf, SampleSent)
      BY <1>5, <3>1, <3>3, <3>6, BufferSend
    <3> QED
      BY <3>5, <3>8
  <2>2. CASE ~Finishes("Sensor", granted)
    BY <1>1, <1>2, <1>4, <1>5, <1>6, <2>2, SentPackets
  <2> QED
    BY <2>1, <2>2
<1> QED
  BY <1>1, <1>7, <1>8, <1>9

LEMMA CommandBufferEnd ==
  ASSUME FlightInv, BuffersSuffice, FfShadow, FmuShadow, NEW granted, EndTick(granted),
         NEW r, r = FmuDoStep(fmu, trig', step), LineageOf(r.aggOut) = aggOut'
  PROVE  /\ LineageOf(r.caRec) = caRec'
         /\ Carries(r.caBuffer, caReceiveAt', CommandOf, CommandSent)
         /\ Len(Received(fmu.caBuffer, "net_ca_recv", trig')) < NetworkBuffer
<1>1. PICK t, p, q, q2, b : /\ t = trig' /\ p = fmu /\ q = caReceiveAt /\ q2 = caReceiveAt'
                            /\ b = Received(p.caBuffer, "net_ca_recv", t)
  OBVIOUS
<1>2. /\ PublicationInv /\ ChainInv /\ step \in Nat /\ step \in Stamp
      /\ q \in Seq(Packet) /\ NoneOverdue(q)
      /\ \E end : InOrder(q, caRec.stamp, aggOut.stamp, end)
  BY <1>1, QueuesInOrder DEF FlightInv, NothingOverdue, Stamp
<1>3. /\ p \in Plant /\ p.caBuffer \in Seq(Data) /\ p.caRec \in Data
      /\ LineageOf(p.caRec) = caRec
      /\ Carries(p.caBuffer, q, CommandOf, CommandSent)
  BY <1>1, PlantFields DEF FfShadow, FmuShadow, StampsShadowFmu
<1>4. /\ "net_ca_recv" \in t <=> Due(q) # {}
      /\ "net_ca_sent" \in t <=> Finishes("Merger", granted)
  BY <1>1, EventPulses DEF EndTick
<1>5. /\ b \in Seq(Data)
      /\ Carries(b, InFlight(q), CommandOf, CommandSent)
      /\ Due(q) # {} =>
           CommandOf[PopInto(p.caBuffer, p.caRec)] = CommandSent[q[FirstDue(q)]]
  <2>1. b = IF Due(q) # {} THEN Popped(p.caBuffer) ELSE p.caBuffer
    BY <1>1, <1>4 DEF Received
  <2>2. b \in Seq(Data)
    BY <1>3, <2>1, BufferTypes
  <2>3. PICK lo, hi, end : InOrder(q, lo, hi, end)
    BY <1>2
  <2>4. PICK pb \in Seq(Data), pr \in Data : pb = p.caBuffer /\ pr = p.caRec
    BY <1>3
  <2>5. /\ Carries(b, InFlight(q), CommandOf, CommandSent)
        /\ Due(q) # {} => CommandOf[PopInto(pb, pr)] = CommandSent[q[FirstDue(q)]]
    BY <1>2, <1>3, <2>1, <2>3, <2>4, BufferPop
  <2> QED
    BY <2>2, <2>4, <2>5
<1>6. /\ r.caRec = IF "net_ca_recv" \in t THEN PopInto(p.caBuffer, p.caRec) ELSE p.caRec
      /\ r.caBuffer = IF "net_ca_sent" \in t THEN Push(b, r.aggOut) ELSE b
      /\ r.aggOut \in Data
  BY <1>1, <1>2, <1>3, FmuFields, PlantFields
<1>7. LineageOf(r.caRec) = caRec'
  <2>1. caRec' = IF Due(q) = {} THEN caRec ELSE q[FirstDue(q)].data
    BY <1>1 DEF EndTick, ReceivePackets
  <2>2. CASE Due(q) # {}
    <3>1. q[FirstDue(q)] \in Packet
      BY <1>2, <2>2, FirstDueIsDue, DueInQueue, PacketFields
    <3>2. PopInto(p.caBuffer, p.caRec) \in Data
      BY <1>3, BufferTypes
    <3> QED
      BY <1>4, <1>5, <1>6, <2>1, <2>2, <3>1, <3>2 DEF CommandOf, CommandSent
  <2> QED
    BY <1>3, <1>4, <1>6, <2>1, <2>2
<1>8. Len(b) \in Nat /\ Len(b) < NetworkBuffer
  <2>1. Len(q) < NetworkBuffer
    BY <1>1, FlightFits
  <2>2. Len(b) = Len(q) - Gone(q) /\ Len(q) \in Nat /\ Gone(q) \in {0, 1} /\ Gone(q) <= Len(q)
    BY <1>2, <1>5, OnTimeDelivery DEF Carries
  <2> QED
    BY <2>1, <2>2, NetworkBufferAssumption
<1>9. Carries(r.caBuffer, q2, CommandOf, CommandSent)
  <2>1. CASE Finishes("Merger", granted)
    <3>1. PICK packet \in Packet : packet.data = aggOut' /\ q2 = Append(InFlight(q), packet)
      BY <1>1, <1>2, <2>1, SentPackets
    <3>2. CommandOf[r.aggOut] = CommandSent[packet]
      BY <1>6, <3>1 DEF CommandOf, CommandSent
    <3>3. InFlight(q) \in Seq(Packet)
      BY <1>2, InFlightType
    <3>4. PICK x \in Data : x = r.aggOut
      BY <1>6
    <3>5. PICK b2 : b2 = r.caBuffer
      OBVIOUS
    <3>6. b2 = Append(b, x) /\ CommandOf[x] = CommandSent[packet]
      BY <1>4, <1>6, <1>8, <2>1, <3>2, <3>4, <3>5, PushFits
    <3>8. Carries(b2, q2, CommandOf, CommandSent)
      BY <1>5, <3>1, <3>3, <3>6, BufferSend
    <3> QED
      BY <3>5, <3>8
  <2>2. CASE ~Finishes("Merger", granted)
    BY <1>1, <1>2, <1>4, <1>5, <1>6, <2>2, SentPackets
  <2> QED
    BY <2>1, <2>2
<1> QED
  BY <1>1, <1>7, <1>8, <1>9

\* A tick of the whole FMU, stage by stage along the chain.
LEMMA PlantEnd ==
  ASSUME FlightInv, BuffersSuffice, PlantInv, NEW granted, EndTick(granted),
         fmu' = FmuDoStep(fmu, trig', step), cart' = CartDoStep(cart, trig', step)
  PROVE  PlantInv'
<1>1. PICK t, p, r : t = trig' /\ p = fmu /\ r = fmu'
  OBVIOUS
<1>2. p \in Plant /\ step \in Stamp /\ r = FmuDoStep(p, t, step)
  BY <1>1 DEF PlantInv, FfShadow, FlightInv, PublicationInv, TypeOK, Stamp
<1>3. PublicationInv /\ ChainInv /\ TypeOK /\ FfShadow /\ FmuShadow /\ cart = fmu
  BY DEF FlightInv, PlantInv, PublicationInv, RoutingsAgree
<1>4. \A k \in TaskKind : Finishes(k, granted) => ~Activates(k, granted)
  BY <1>3, NoFinishWithActivate DEF PublicationInv
<1>5. {"Sensor", "Estimator", "Controller", "Feedforward", "Merger", "Actuator"} = TaskKind
  BY DEF TaskKind
<1>6. r.sensComp = sensComp' /\ r.sensOut = sensOut'
  <2>1. p.sensComp = sensComp /\ p.sensOut = sensOut
    BY <1>1, <1>3 DEF FmuShadow, StampsShadowFmu
  <2>2. /\ sensComp' = IF Activates("Sensor", granted) THEN step ELSE sensComp
        /\ sensOut' = IF Finishes("Sensor", granted) THEN sensComp' ELSE sensOut
    BY DEF EndTick, SensorStage
  <2>3. /\ r.sensComp = IF "sensor_act" \in t THEN step ELSE p.sensComp
        /\ r.sensOut = IF "sensor_fin" \in t THEN p.sensComp ELSE p.sensOut
    BY <1>2, FmuFields
  <2>4. /\ "sensor_act" \in t <=> Activates("Sensor", granted)
        /\ "sensor_fin" \in t <=> Finishes("Sensor", granted)
    BY <1>1, EventPulses DEF EndTick
  <2> QED
    BY <1>4, <1>5, <2>1, <2>2, <2>3, <2>4
<1>7. /\ r.scRec = scRec' /\ Carries(r.scBuffer, scReceiveAt', SampleOf, SampleSent)
      /\ Len(Received(p.scBuffer, "net_sc_recv", t)) < NetworkBuffer
  BY <1>1, <1>2, <1>3, <1>6, SampleBufferEnd
<1>8. r.estComp = estComp' /\ r.estOut = estOut'
  <2>1. p.estComp = estComp /\ p.estOut = estOut
    BY <1>1, <1>3 DEF FmuShadow, StampsShadowFmu
  <2>2. /\ estComp' = IF Activates("Estimator", granted) THEN scRec' ELSE estComp
        /\ estOut' = IF Finishes("Estimator", granted) THEN estComp' ELSE estOut
    BY DEF EndTick, EstimatorStage
  <2>3. /\ r.estComp = IF "est_act" \in t THEN r.scRec ELSE p.estComp
        /\ r.estOut = IF "est_fin" \in t THEN p.estComp ELSE p.estOut
    BY <1>2, FmuFields
  <2>4. /\ "est_act" \in t <=> Activates("Estimator", granted)
        /\ "est_fin" \in t <=> Finishes("Estimator", granted)
    BY <1>1, EventPulses DEF EndTick
  <2> QED
    BY <1>4, <1>5, <1>7, <2>1, <2>2, <2>3, <2>4
<1>9. r.fbComp = fbComp' /\ r.fbOut = fbOut'
  <2>1. p.fbComp = fbComp /\ p.fbOut = fbOut
    BY <1>1, <1>3 DEF FmuShadow, StampsShadowFmu
  <2>2. /\ fbComp' = IF Activates("Controller", granted) THEN estOut' ELSE fbComp
        /\ fbOut' = IF BPublishes(granted) THEN fbComp' ELSE fbOut
        /\ BPublishes(granted) => Finishes("Controller", granted)
    BY DEF EndTick, ControllerStage, BPublishes
  <2>3. /\ r.fbComp = IF "ctrl_act" \in t THEN r.estOut ELSE p.fbComp
        /\ r.fbOut = IF "ctrl_fin" \in t THEN p.fbComp ELSE p.fbOut
    BY <1>2, FmuFields
  <2>4. /\ "ctrl_act" \in t <=> Activates("Controller", granted)
        /\ "ctrl_fin" \in t <=> BPublishes(granted)
    BY <1>1, EventPulses DEF EndTick
  <2> QED
    BY <1>4, <1>5, <1>8, <2>1, <2>2, <2>3, <2>4
<1>10. LineageOf(r.aggComp) = aggComp' /\ LineageOf(r.aggOut) = aggOut'
  <2>1. LineageOf(p.aggComp) = aggComp /\ LineageOf(p.aggOut) = aggOut
    BY <1>1, <1>3 DEF FmuShadow, StampsShadowFmu
  <2>2. /\ aggComp' = IF Activates("Merger", granted)
                        THEN [stamp |-> Freshest(fbOut', estOut'),
                              stampOld |-> OldestValid(fbOut', estOut')]
                        ELSE aggComp
        /\ aggOut' = IF Finishes("Merger", granted) THEN aggComp' ELSE aggOut
    BY DEF EndTick, MergerStage
  <2>3. /\ r.aggComp = IF "merge_act" \in t THEN Merged(r) ELSE p.aggComp
        /\ r.aggOut = IF "merge_fin" \in t THEN p.aggComp ELSE p.aggOut
    BY <1>2, FmuFields
  <2>4. /\ "merge_act" \in t <=> Activates("Merger", granted)
        /\ "merge_fin" \in t <=> Finishes("Merger", granted)
    BY <1>1, EventPulses DEF EndTick
  <2>5. LineageOf(Merged(r)) = [stamp |-> Freshest(fbOut', estOut'),
                                stampOld |-> OldestValid(fbOut', estOut')]
    BY <1>8, <1>9 DEF LineageOf, Merged
  <2> QED
    BY <1>4, <1>5, <2>1, <2>2, <2>3, <2>4, <2>5
<1>11. /\ LineageOf(r.caRec) = caRec'
       /\ Carries(r.caBuffer, caReceiveAt', CommandOf, CommandSent)
       /\ Len(Received(p.caBuffer, "net_ca_recv", t)) < NetworkBuffer
  BY <1>1, <1>2, <1>3, <1>10, CommandBufferEnd
<1>12. LineageOf(r.actIn) = actIn' /\ LineageOf(r.actOut) = actOut'
  <2>1. LineageOf(p.actIn) = actIn /\ LineageOf(p.actOut) = actOut
    BY <1>1, <1>3 DEF FmuShadow, StampsShadowFmu
  <2>2. /\ actIn' = IF Activates("Actuator", granted) THEN caRec' ELSE actIn
        /\ actOut' = IF Finishes("Actuator", granted) THEN actIn' ELSE actOut
    BY DEF EndTick, ActuatorStage
  <2>3. /\ r.actIn = IF "act_act" \in t THEN r.caRec ELSE p.actIn
        /\ r.actOut = IF "act_fin" \in t THEN p.actIn ELSE p.actOut
    BY <1>2, FmuFields
  <2>4. /\ "act_act" \in t <=> Activates("Actuator", granted)
        /\ "act_fin" \in t <=> Finishes("Actuator", granted)
    BY <1>1, EventPulses DEF EndTick
  <2> QED
    BY <1>4, <1>5, <1>11, <2>1, <2>2, <2>3, <2>4
<1>13. FfShadow'
  BY <1>3, FeedforwardEnd
<1>14. FmuShadow'
  BY <1>1, <1>6, <1>7, <1>8, <1>9, <1>10, <1>11, <1>12 DEF FmuShadow, StampsShadowFmu
<1>15. cart' = fmu'
  <2>1. Disjoint(t)
    BY <1>1, <1>3, PublicationEnd DEF PublicationInv, NoPublishWithActivate, Disjoint
  <2>2. CartDoStep(p, t, step) = FmuDoStep(p, t, step)
    BY <1>2, <1>7, <1>11, <2>1, SameRouting
  <2> QED
    BY <1>1, <1>2, <1>3, <2>2
<1> QED
  BY <1>13, <1>14, <1>15 DEF PlantInv, RoutingsAgree

LEMMA PlantStart == PlantInit => PlantInv
<1> SUFFICES ASSUME PlantInit PROVE PlantInv
  OBVIOUS
<1>1. NoData \in Data /\ <<>> \in Seq(Stamp) /\ <<>> \in Seq(Data) /\ -1 \in Stamp
  BY EmptySeq DEF NoData, Data, Stamp
<1>2. fmu \in Plant
  BY <1>1 DEF PlantInit, InitialPlant, Plant
<1>3. LineageOf(NoData) = NoLineage
  BY DEF LineageOf, NoData, NoLineage, Freshest, Later, OldestValid
<1>4. /\ Carries(<<>>, <<>>, SampleOf, SampleSent)
      /\ Carries(<<>>, <<>>, CommandOf, CommandSent)
  BY EmptySeq DEF Carries
<1> QED
  BY <1>2, <1>3, <1>4
  DEF PlantInit, Init, InitialPlant, PlantInv, FfShadow, FmuShadow, StampsShadowFmu,
      RoutingsAgree

\* Nothing that the shadow is about moves when jobs are released.
LEMMA PlantWaits ==
  ASSUME PlantInv, UNCHANGED <<fmu, cart, scVars, estVars, bVars, ffVars, aggVars, caVars,
                               actVars>>
  PROVE  PlantInv'
<1>1. /\ UNCHANGED <<fmu, cart>>
      /\ UNCHANGED <<scReceiveAt, scRec, sensComp, sensOut, estComp, estOut, fbComp, fbOut>>
      /\ UNCHANGED <<ffCurAct, ffPubAct, aggComp, aggOut, caReceiveAt, caRec, actIn, actOut>>
  BY DEF scVars, estVars, bVars, ffVars, aggVars, caVars, actVars
<1>2. FfShadow'
  BY <1>1 DEF PlantInv, FfShadow
<1>3. StampsShadowFmu'
  BY <1>1 DEF PlantInv, FmuShadow, StampsShadowFmu
<1>4. FmuShadow'
  BY <1>1, <1>3 DEF PlantInv, FmuShadow
<1> QED
  BY <1>1, <1>2, <1>4 DEF PlantInv, RoutingsAgree

\* The plants follow the chain and do not influence it.
LEMMA PlantRunsChain == PlantSpec => Spec
<1>1. PlantInit => Init
  BY DEF PlantInit
<1>2. [PlantNext]_plantVars => [Next]_vars
  BY DEF PlantNext, PlantBeginTick, PlantEndTick, plantVars, Next
<1> QED
  BY <1>1, <1>2, PTL DEF PlantSpec, Spec

LEMMA PlantInvariant ==
  ASSUME FixedDelays, BuffersSuffice
  PROVE  PlantSpec => [](FlightInv /\ PlantInv)
<1>1. FlightInv /\ PlantInv /\ [PlantNext]_plantVars => PlantInv'
  <2> SUFFICES ASSUME FlightInv, PlantInv, [PlantNext]_plantVars PROVE PlantInv'
    OBVIOUS
  <2>1. CASE PlantBeginTick
    BY <2>1, PlantWaits DEF PlantBeginTick, BeginTick
  <2>2. CASE PlantEndTick
    BY <2>2, PlantEnd DEF PlantEndTick
  <2>3. CASE UNCHANGED plantVars
    BY <2>3, PlantWaits DEF plantVars, vars
  <2> QED
    BY <2>1, <2>2, <2>3 DEF PlantNext
<1> QED
  BY <1>1, PlantStart, PlantRunsChain, FlightInvariant, PTL DEF PlantSpec

-----------------------------------------------------------------------------
(* Theorems *)

\* FCHANNEL's staleness is that of the value the FMU has published: ffPubAct is its
\* activation tick on every run, whatever is killed, suppressed or delayed.
THEOREM StalenessExact == PlantSpec => []StalenessShadowsFmu
<1>1. PlantInit => FfShadow
  BY PlantStart DEF PlantInv
<1>2. PublicationInv /\ FfShadow /\ [PlantNext]_plantVars => FfShadow'
  <2> SUFFICES ASSUME PublicationInv, FfShadow, [PlantNext]_plantVars PROVE FfShadow'
    OBVIOUS
  <2>1. CASE PlantBeginTick
    BY <2>1 DEF PlantBeginTick, BeginTick, ffVars, FfShadow
  <2>2. CASE PlantEndTick
    BY <2>2, FeedforwardEnd DEF PlantEndTick
  <2>3. CASE UNCHANGED plantVars
    BY <2>3 DEF plantVars, vars, ffVars, FfShadow
  <2> QED
    BY <2>1, <2>2, <2>3 DEF PlantNext
<1>3. FfShadow => StalenessShadowsFmu
  BY DEF FfShadow, StalenessShadowsFmu
<1> QED
  BY <1>1, <1>2, <1>3, PlantRunsChain, PublicationInvariant, PTL DEF PlantSpec

\* With fixed delays that the buffers are sized for, no FMU buffer ever fills, so each
\* holds exactly the packets that the chain model has in flight.
THEOREM BuffersHold ==
  ASSUME FixedDelays, BuffersSuffice PROVE PlantSpec => []NoPacketDropped
<1>1. FlightInv /\ PlantInv => NoPacketDropped
  BY FlightFits DEF PlantInv, FmuShadow, Carries, NoPacketDropped
<1> QED
  BY <1>1, PlantInvariant, PTL

\* Then the chain model's stamps are those of the data in the FMU's registers, from the
\* sensor to the applied command.
THEOREM StampsExact ==
  ASSUME FixedDelays, BuffersSuffice PROVE PlantSpec => []StampsShadowFmu
<1>1. PlantInv => StampsShadowFmu
  BY DEF PlantInv, FmuShadow
<1> QED
  BY <1>1, PlantInvariant, PTL

\* And the cart-pole, which routes stage after stage, holds the same data in every
\* register as the FMU, which routes in two passes.
THEOREM RoutingsEquivalent ==
  ASSUME FixedDelays, BuffersSuffice PROVE PlantSpec => []RoutingsAgree
<1>1. PlantInv => RoutingsAgree
  BY DEF PlantInv
<1> QED
  BY <1>1, PlantInvariant, PTL
=============================================================================
