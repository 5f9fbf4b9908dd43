---------------------------- MODULE OracleProofs ----------------------------
(***************************************************************************)
(* Theorems about the predictions: the state that honest ones are made     *)
(* from, the fidelity gate, the search for the point of no return, and     *)
(* predictions as they age; and about what is measured with them. For      *)
(* every fleet, lap, latch history and deterministic plant.                *)
(***************************************************************************)
EXTENDS TrackProofs

-----------------------------------------------------------------------------
(* What the honest predictor sees *)

\* A rollout takes of the parameters the length of its steps and, once it recovers, the
\* authority; so the search may be on or off.
LEMMA HeldAlike ==
  ASSUME NEW x, NEW u, NEW at, NEW n, NEW ref, NEW p, NEW q, p.block = q.block
  PROVE  Held(x, u, at, n, ref, p) = Held(x, u, at, n, ref, q)
<1> DEFINE States(s, block) ==
      [k \in 0 .. n |-> IF k = 0 THEN x
                        ELSE BlockStep(s[k - 1], u, ref[at + (k - 1) * block], block)]
<1>1. \A s : States(s, p.block) = States(s, q.block)
  OBVIOUS
<1>2. (CHOOSE s : s = States(s, p.block)) = (CHOOSE s : s = States(s, q.block))
  BY <1>1
<1>3. ASSUME NEW r PROVE Held(x, u, at, n, ref, r) = CHOOSE s : s = States(s, r.block)
  BY DEF Held, Rollout, CommandIn
<1> QED
  BY <1>2, <1>3

\* The time to violation is that of the rollout of the held command.
LEMMA ViolationOf ==
  ASSUME NEW v, NEW out, NEW from, NEW p, NEW warm
  PROVE  PredictHeld(v, out, from, p, warm).ttv
           = FirstBreach(Held(out.x, out.u, from, p.horizon \div p.block, References(v), p), p)
<1>1. \A t, top, now, best : Verdict(t, top, now, best, p).ttv = t
  BY DEF Verdict
<1>2. \A t, now, best : PoleVerdict(t, now, best, p).ttv = t
  BY DEF PoleVerdict
<1>3. ASSUME NEW x, NEW u, NEW ref
      PROVE  /\ PredictHold(x, u, from, ref, p, warm).ttv
                  = FirstBreach(Held(x, u, from, p.horizon \div p.block, ref, p), p)
             /\ PoleHeld(x, u, from, ref, p).ttv
                  = FirstBreach(Held(x, u, from, p.horizon \div p.block, ref, p), p)
  <2>1. PICK h, ttv : /\ h = Held(x, u, from, p.horizon \div p.block, ref, p)
                      /\ ttv = FirstBreach(h, p)
    OBVIOUS
  <2>2. \E top, now, best :
          PredictHold(x, u, from, ref, p, warm) = Verdict(ttv, top, now, best, p)
    BY <2>1, Zenon DEF PredictHold
  <2>3. \E now, best : PoleHeld(x, u, from, ref, p) = PoleVerdict(ttv, now, best, p)
    BY <2>1, Zenon DEF PoleHeld
  <2> QED
    BY <1>1, <1>2, <2>1, <2>2, <2>3
<1> QED
  BY <1>3 DEF PredictHeld

\* The time to violation does not depend on whether the point of no return is searched, nor
\* on where that search starts.
LEMMA ViolationAlike ==
  ASSUME NEW v, NEW out, NEW from, NEW p, NEW q, NEW warm, NEW cold,
         p.block = q.block, p.horizon = q.horizon
  PROVE  PredictHeld(v, out, from, p, warm).ttv = PredictHeld(v, out, from, q, cold).ttv
<1>1. PICK n, h : /\ n = p.horizon \div p.block
                  /\ h = Held(out.x, out.u, from, n, References(v), p)
  OBVIOUS
<1>2. n = q.horizon \div q.block /\ h = Held(out.x, out.u, from, n, References(v), q)
  BY <1>1, HeldAlike
<1>3. FirstBreach(h, p) = FirstBreach(h, q)
  <2>1. {k * p.block : k \in {j \in DOMAIN h : Breached(h[j])}}
          = {k * q.block : k \in {j \in DOMAIN h : Breached(h[j])}}
    OBVIOUS
  <2> QED
    BY <2>1 DEF FirstBreach
<1>4. PredictHeld(v, out, from, p, warm).ttv = FirstBreach(h, p)
  BY <1>1, ViolationOf
<1>5. PredictHeld(v, out, from, q, cold).ttv = FirstBreach(h, q)
  BY <1>2, ViolationOf
<1> QED
  BY <1>3, <1>4, <1>5

\* A prediction is about the track, the fleet and the configuration only.
Violation(v, out, from) == PredictHeld(v, out, from, TtvOnly, -1).ttv

\* The tick whose output a prediction of tick now is made from.
SeenAt(now) == IF now < Q.staleness THEN 0 ELSE now - Q.staleness

(* The ring holds the outputs of the last ticks, as many as it has slots; every prediction
   was made from the output of the tick that it may know of. *)
RingHolds(ring, outputs, now) ==
  \A j \in Nat : j < now /\ now <= j + RingSize => ring[j % RingSize] = outputs[j + 1]

MadeFrom(v, h, outputs, now) ==
  /\ h.base \in Int /\ h.base < now
  /\ h.base >= 0 => h.ttv = Violation(v, outputs[SeenAt(h.base) + 1], h.base + 1)

HonestInv ==
  /\ conf \in DOMAIN Config /\ step \in Nat
  /\ \A v \in Car :
       /\ \E S : past[v] \in Seq(S)
       /\ Len(past[v]) = step
       /\ stateHist[v] = [k \in 0 .. RingSize - 1 |-> stateHist[v][k]]
       /\ Q.honest => RingHolds(stateHist[v], past[v], step)
       /\ MadeFrom(v, honest[v], past[v], step)

LEMMA PredictorType ==
  ASSUME conf \in DOMAIN Config
  PROVE  /\ Q.staleness \in Nat /\ RingSize \in Nat \ {0} /\ RingSize = Q.staleness + 1
         /\ Q.params \in PredictParams
<1>1. Q \in PlantConfiguration
  BY PredictingAssumption DEF Q
<1>2. Q.staleness \in Nat /\ Q.params \in PredictParams
  BY <1>1 DEF PlantConfiguration
<1> QED
  BY <1>2 DEF RingSize

\* The ring keeps what it has to, as another output is written.
LEMMA RingWritten ==
  ASSUME conf \in DOMAIN Config, NEW now \in Nat, NEW ring, NEW outputs, NEW S,
         outputs \in Seq(S), Len(outputs) = now, NEW out,
         ring = [k \in 0 .. RingSize - 1 |-> ring[k]], RingHolds(ring, outputs, now)
  PROVE  /\ RingHolds([ring EXCEPT ![now % RingSize] = out], Append(outputs, out), now + 1)
         /\ \A j \in 1 .. now : Append(outputs, out)[j] = outputs[j]
         /\ Append(outputs, out)[now + 1] = out
         /\ Len(Append(outputs, out)) = now + 1
         /\ Append(outputs, out) \in Seq(S \cup {out})
<1>1. PICK R : R = RingSize /\ R \in Nat \ {0}
  BY PredictorType
<1>2. outputs \in Seq(S \cup {out}) /\ out \in S \cup {out}
  OBVIOUS
<1>3. /\ \A j \in 1 .. now : Append(outputs, out)[j] = outputs[j]
      /\ Append(outputs, out)[now + 1] = out
      /\ Len(Append(outputs, out)) = now + 1
      /\ Append(outputs, out) \in Seq(S \cup {out})
  BY <1>2, AppendProperties
<1>4. PICK q2 \in Int, r2 \in 0 .. R - 1 : now = R * q2 + r2 /\ now % R = r2
  BY <1>1, Division
<1>5. ASSUME NEW j \in Nat, j < now + 1, now + 1 <= j + R
      PROVE  [ring EXCEPT ![r2] = out][j % R] = Append(outputs, out)[j + 1]
  <2>1. PICK q1 \in Int, r1 \in 0 .. R - 1 : j = R * q1 + r1 /\ j % R = r1
    BY <1>1, Division
  <2>2. CASE j = now
    BY <1>1, <1>3, <1>4, <2>2
  <2>3. CASE j # now
    <3>1. j < now /\ now <= j + R /\ j + 1 \in 1 .. now
      BY <1>1, <1>5, <2>3
    <3>2. r1 # r2
      <4> SUFFICES ASSUME r1 = r2 PROVE FALSE
        OBVIOUS
      <4>1. R * q1 < R * q2
        BY <1>1, <1>4, <2>1, <3>1
      <4>2. R * q1 + R <= R * q2
        BY <1>1, <4>1, Multiples
      <4>3. j + R <= now
        BY <1>1, <1>4, <2>1, <4>2
      <4> QED
        BY <1>1, <1>5, <4>3
    <3>3. ring[r1] = outputs[j + 1]
      BY <1>1, <2>1, <3>1 DEF RingHolds
    <3>4. [ring EXCEPT ![r2] = out][r1] = ring[r1]
      BY <1>1, <2>1, <3>2
    <3> QED
      BY <1>3, <2>1, <3>1, <3>3, <3>4
  <2> QED
    BY <2>2, <2>3
<1>6. RingHolds([ring EXCEPT ![now % RingSize] = out], Append(outputs, out), now + 1)
  BY <1>1, <1>4, <1>5 DEF RingHolds
<1> QED
  BY <1>3, <1>6

LEMMA SeenTick ==
  ASSUME conf \in DOMAIN Config, NEW now \in Nat
  PROVE  /\ SeenAt(now) = Max({0, now - Q.staleness})
         /\ SeenAt(now) \in Nat /\ SeenAt(now) <= now /\ now < SeenAt(now) + RingSize
<1>1. PICK s \in Nat : s = Q.staleness /\ RingSize = s + 1
  BY PredictorType
<1>2. Max({0, now - s}) = IF 0 < now - s THEN now - s ELSE 0
  <2>1. PICK d \in Int : d = now - s
    OBVIOUS
  <2>2. Max({0, d}) = IF 0 < d THEN d ELSE 0
    BY MaxOfTwo
  <2> QED
    BY <2>1, <2>2
<1> QED
  BY <1>1, <1>2 DEF SeenAt

\* An honest prediction, made in this tick or kept.
LEMMA HonestTick ==
  ASSUME HonestInv, PlantTick, conf' = conf, track' = track, offsets' = offsets,
         step' = step + 1
  PROVE  HonestInv'
<1>1. /\ conf \in DOMAIN Config /\ step \in Nat /\ This' = This /\ Car' = Car
      /\ Q' = Q /\ RingSize' = RingSize
  BY DEF HonestInv, This, Car, Q, RingSize
<1>2. PICK command \in [Car -> Commands] :
        LET o == [v \in Car |-> Moved(v, command[v])]
            ring == [v \in Car |-> [stateHist[v] EXCEPT ![step % RingSize] = o[v]]]
        IN /\ stateHist' = IF Q.honest THEN ring ELSE stateHist
           /\ honest' = [v \in Car |->
                IF step % Q.refresh = 0 /\ Q.honest
                  THEN Refreshed(v, honest[v], ring[v][DelayedSlot], step % Q.pnrRefresh = 0)
                  ELSE honest[v]]
           /\ past' = [v \in Car |-> Append(past[v], o[v])]
  BY DEF PlantTick
<1>3. \A v, o, from : Violation(v, o, from)' = Violation(v, o, from)
  BY <1>1 DEF Violation, PredictHeld, References, Reference, Disturbance, TtvOnly, Q, This
<1>4. ASSUME NEW v \in Car
      PROVE  /\ \E S : past'[v] \in Seq(S)
             /\ Len(past'[v]) = step + 1
             /\ stateHist'[v] = [k \in 0 .. RingSize - 1 |-> stateHist'[v][k]]
             /\ Q.honest => RingHolds(stateHist'[v], past'[v], step + 1)
             /\ MadeFrom(v, honest'[v], past'[v], step + 1)
  <2>1. PICK o, ring, old, now, seen :
          /\ o = Moved(v, command[v]) /\ old = past[v] /\ now = step
          /\ ring = [stateHist[v] EXCEPT ![now % RingSize] = o] /\ seen = SeenAt(now)
    OBVIOUS
  <2>2. /\ past'[v] = Append(old, o)
        /\ stateHist'[v] = IF Q.honest THEN ring ELSE stateHist[v]
        /\ \/ honest'[v] = honest[v]
           \/ /\ Q.honest
              /\ honest'[v] = Refreshed(v, honest[v], ring[DelayedSlot],
                                        step % Q.pnrRefresh = 0)
    <3> HIDE DEF Refreshed, Moved, DelayedSlot, Q, RingSize
    <3>1. past'[v] = Append(old, o)
      BY <1>2, <2>1
    <3>2. stateHist'[v] = IF Q.honest THEN ring ELSE stateHist[v]
      BY <1>2, <2>1
    <3>3. honest'[v] = IF step % Q.refresh = 0 /\ Q.honest
                         THEN Refreshed(v, honest[v], ring[DelayedSlot],
                                        step % Q.pnrRefresh = 0)
                         ELSE honest[v]
      BY <1>2, <2>1
    <3> QED
      BY <3>1, <3>2, <3>3
  <2>3. PICK S : old \in Seq(S)
    BY <2>1 DEF HonestInv
  <2>4. /\ Len(old) = now /\ now \in Nat
        /\ stateHist[v] = [k \in 0 .. RingSize - 1 |-> stateHist[v][k]]
        /\ Q.honest => RingHolds(stateHist[v], old, now)
        /\ MadeFrom(v, honest[v], old, now)
    BY <1>1, <2>1 DEF HonestInv
  <2>5. /\ \A j \in 1 .. now : Append(old, o)[j] = old[j]
        /\ Append(old, o)[now + 1] = o
        /\ Len(Append(old, o)) = now + 1
        /\ Append(old, o) \in Seq(S \cup {o})
    <3>1. PICK T : T = S \cup {o}
      OBVIOUS
    <3>2. old \in Seq(T) /\ o \in T
      BY <2>3, <3>1
    <3> QED
      BY <2>4, <3>1, <3>2, AppendProperties
  <2>6. Q.honest => RingHolds(ring, Append(old, o), now + 1)
    BY <1>1, <2>1, <2>3, <2>4, RingWritten
  <2>7. ring = [k \in 0 .. RingSize - 1 |-> ring[k]]
    BY <2>1, <2>4
  <2>8. seen \in Nat /\ seen <= now /\ now < seen + RingSize /\ DelayedSlot = seen % RingSize
    BY <1>1, <2>1, <2>4, SeenTick DEF DelayedSlot
  <2>9. CASE honest'[v] = honest[v]
    <3>1. PICK h : h = honest[v]
      OBVIOUS
    <3>2. ASSUME h.base >= 0
          PROVE  Append(old, o)[SeenAt(h.base) + 1] = old[SeenAt(h.base) + 1]
      <4>1. PICK b \in Nat : b = h.base /\ b < now
        BY <2>4, <3>1, <3>2 DEF MadeFrom
      <4>2. SeenAt(b) \in Nat /\ SeenAt(b) <= b
        BY <1>1, <4>1, SeenTick
      <4>3. SeenAt(b) + 1 \in 1 .. now
        BY <2>4, <4>1, <4>2
      <4> QED
        BY <2>5, <4>1, <4>3
    <3>3. MadeFrom(v, h, Append(old, o), now + 1)
      <4>1. h.base \in Int /\ h.base < now + 1
        BY <2>4, <3>1 DEF MadeFrom
      <4>2. h.base >= 0 => h.ttv = Violation(v, old[SeenAt(h.base) + 1], h.base + 1)
        BY <2>4, <3>1 DEF MadeFrom
      <4>3. h.base >= 0 => h.ttv = Violation(v, Append(old, o)[SeenAt(h.base) + 1], h.base + 1)
        BY <3>1, <3>2, <4>2
      <4> QED
        BY <4>1, <4>3 DEF MadeFrom
    <3> QED
      BY <2>1, <2>2, <2>4, <2>5, <2>6, <2>7, <2>9, <3>1, <3>3
  <2>10. CASE /\ Q.honest
              /\ honest'[v] = Refreshed(v, honest[v], ring[DelayedSlot],
                                        step % Q.pnrRefresh = 0)
    <3>1. PICK h, p, r, warm, from :
            /\ h = honest'[v] /\ r = Q.params /\ from = now + 1
            /\ p = [r EXCEPT !.computePnr = (step % Q.pnrRefresh = 0)]
            /\ warm = IF step % Q.pnrRefresh = 0 THEN WarmHint(honest[v]) ELSE -1
      OBVIOUS
    <3>2. h.base = now /\ h.ttv = PredictHeld(v, ring[DelayedSlot], from, p, warm).ttv
      BY <2>1, <2>10, <3>1 DEF Refreshed, Cached
    <3>3. ring[DelayedSlot] = Append(old, o)[seen + 1]
      <4>1. seen < now + 1 /\ now + 1 <= seen + RingSize
        BY <1>1, <2>4, <2>8, PredictorType
      <4> QED
        BY <2>6, <2>8, <2>10, <4>1 DEF RingHolds
    <3>4. r \in PredictParams /\ TtvOnly = [r EXCEPT !.computePnr = FALSE]
      BY <1>1, <3>1, PredictorType DEF TtvOnly
    <3>5. p.block = TtvOnly.block /\ p.horizon = TtvOnly.horizon
      <4>1. p.block = r.block /\ p.horizon = r.horizon
        BY <3>1, <3>4 DEF PredictParams
      <4>2. TtvOnly.block = r.block /\ TtvOnly.horizon = r.horizon
        BY <3>4 DEF PredictParams
      <4> QED
        BY <4>1, <4>2
    <3>6. PICK x, q : x = ring[DelayedSlot] /\ q = TtvOnly
      OBVIOUS
    <3>7. h.ttv = PredictHeld(v, x, from, q, -1).ttv
      BY <3>2, <3>5, <3>6, ViolationAlike
    <3>8. h.ttv = Violation(v, Append(old, o)[SeenAt(h.base) + 1], h.base + 1)
      BY <2>1, <3>1, <3>2, <3>3, <3>6, <3>7 DEF Violation
    <3>9. MadeFrom(v, h, Append(old, o), now + 1)
      <4>1. h.base \in Int /\ h.base < now + 1
        BY <2>4, <3>2
      <4> QED
        BY <3>8, <4>1 DEF MadeFrom
    <3>10. past'[v] = Append(old, o) /\ stateHist'[v] = ring /\ honest'[v] = h /\ now = step
      BY <2>1, <2>2, <2>10, <3>1
    <3>11. \E T : past'[v] \in Seq(T)
      BY <2>5, <3>10
    <3> QED
      BY <2>5, <2>6, <2>7, <3>9, <3>10, <3>11
  <2> QED
    BY <2>2, <2>9, <2>10
<1>5. \A v, h, o, n : MadeFrom(v, h, o, n)' = MadeFrom(v, h, o, n)
  BY <1>1, <1>3 DEF MadeFrom, SeenAt
<1> QED
  BY <1>1, <1>4, <1>5 DEF HonestInv, RingHolds

LEMMA HonestStart ==
  ASSUME Init, PlantInit
  PROVE  HonestInv
<1>1. conf \in DOMAIN Config /\ step = 0
  BY DEF Init
<1>2. ASSUME NEW v \in Car
      PROVE  /\ \E S : past[v] \in Seq(S)
             /\ Len(past[v]) = step
             /\ stateHist[v] = [k \in 0 .. RingSize - 1 |-> stateHist[v][k]]
             /\ RingHolds(stateHist[v], past[v], step)
             /\ MadeFrom(v, honest[v], past[v], step)
  <2>1. past[v] = <<>> /\ honest[v].base = -1
    BY DEF PlantInit, NoPrediction
  <2>2. past[v] \in Seq({}) /\ Len(past[v]) = 0
    BY <2>1
  <2>3. stateHist[v] = [k \in 0 .. RingSize - 1 |-> stateHist[v][k]]
    BY DEF PlantInit
  <2>4. RingHolds(stateHist[v], past[v], step)
    BY <1>1 DEF RingHolds
  <2>5. MadeFrom(v, honest[v], past[v], step)
    BY <1>1, <2>1 DEF MadeFrom
  <2> QED
    BY <1>1, <2>2, <2>3, <2>4, <2>5
<1> QED
  BY <1>1, <1>2 DEF HonestInv

\* Simulation::refreshHonestPredictions: the ring of delayed outputs has one slot more than
\* the staleness, so the slot read is that of exactly the staleness before (of the first
\* tick, when there is none so old), and every honest time to violation is that of the state
\* the cloud could know, whether or not the same refresh searched for the point of no return
\* and wherever that search started.
THEOREM HonestPredictions == HarnessSpec => []HonestSeesDelayed
<1>1. HarnessInit => HonestInv
  BY HonestStart DEF HarnessInit
<1>2. HonestInv /\ [HarnessTick]_harnessVars => HonestInv'
  <2> SUFFICES ASSUME HonestInv, [HarnessTick]_harnessVars PROVE HonestInv'
    OBVIOUS
  <2>1. CASE HarnessTick
    BY <2>1, HonestTick DEF HarnessTick, Tick, trackVars
  <2>2. CASE UNCHANGED harnessVars
    <3>1. /\ conf' = conf /\ track' = track /\ offsets' = offsets /\ step' = step
          /\ past' = past /\ stateHist' = stateHist /\ honest' = honest
      BY <2>2 DEF harnessVars, fleetTrackVars, trackVars, plantVars
    <3>2. This' = This /\ Car' = Car /\ Q' = Q /\ RingSize' = RingSize
      BY <3>1 DEF This, Car, Q, RingSize
    <3>3. \A v, o, from : Violation(v, o, from)' = Violation(v, o, from)
      BY <3>1, <3>2 DEF Violation, PredictHeld, References, Reference, Disturbance, TtvOnly,
         Q, This
    <3>4. \A v, h, o, n : MadeFrom(v, h, o, n)' = MadeFrom(v, h, o, n)
      BY <3>2, <3>3 DEF MadeFrom, SeenAt
    <3> QED
      BY <3>1, <3>2, <3>4 DEF HonestInv, RingHolds
  <2> QED
    BY <2>1, <2>2
<1>3. HonestInv => HonestSeesDelayed
  <2> SUFFICES ASSUME HonestInv, NEW v \in Car, honest[v].base >= 0
               PROVE  LET seen == past[v][Max({0, honest[v].base - Q.staleness}) + 1]
                      IN honest[v].ttv
                           = PredictHeld(v, seen, honest[v].base + 1, TtvOnly, -1).ttv
    BY DEF HonestSeesDelayed
  <2>1. PICK h, b : h = honest[v] /\ b = h.base
    OBVIOUS
  <2>2. /\ conf \in DOMAIN Config /\ b \in Nat
        /\ h.ttv = Violation(v, past[v][SeenAt(b) + 1], b + 1)
    <3>1. conf \in DOMAIN Config /\ MadeFrom(v, h, past[v], step)
      BY <2>1 DEF HonestInv
    <3>2. b \in Int /\ b >= 0
      BY <2>1, <3>1 DEF MadeFrom
    <3>3. h.ttv = Violation(v, past[v][SeenAt(b) + 1], b + 1)
      BY <2>1, <3>1, <3>2 DEF MadeFrom
    <3> QED
      BY <3>1, <3>2, <3>3
  <2>3. SeenAt(b) = Max({0, b - Q.staleness})
    BY <2>2, SeenTick
  <2> QED
    BY <2>1, <2>2, <2>3 DEF Violation
<1> QED
  BY <1>1, <1>2, <1>3, PTL DEF HarnessSpec

-----------------------------------------------------------------------------
(* The fidelity gate *)

\* A rollout step of one tick is one tick of the plant.
LEMMA OneTick ==
  ASSUME NEW x, NEW u, NEW r
  PROVE  BlockStep(x, u, r, 1) = Physics(x, u, r)
<1> DEFINE States(s) == [k \in 0 .. 1 |-> IF k = 0 THEN x ELSE Physics(s[k - 1], u, r)]
<1>1. PICK w : w = [k \in 0 .. 1 |-> IF k = 0 THEN x ELSE Physics(x, u, r)]
  OBVIOUS
<1>2. w = States(w)
  BY <1>1
<1>3. PICK c : c = CHOOSE s : s = States(s)
  OBVIOUS
<1>4. c = States(c)
  BY <1>2, <1>3
<1>5. c[0] = x /\ c[1] = Physics(c[0], u, r)
  BY <1>4
<1>6. BlockStep(x, u, r, 1) = c[1]
  BY <1>3 DEF BlockStep
<1> QED
  BY <1>5, <1>6

\* The states of a held command, step by step.
HeldStates(s, x, u, at, n, ref, p) ==
  s = [k \in 0 .. n |->
         IF k = 0 THEN x ELSE BlockStep(s[k - 1], u, ref[at + (k - 1) * p.block], p.block)]

LEMMA HeldDefined ==
  ASSUME NEW x, NEW u, NEW at, NEW n \in Nat, NEW ref, NEW p
  PROVE  HeldStates(Held(x, u, at, n, ref, p), x, u, at, n, ref, p)
<1> DEFINE Step(y, k) == BlockStep(y, u, ref[at + (k - 1) * p.block], p.block)
           States(s, m) == [k \in 0 .. m |-> IF k = 0 THEN x ELSE Step(s[k - 1], k)]
           Solved == {m \in Nat : \E s : s = States(s, m)}
<1>1. Held(x, u, at, n, ref, p) = CHOOSE s : s = States(s, n)
  BY DEF Held, Rollout, CommandIn
<1> HIDE DEF Step
<1>2. 0 \in Solved
  <2>1. PICK s : s = [k \in 0 .. 0 |-> x]
    OBVIOUS
  <2>2. s = States(s, 0)
    BY <2>1
  <2> QED
    BY <2>2
<1>3. ASSUME NEW j \in Nat, j \in Solved PROVE j + 1 \in Solved
  <2>1. PICK g : g = States(g, j)
    BY <1>3
  <2>2. PICK s : s = [k \in 0 .. j + 1 |-> IF k = j + 1 THEN Step(g[j], j + 1) ELSE g[k]]
    OBVIOUS
  <2>3. s[j + 1] = Step(g[j], j + 1) /\ \A k \in 0 .. j : s[k] = g[k]
    BY <2>2
  <2>4. ASSUME NEW k \in 0 .. j + 1
        PROVE  s[k] = IF k = 0 THEN x ELSE Step(s[k - 1], k)
    <3>1. CASE k = j + 1
      <4>1. k - 1 = j /\ j \in 0 .. j /\ k # 0
        BY <3>1
      <4>2. s[j] = g[j]
        BY <2>3, <4>1
      <4> QED
        BY <2>3, <3>1, <4>1, <4>2
    <3>2. CASE k = 0
      BY <2>1, <2>3, <3>2
    <3>3. CASE k \in 1 .. j
      <4>1. k - 1 \in 0 .. j /\ k \in 0 .. j /\ k # 0
        BY <3>3
      <4>2. g[k] = Step(g[k - 1], k)
        BY <2>1, <4>1
      <4> QED
        BY <2>3, <4>1, <4>2
    <3> QED
      BY <3>1, <3>2, <3>3
  <2>5. s = States(s, j + 1)
    BY <2>2, <2>4
  <2> QED
    BY <2>5
<1>4. n \in Solved
  <2> HIDE DEF Solved
  <2> QED
    BY <1>2, <1>3, StepByStep
<1>5. PICK h : h = CHOOSE s : s = States(s, n)
  OBVIOUS
<1>6. h = States(h, n)
  BY <1>4, <1>5
<1> QED
  BY <1>1, <1>5, <1>6 DEF Step, HeldStates

\* A tick-exact rollout of a held command steps like the plant.
LEMMA HeldSteps ==
  ASSUME NEW x, NEW u, NEW at \in Nat, NEW n \in Nat, NEW ref, NEW p, p.block = 1
  PROVE  LET s == Held(x, u, at, n, ref, p)
         IN s[0] = x /\ \A k \in 1 .. n : s[k] = Physics(s[k - 1], u, ref[at + (k - 1)])
<1>1. PICK s : s = Held(x, u, at, n, ref, p)
  OBVIOUS
<1>2. HeldStates(s, x, u, at, n, ref, p)
  BY <1>1, HeldDefined
<1>3. s[0] = x
  BY <1>2 DEF HeldStates
<1>4. ASSUME NEW k \in 1 .. n PROVE s[k] = Physics(s[k - 1], u, ref[at + (k - 1)])
  <2>1. k \in 0 .. n /\ k # 0 /\ (k - 1) * p.block = k - 1
    OBVIOUS
  <2>2. s[k] = BlockStep(s[k - 1], u, ref[at + (k - 1)], 1)
    BY <1>2, <2>1 DEF HeldStates
  <2> QED
    BY <2>2, OneTick
<1> QED
  BY <1>1, <1>3, <1>4

\* What a car that was at x in tick at, just before a command was latched, goes through
\* while it holds u.
Follow(v, x, u, at) == Held(x, u, at + 1, Q.gateHorizon, References(v), GateParams)

(* While the command that the gate rolled out is held, the car is where the rollout has it,
   and the gate has found no deviation. *)
GateFollows(v, g, car, now) ==
  /\ g.madeAt \in Int /\ g.madeAt < now
  /\ g.madeAt >= 0 =>
       \E x : LET path == Follow(v, x, car.u, g.madeAt)
              IN /\ g.error = [k \in 0 .. Q.gateHorizon |-> ErrorOf(path[k])]
                 /\ \A k \in 0 .. Q.gateHorizon : now - 1 = g.madeAt + k => car.x = path[k]

GateInv(State) ==
  /\ conf \in DOMAIN Config /\ step \in Nat
  /\ \A v \in Car :
       /\ plant[v].x \in State
       /\ gate[v] = [madeAt |-> gate[v].madeAt, error |-> gate[v].error, deviation |-> 0]
       /\ (Q.validate /\ Q.plant = "lateral") => GateFollows(v, gate[v], plant[v], step)

LEMMA GateType ==
  ASSUME conf \in DOMAIN Config
  PROVE  Q.gateHorizon \in Nat /\ GateParams.block = 1 /\ GateParams.horizon = Q.gateHorizon
<1>1. Q \in PlantConfiguration
  BY PredictingAssumption DEF Q
<1>2. PICK r \in PredictParams : r = Q.params
  BY <1>1 DEF PlantConfiguration
<1>3. Q.gateHorizon \in Nat
  BY <1>1 DEF PlantConfiguration
<1>4. GateParams = [r EXCEPT !.horizon = Q.gateHorizon, !.block = 1, !.computePnr = FALSE]
  BY <1>2 DEF GateParams
<1> QED
  BY <1>2, <1>3, <1>4 DEF PredictParams

\* The car moves on as the rollout does.
LEMMA GateMoves ==
  ASSUME conf \in DOMAIN Config, NEW v, NEW g, NEW car, NEW now \in Nat,
         GateFollows(v, g, car, now),
         NEW x2, x2 = Physics(car.x, car.u, References(v)[now])
  PROVE  /\ (g.madeAt >= 0 /\ now - g.madeAt \in DOMAIN g.error) =>
              g.error[now - g.madeAt] = ErrorOf(x2)
         /\ GateFollows(v, g, [x |-> x2, u |-> car.u], now + 1)
<1>1. PICK H, u, ref : H = Q.gateHorizon /\ H \in Nat /\ u = car.u /\ ref = References(v)
  BY GateType
<1>2. g.madeAt \in Int /\ g.madeAt < now
  BY DEF GateFollows
<1>3. CASE g.madeAt < 0
  <2>1. ~(g.madeAt >= 0) /\ g.madeAt < now + 1
    BY <1>2, <1>3
  <2> QED
    BY <1>2, <2>1 DEF GateFollows
<1>4. CASE g.madeAt >= 0
  <2>1. PICK x : LET path == Follow(v, x, u, g.madeAt)
                 IN /\ g.error = [k \in 0 .. H |-> ErrorOf(path[k])]
                    /\ \A k \in 0 .. H : now - 1 = g.madeAt + k => car.x = path[k]
    BY <1>1, <1>4 DEF GateFollows
  <2>2. PICK made \in Nat, at \in Nat : made = g.madeAt /\ at = made + 1
    BY <1>2, <1>4
  <2>3. PICK p, path : p = GateParams /\ path = Held(x, u, at, H, ref, p)
    OBVIOUS
  <2>4. /\ g.error = [k \in 0 .. H |-> ErrorOf(path[k])]
        /\ \A k \in 0 .. H : now - 1 = made + k => car.x = path[k]
    BY <1>1, <2>1, <2>2, <2>3 DEF Follow
  <2>5. \A k \in 1 .. H : path[k] = Physics(path[k - 1], u, ref[at + (k - 1)])
    BY <1>1, <2>2, <2>3, GateType, HeldSteps
  <2>6. ASSUME NEW k \in 0 .. H, now = made + k PROVE x2 = path[k]
    <3>1. k \in 1 .. H /\ k - 1 \in 0 .. H /\ now - 1 = made + (k - 1) /\ at + (k - 1) = now
      BY <1>1, <1>2, <2>2, <2>6
    <3>2. car.x = path[k - 1]
      BY <2>4, <3>1
    <3>3. path[k] = Physics(path[k - 1], u, ref[now])
      BY <2>5, <3>1
    <3> QED
      BY <1>1, <3>2, <3>3
  <2>7. ASSUME now - g.madeAt \in DOMAIN g.error PROVE g.error[now - g.madeAt] = ErrorOf(x2)
    <3>1. PICK k \in 0 .. H : k = now - g.madeAt /\ now = made + k
      BY <1>1, <2>2, <2>4, <2>7
    <3>2. g.error[k] = ErrorOf(x2)
      BY <2>4, <2>6, <3>1
    <3> QED
      BY <3>1, <3>2
  <2>8. GateFollows(v, g, [x |-> x2, u |-> car.u], now + 1)
    <3>1. PICK next : next = [x |-> x2, u |-> u]
      OBVIOUS
    <3>2. path = Follow(v, x, next.u, g.madeAt)
      BY <1>1, <2>2, <2>3, <3>1 DEF Follow
    <3>3. \A k \in 0 .. H : (now + 1) - 1 = g.madeAt + k => next.x = path[k]
      BY <2>2, <2>6, <3>1
    <3>4. g.madeAt < now + 1
      BY <1>2
    <3>5. GateFollows(v, g, next, now + 1)
      BY <1>1, <1>2, <2>4, <3>2, <3>3, <3>4 DEF GateFollows
    <3> QED
      BY <1>1, <3>1, <3>5
  <2> QED
    BY <2>7, <2>8
<1> QED
  BY <1>2, <1>3, <1>4

\* A fresh command, and the rollout of it.
LEMMA GateRolls ==
  ASSUME conf \in DOMAIN Config, step \in Nat, NEW v, NEW car, NEW d
  PROVE  GateFollows(v, [madeAt |-> step, error |-> HeldErrors(v, car), deviation |-> d],
                     car, step + 1)
<1>1. PICK H, path, at, p, ref :
        /\ H = Q.gateHorizon /\ H \in Nat /\ at = step + 1 /\ at \in Nat /\ p = GateParams
        /\ ref = References(v) /\ path = Held(car.x, car.u, at, H, ref, p)
  BY GateType
<1>2. path[0] = car.x
  BY <1>1, GateType, HeldSteps
<1>3. HeldErrors(v, car) = [k \in 0 .. H |-> ErrorOf(path[k])]
  BY <1>1, GateType DEF HeldErrors
<1>4. path = Follow(v, car.x, car.u, step)
  BY <1>1 DEF Follow
<1>5. \A k \in 0 .. H : (step + 1) - 1 = step + k => car.x = path[k]
  BY <1>1, <1>2
<1>6. PICK g : g = [madeAt |-> step, error |-> HeldErrors(v, car), deviation |-> d]
  OBVIOUS
<1>7. /\ g.madeAt = step /\ g.madeAt \in Int /\ g.madeAt < step + 1
      /\ g.error = [k \in 0 .. H |-> ErrorOf(path[k])]
  BY <1>3, <1>6
<1>8. GateFollows(v, g, car, step + 1)
  BY <1>1, <1>4, <1>5, <1>7 DEF GateFollows
<1> QED
  BY <1>6, <1>8

\* The states that a plant goes through, with errors that are numbers.
Dynamics(State) ==
  /\ AtRest \in State
  /\ \A x \in State : ErrorOf(x) \in Int
  /\ \A x \in State : \A u, r : Physics(x, u, r) \in State

LEMMA GateTick ==
  ASSUME NEW State, Dynamics(State), GateInv(State), PlantTick,
         conf' = conf, track' = track, offsets' = offsets, step' = step + 1
  PROVE  GateInv(State)'
<1>1. /\ conf \in DOMAIN Config /\ step \in Nat /\ This' = This /\ Car' = Car /\ Q' = Q
  BY DEF GateInv, This, Car, Q
<1>2. PICK command \in [Car -> Commands] :
        LET o == [v \in Car |-> Moved(v, command[v])]
        IN /\ plant' = o
           /\ gate' = [v \in Car |-> Validated(v, gate[v], o[v], command[v] # {})]
  BY DEF PlantTick
<1>3. \A v, g, c, n : GateFollows(v, g, c, n)' = GateFollows(v, g, c, n)
  BY <1>1 DEF GateFollows, Follow, References, Reference, Disturbance, GateParams, Q, This
<1>4. ASSUME NEW v \in Car
      PROVE  /\ plant'[v].x \in State
             /\ gate'[v] = [madeAt |-> gate'[v].madeAt, error |-> gate'[v].error,
                            deviation |-> 0]
             /\ (Q.validate /\ Q.plant = "lateral") =>
                  GateFollows(v, gate'[v], plant'[v], step + 1)
  <2>1. PICK o, g, car, fresh, now :
          /\ o = Moved(v, command[v]) /\ g = gate[v] /\ car = plant[v] /\ now = step
          /\ fresh \in BOOLEAN /\ (fresh <=> command[v] # {})
    OBVIOUS
  <2>2. plant'[v] = o /\ gate'[v] = Validated(v, g, o, fresh)
    <3> HIDE DEF Moved, Validated
    <3>1. plant'[v] = o
      BY <1>2, <2>1
    <3>2. gate'[v] = Validated(v, gate[v], o, command[v] # {})
      BY <1>2, <2>1
    <3>3. (command[v] # {}) = fresh
      BY <2>1
    <3> QED
      BY <2>1, <3>1, <3>2, <3>3
  <2>3. /\ car.x \in State /\ g = [madeAt |-> g.madeAt, error |-> g.error, deviation |-> 0]
        /\ (Q.validate /\ Q.plant = "lateral") => GateFollows(v, g, car, now)
    BY <2>1 DEF GateInv
  <2>4. /\ o.x = Physics(car.x, car.u, References(v)[now]) /\ o.x \in State
        /\ ~fresh => o.u = car.u
        /\ o = [x |-> o.x, u |-> o.u]
    <3>1. References(v)[now] = Reference(v, now)
      BY <1>1, <2>1 DEF References
    <3> QED
      BY <2>1, <2>3, <3>1 DEF Moved, Dynamics
  <2>5. CASE ~Q.validate \/ Q.plant = "pole"
    <3>1. gate'[v] = g
      BY <2>2, <2>5 DEF Validated
    <3> QED
      BY <2>2, <2>3, <2>4, <2>5, <3>1
  <2>6. CASE ~(~Q.validate \/ Q.plant = "pole")
    <3>1. GateFollows(v, g, car, now)
      <4>1. Q \in PlantConfiguration
        BY <1>1, PredictingAssumption DEF Q
      <4>2. Q.plant \in {"lateral", "pole"}
        BY <4>1 DEF PlantConfiguration
      <4> QED
        BY <2>3, <2>6, <4>2
    <3>2. PICK e \in Int : e = ErrorOf(o.x)
      BY <2>4 DEF Dynamics
    <3>3. /\ (g.madeAt >= 0 /\ now - g.madeAt \in DOMAIN g.error) =>
               g.error[now - g.madeAt] = e
          /\ GateFollows(v, g, [x |-> o.x, u |-> car.u], now + 1)
      <4>1. PICK x2 : x2 = o.x
        OBVIOUS
      <4>2. x2 = Physics(car.x, car.u, References(v)[now]) /\ now \in Nat
        BY <1>1, <2>1, <2>4, <4>1
      <4>3. /\ (g.madeAt >= 0 /\ now - g.madeAt \in DOMAIN g.error) =>
                 g.error[now - g.madeAt] = ErrorOf(x2)
            /\ GateFollows(v, g, [x |-> x2, u |-> car.u], now + 1)
        BY <1>1, <3>1, <4>2, GateMoves
      <4> QED
        BY <3>2, <4>1, <4>3
    <3>4. Max({0, Magnitude(e - e)}) = 0
      <4>1. Magnitude(e - e) = 0
        BY DEF Magnitude
      <4>2. Max({0, 0}) = 0
        BY MaxOfTwo
      <4> QED
        BY <4>1, <4>2
    <3>5. PICK d : d = IF g.madeAt >= 0 /\ now - g.madeAt \in DOMAIN g.error
                         THEN Max({g.deviation, Magnitude(e - g.error[now - g.madeAt])})
                         ELSE g.deviation
      OBVIOUS
    <3>6. d = 0
      BY <2>3, <3>3, <3>4, <3>5
    <3>7. gate'[v] = IF fresh THEN [madeAt |-> now, error |-> HeldErrors(v, o), deviation |-> d]
                     ELSE [g EXCEPT !.deviation = d]
      BY <2>1, <2>2, <2>6, <3>2, <3>5 DEF Validated
    <3>8. CASE fresh
      <4>1. GateFollows(v, [madeAt |-> step, error |-> HeldErrors(v, o), deviation |-> d],
                        o, step + 1)
        BY <1>1, GateRolls
      <4> QED
        BY <2>1, <2>2, <2>4, <3>6, <3>7, <3>8, <4>1
    <3>9. CASE ~fresh
      <4>1. gate'[v] = g
        BY <2>3, <3>6, <3>7, <3>9
      <4>2. o = [x |-> o.x, u |-> car.u]
        BY <2>4, <3>9
      <4> QED
        BY <2>1, <2>2, <2>3, <2>4, <3>3, <4>1, <4>2
    <3> QED
      BY <2>1, <3>8, <3>9
  <2> QED
    BY <2>5, <2>6
<1> QED
  BY <1>1, <1>3, <1>4 DEF GateInv

LEMMA GateStart ==
  ASSUME NEW State, Dynamics(State), Init, PlantInit
  PROVE  GateInv(State)
<1>1. conf \in DOMAIN Config /\ step = 0
  BY DEF Init
<1>2. \A v \in Car : plant[v] = [x |-> AtRest, u |-> 0] /\ gate[v] = NoGate
  BY DEF PlantInit
<1>3. NoGate = [madeAt |-> -1, error |-> <<>>, deviation |-> 0]
  BY DEF NoGate
<1>4. \A v \in Car : GateFollows(v, gate[v], plant[v], step)
  BY <1>1, <1>2, <1>3 DEF GateFollows
<1> QED
  BY <1>1, <1>2, <1>3, <1>4 DEF GateInv, Dynamics

\* Simulation::validatePredictions: while a command is held, a tick-exact rollout of it and
\* the plant itself go through the same errors, so the gate never finds a deviation; for any
\* deterministic dynamics, any lap and any times at which commands are latched, a latch in
\* the very tick that is compared included.
THEOREM GateExact ==
  ASSUME NEW State, Dynamics(State) PROVE HarnessSpec => []FidelityExact
<1>1. HarnessInit => GateInv(State)
  BY GateStart DEF HarnessInit
<1>2. GateInv(State) /\ [HarnessTick]_harnessVars => GateInv(State)'
  <2> SUFFICES ASSUME GateInv(State), [HarnessTick]_harnessVars PROVE GateInv(State)'
    OBVIOUS
  <2>1. CASE HarnessTick
    BY <2>1, GateTick DEF HarnessTick, Tick, trackVars
  <2>2. CASE UNCHANGED harnessVars
    <3>1. /\ conf' = conf /\ track' = track /\ offsets' = offsets /\ step' = step
          /\ plant' = plant /\ gate' = gate
      BY <2>2 DEF harnessVars, fleetTrackVars, trackVars, plantVars
    <3>2. This' = This /\ Car' = Car /\ Q' = Q
      BY <3>1 DEF This, Car, Q
    <3>3. \A v, g, c, n : GateFollows(v, g, c, n)' = GateFollows(v, g, c, n)
      BY <3>1, <3>2 DEF GateFollows, Follow, References, Reference, Disturbance, GateParams,
         Q, This
    <3> QED
      BY <3>1, <3>2, <3>3 DEF GateInv
  <2> QED
    BY <2>1, <2>2
<1>3. GateInv(State) => FidelityExact
  <2> SUFFICES ASSUME GateInv(State), NEW v \in Car PROVE gate[v].deviation = 0
    BY DEF FidelityExact
  <2>1. PICK g : g = gate[v]
    OBVIOUS
  <2>2. g = [madeAt |-> g.madeAt, error |-> g.error, deviation |-> 0]
    BY <2>1 DEF GateInv
  <2> QED
    BY <2>1, <2>2
<1> QED
  BY <1>1, <1>2, <1>3, PTL DEF HarnessSpec

-----------------------------------------------------------------------------
(* The search for the point of no return *)

\* The gallop goes from a verified start to one whose next is known to fail, or to the top.
LEMMA GallopFinds ==
  ASSUME NEW top \in Nat, NEW h \in 0 .. top, NEW ok, ok[h]
  PROVE  LET b == Gallop(h, top, ok)
         IN /\ b.lo \in 0 .. top /\ ok[b.lo]
            /\ b.bad = -1 => b.lo = top
            /\ b.bad # -1 => b.bad \in b.lo + 1 .. top /\ ~ok[b.bad]
            /\ b = [lo |-> b.lo, bad |-> b.bad]
<1> DEFINE Probe(b) == Min({top, b.lo + b.stride})
           Next(b) == IF b.lo >= top \/ b.bad >= 0 THEN b
                      ELSE IF ok[Probe(b)] THEN [b EXCEPT !.lo = Probe(b), !.stride = 2 * @]
                      ELSE [b EXCEPT !.bad = Probe(b)]
           T == [lo : Nat, bad : Int, stride : Nat \ {0}]
           Start == [lo |-> h, bad |-> -1, stride |-> 1]
           Probes(g) == [i \in 0 .. top |-> IF i = 0 THEN Start ELSE Next(g[i - 1])]
<1>1. ASSUME NEW b \in T
      PROVE  /\ Probe(b) = IF top < b.lo + b.stride THEN top ELSE b.lo + b.stride
             /\ Probe(b) \in Nat
  <2>1. PICK c \in Int : c = b.lo + b.stride /\ c \in Nat
    OBVIOUS
  <2>2. Min({top, c}) = IF top < c THEN top ELSE c
    BY MinOfTwo
  <2> QED
    BY <2>1, <2>2
<1>2. ASSUME NEW b \in T PROVE Next(b) \in T
  <2> DEFINE m == Probe(b)
  <2>1. m \in Nat
    BY <1>1
  <2> HIDE DEF m, T
  <2>2. PICK d \in Nat \ {0} : d = 2 * b.stride
    <3>1. 2 * b.stride \in Nat \ {0}
      BY DEF T
    <3> QED
      BY <3>1
  <2>3. [b EXCEPT !.lo = m, !.stride = d] \in T
    BY <2>1, <2>2 DEF T
  <2>5. [b EXCEPT !.bad = m] \in T
    BY <2>1, m \in Int DEF T
  <2>4. [b EXCEPT !.lo = m, !.stride = 2 * @] = [b EXCEPT !.lo = m, !.stride = d]
    BY <2>2 DEF T
  <2> QED
    BY <2>3, <2>4, <2>5 DEF m
<1>3. Start \in T
  OBVIOUS
<1> HIDE DEF T, Start, Probe, Next
<1>4. \E s : s = Probes(s) /\ s \in [0 .. top -> T]
  <2>1. PICK F : F = [i \in Nat |-> [b \in T |-> Next(b)]]
    OBVIOUS
  <2>2. \A i \in Nat : \A b \in T : F[i][b] = Next(b)
    BY <2>1
  <2>6. StaysIn(F, T)
    BY <1>2, <2>2 DEF StaysIn
  <2>3. PICK s : StepsOf(s, T, Start, F, top)
    BY <1>3, <2>6, RecursionDefines
  <2>4. \A i \in 1 .. top : s[i] = Next(s[i - 1])
    BY <2>2, <2>3 DEF StepsOf
  <2>5. s = Probes(s)
    BY <2>3, <2>4 DEF StepsOf
  <2> QED
    BY <2>3, <2>5 DEF StepsOf
<1>5. PICK g : g = CHOOSE s : s = Probes(s)
  OBVIOUS
<1>6. g = Probes(g)
  BY <1>4, <1>5
<1>7. Gallop(h, top, ok) = [lo |-> g[top].lo, bad |-> g[top].bad]
  BY <1>5 DEF Gallop, Start, Probe, Next
<1> DEFINE Good(b, i) == /\ b \in T /\ b.lo <= top /\ ok[b.lo]
                         /\ b.bad = -1 => b.lo = top \/ b.lo >= i
                         /\ b.bad # -1 => b.bad \in b.lo + 1 .. top /\ ~ok[b.bad]
           G == {i \in Nat : i <= top => Good(g[i], i)}
<1>8. Good(Start, 0)
  BY DEF Start, T
<1>9. ASSUME NEW b, NEW i \in Nat, Good(b, i), i < top PROVE Good(Next(b), i + 1)
  <2>1. b.lo \in Nat /\ b.bad \in Int /\ b.stride \in Nat \ {0} /\ b.lo <= top /\ b \in T
    BY <1>9 DEF T
  <2>2. CASE b.lo >= top \/ b.bad >= 0
    <3>1. Next(b) = b
      BY <2>2 DEF Next
    <3>2. b.bad = -1 => b.lo = top
      BY <2>1, <2>2
    <3> QED
      BY <1>9, <3>1, <3>2
  <2>3. CASE ~(b.lo >= top \/ b.bad >= 0)
    <3> DEFINE m == Probe(b)
    <3>1. m = (IF top < b.lo + b.stride THEN top ELSE b.lo + b.stride) /\ m \in Nat
      BY <1>1, <2>1
    <3>2. m <= top /\ b.lo + 1 <= m
      BY <2>1, <2>3, <3>1
    <3>3. b.bad = -1
      BY <1>9, <2>1, <2>3
    <3> HIDE DEF m
    <3>4. CASE ok[m]
      <4>1. Next(b) = [b EXCEPT !.lo = m, !.stride = 2 * @]
        BY <2>3, <3>4 DEF m, Next
      <4>2. Next(b).lo = m /\ Next(b).bad = -1
        BY <2>1, <3>3, <4>1 DEF T
      <4>3. Next(b) \in T
        BY <1>2, <2>1
      <4>4. m = top \/ m >= i + 1
        BY <1>9, <2>1, <2>3, <3>1, <3>2, <3>3
      <4> QED
        BY <3>1, <3>2, <3>4, <4>2, <4>3, <4>4
    <3>5. CASE ~ok[m]
      <4>1. Next(b) = [b EXCEPT !.bad = m]
        BY <2>3, <3>5 DEF m, Next
      <4>2. Next(b).lo = b.lo /\ Next(b).bad = m
        BY <2>1, <4>1 DEF T
      <4>3. Next(b) \in T
        BY <1>2, <2>1
      <4> QED
        BY <1>9, <2>1, <3>1, <3>2, <3>5, <4>2, <4>3
    <3> QED
      BY <3>4, <3>5
  <2> QED
    BY <2>2, <2>3
<1>10. g[0] = Start /\ \A i \in 1 .. top : g[i] = Next(g[i - 1])
  BY <1>6
<1> HIDE DEF Good
<1>11. 0 \in G
  BY <1>8, <1>10
<1>12. ASSUME NEW i \in Nat, i \in G PROVE i + 1 \in G
  <2> SUFFICES ASSUME i + 1 <= top PROVE Good(g[i + 1], i + 1)
    OBVIOUS
  <2>1. Good(g[i], i)
    BY <1>12
  <2>2. i + 1 \in 1 .. top /\ g[(i + 1) - 1] = g[i]
    OBVIOUS
  <2>3. g[i + 1] = Next(g[i])
    BY <1>10, <2>2
  <2> QED
    BY <1>9, <2>1, <2>3
<1>13. top \in G
  <2> HIDE DEF G
  <2> QED
    BY <1>11, <1>12, StepByStep
<1>14. PICK c : c = g[top] /\ Good(c, top)
  BY <1>13
<1> QED
  BY <1>7, <1>14 DEF Good, T

\* Between a success and a failure, halving finds a success whose next fails.
LEMMA BisectFinds ==
  ASSUME NEW lo \in Nat, NEW bad \in Nat, lo < bad, NEW ok, ok[lo], ~ok[bad]
  PROVE  LET r == Bisect([lo |-> lo, bad |-> bad], ok)
         IN r \in lo .. bad - 1 /\ ok[r] /\ ~ok[r + 1]
<1> DEFINE Mid(c) == c.lo + (c.bad - c.lo) \div 2
           Next(c) == IF c.bad - c.lo <= 1 THEN c
                      ELSE IF ok[Mid(c)] THEN [c EXCEPT !.lo = Mid(c)]
                      ELSE [c EXCEPT !.bad = Mid(c)]
           T == [lo : Int, bad : Int]
           Start == [lo |-> lo, bad |-> bad]
           Halvings(b) == [n \in 0 .. bad |-> IF n = 0 THEN Start ELSE Next(b[n - 1])]
<1>1. ASSUME NEW c \in T
      PROVE  /\ Mid(c) \in Int
             /\ c.bad - c.lo > 1 =>
                  /\ c.lo < Mid(c) /\ Mid(c) < c.bad
  <2>1. PICK d \in Int : d = c.bad - c.lo
    OBVIOUS
  <2> QED
    BY <2>1
<1>2. ASSUME NEW c \in T PROVE Next(c) \in T
  <2> DEFINE m == Mid(c)
  <2>1. m \in Int
    BY <1>1
  <2> HIDE DEF m
  <2>2. [c EXCEPT !.lo = m] \in T /\ [c EXCEPT !.bad = m] \in T
    BY <2>1
  <2> QED
    BY <2>2 DEF m
<1>3. Start \in T
  OBVIOUS
<1> HIDE DEF T, Start, Mid, Next
<1>4. \E b : b = Halvings(b)
  <2>1. PICK F : F = [n \in Nat |-> [c \in T |-> Next(c)]]
    OBVIOUS
  <2>2. \A n \in Nat : \A c \in T : F[n][c] = Next(c)
    BY <2>1
  <2>3. StaysIn(F, T)
    BY <1>2, <2>2 DEF StaysIn
  <2>4. PICK b : StepsOf(b, T, Start, F, bad)
    BY <1>3, <2>3, RecursionDefines
  <2>5. \A n \in 1 .. bad : b[n] = Next(b[n - 1])
    BY <2>2, <2>4 DEF StepsOf
  <2>6. b = Halvings(b)
    BY <2>4, <2>5 DEF StepsOf
  <2> QED
    BY <2>6
<1>5. PICK b : b = CHOOSE s : s = Halvings(s)
  OBVIOUS
<1>6. b = Halvings(b)
  BY <1>4, <1>5
<1>7. Bisect(Start, ok) = b[bad].lo
  <2>1. Start.bad = bad
    BY DEF Start
  <2> QED
    BY <1>5, <2>1 DEF Bisect, Mid, Next
<1> DEFINE Good(c, n) == /\ c \in T /\ lo <= c.lo /\ c.lo < c.bad /\ c.bad <= bad
                         /\ ok[c.lo] /\ ~ok[c.bad]
                         /\ c.bad - c.lo <= 1 \/ c.bad - c.lo <= bad - n
           G == {n \in Nat : n <= bad => Good(b[n], n)}
<1>8. Good(Start, 0)
  BY DEF Start, T
<1>9. ASSUME NEW c, NEW n \in Nat, Good(c, n) PROVE Good(Next(c), n + 1)
  <2>1. c.lo \in Int /\ c.bad \in Int /\ c \in T
    BY <1>9 DEF T
  <2>2. CASE c.bad - c.lo <= 1
    <3>1. Next(c) = c
      BY <2>2 DEF Next
    <3> QED
      BY <1>9, <2>1, <2>2, <3>1
  <2>3. CASE ~(c.bad - c.lo <= 1)
    <3>1. PICK m \in Int : m = Mid(c) /\ c.lo < m /\ m < c.bad
      BY <1>1, <2>1, <2>3
    <3>2. Next(c) \in T
      BY <1>2, <2>1
    <3>3. CASE ok[m]
      <4>1. Next(c).lo = m /\ Next(c).bad = c.bad
        BY <2>1, <2>3, <3>1, <3>3 DEF Next, T
      <4> QED
        BY <1>9, <2>1, <2>3, <3>1, <3>2, <3>3, <4>1
    <3>4. CASE ~ok[m]
      <4>1. Next(c).lo = c.lo /\ Next(c).bad = m
        BY <2>1, <2>3, <3>1, <3>4 DEF Next, T
      <4> QED
        BY <1>9, <2>1, <2>3, <3>1, <3>2, <3>4, <4>1
    <3> QED
      BY <3>3, <3>4
  <2> QED
    BY <2>2, <2>3
<1>10. b[0] = Start /\ \A n \in 1 .. bad : b[n] = Next(b[n - 1])
  BY <1>6
<1> HIDE DEF Good
<1>11. 0 \in G
  BY <1>8, <1>10
<1>12. ASSUME NEW n \in Nat, n \in G PROVE n + 1 \in G
  <2> SUFFICES ASSUME n + 1 <= bad PROVE Good(b[n + 1], n + 1)
    OBVIOUS
  <2>1. Good(b[n], n)
    BY <1>12
  <2>2. n + 1 \in 1 .. bad /\ b[(n + 1) - 1] = b[n]
    OBVIOUS
  <2>3. b[n + 1] = Next(b[n])
    BY <1>10, <2>2
  <2> QED
    BY <1>9, <2>1, <2>3
<1>13. bad \in G
  <2> HIDE DEF G
  <2> QED
    BY <1>11, <1>12, StepByStep
<1>14. PICK c : c = b[bad] /\ Good(c, bad)
  BY <1>13
<1>15. c.lo \in Int /\ c.bad \in Int /\ c.bad = c.lo + 1
  BY <1>14 DEF Good, T
<1> QED
  BY <1>7, <1>14, <1>15 DEF Good, Start

\* The search's grid and its parameters.
LEMMA GridType ==
  ASSUME NEW p \in PredictParams
  PROVE  /\ Grid(p) \in Nat \ {0} /\ p.horizon \in Nat \ {0} /\ p.block \in Nat \ {0}
         /\ p.post \in Nat
<1>1. p.grid \in Nat \ {0} /\ p.block \in Nat \ {0} /\ p.horizon \in Nat \ {0} /\ p.post \in Nat
  BY DEF PredictParams
<1>2. PICK a \in Nat \ {0}, c \in Nat \ {0} : a = p.grid /\ c = p.block
  BY <1>1
<1>3. Max({a, c}) = IF a < c THEN c ELSE a
  BY MaxOfTwo
<1>4. Grid(p) = Max({a, c})
  BY <1>2 DEF Grid
<1> QED
  BY <1>1, <1>2, <1>3, <1>4

\* A warm start only narrows the search.
LEMMA BracketFinds ==
  ASSUME NEW p \in PredictParams, NEW top \in Nat, NEW warm \in Int, NEW ok, ok[0]
  PROVE  LET b == WarmBracket(warm, top, ok, p)
         IN /\ b.lo \in 0 .. top /\ ok[b.lo] /\ b.bad \in Int
            /\ b.bad >= 0 => b.bad \in b.lo + 1 .. top /\ ~ok[b.bad]
            /\ b = [lo |-> b.lo, bad |-> b.bad]
<1>1. CASE warm < 0 \/ top < 1
  BY <1>1 DEF WarmBracket
<1>2. CASE ~(warm < 0 \/ top < 1)
  <2>1. PICK q \in Int : q = warm \div Grid(p)
    <3>1. PICK g \in Nat \ {0} : g = Grid(p)
      BY GridType
    <3>2. warm \div g \in Int
      OBVIOUS
    <3> QED
      BY <3>1, <3>2
  <2>2. PICK m \in Int : m = Min({q, top}) /\ m <= top
    <3>1. Min({q, top}) = IF q < top THEN q ELSE top
      BY MinOfTwo
    <3> QED
      BY <3>1
  <2>3. PICK h \in 1 .. top : h = Max({1, m})
    <3>1. Max({1, m}) = IF 1 < m THEN m ELSE 1
      BY MaxOfTwo
    <3> QED
      BY <1>2, <2>2, <3>1
  <2>4. WarmBracket(warm, top, ok, p)
          = IF ok[h] THEN Gallop(h, top, ok) ELSE [lo |-> 0, bad |-> h]
    BY <1>2, <2>1, <2>2, <2>3 DEF WarmBracket
  <2>5. CASE ok[h]
    <3>1. PICK b : b = Gallop(h, top, ok)
      OBVIOUS
    <3>2. /\ b.lo \in 0 .. top /\ ok[b.lo]
          /\ b.bad # -1 => b.bad \in b.lo + 1 .. top /\ ~ok[b.bad]
          /\ b = [lo |-> b.lo, bad |-> b.bad]
      <4>1. h \in 0 .. top
        OBVIOUS
      <4> QED
        BY <2>5, <3>1, <4>1, GallopFinds
    <3> QED
      BY <2>4, <2>5, <3>1, <3>2
  <2>6. CASE ~ok[h]
    BY <2>4, <2>6
  <2> QED
    BY <2>5, <2>6
<1> QED
  BY <1>1, <1>2

\* Whatever the warm start, the search finds a start that succeeds and whose next fails, or
\* the last.
LEMMA SearchFinds ==
  ASSUME NEW p \in PredictParams, NEW top \in Nat, NEW warm \in Int, NEW ok, ok[0]
  PROVE  LET r == SearchPnr(warm, top, ok, p)
         IN r \in 0 .. top /\ ok[r] /\ (r < top => ~ok[r + 1])
<1>1. PICK b : b = WarmBracket(warm, top, ok, p)
  OBVIOUS
<1>2. /\ b.lo \in 0 .. top /\ ok[b.lo] /\ b.bad \in Int
      /\ b.bad >= 0 => b.bad \in b.lo + 1 .. top /\ ~ok[b.bad]
      /\ b = [lo |-> b.lo, bad |-> b.bad]
  BY <1>1, BracketFinds
<1>3. CASE b.bad >= 0
  <2>1. PICK l \in Nat, e \in Nat : l = b.lo /\ e = b.bad
    BY <1>2, <1>3
  <2>2. l < e /\ e <= top /\ ok[l] /\ ~ok[e] /\ b = [lo |-> l, bad |-> e]
    BY <1>2, <1>3, <2>1
  <2>3. PICK r : r = Bisect([lo |-> l, bad |-> e], ok)
    OBVIOUS
  <2>4. r \in l .. e - 1 /\ ok[r] /\ ~ok[r + 1]
    BY <2>2, <2>3, BisectFinds
  <2>5. SearchPnr(warm, top, ok, p) = r
    BY <1>1, <1>3, <2>2, <2>3 DEF SearchPnr
  <2> QED
    BY <2>2, <2>4, <2>5
<1>4. CASE ~(b.bad >= 0) /\ (b.lo >= top \/ ok[top])
  <2>1. SearchPnr(warm, top, ok, p) = top
    BY <1>1, <1>4 DEF SearchPnr
  <2>2. ok[top]
    BY <1>2, <1>4
  <2> QED
    BY <2>1, <2>2
<1>5. CASE ~(b.bad >= 0) /\ ~(b.lo >= top \/ ok[top])
  <2>1. PICK l \in Nat : l = b.lo /\ l < top /\ ok[l]
    BY <1>2, <1>5
  <2>2. [b EXCEPT !.bad = top] = [lo |-> l, bad |-> top]
    BY <1>2, <2>1
  <2>3. PICK r : r = Bisect([lo |-> l, bad |-> top], ok)
    OBVIOUS
  <2>4. r \in l .. top - 1 /\ ok[r] /\ ~ok[r + 1]
    BY <1>5, <2>1, <2>3, BisectFinds
  <2>5. SearchPnr(warm, top, ok, p) = r
    BY <1>1, <1>5, <2>2, <2>3 DEF SearchPnr
  <2> QED
    BY <2>4, <2>5
<1> QED
  BY <1>3, <1>4, <1>5

\* A violation is a number of ticks within the horizon.
LEMMA BreachWithin ==
  ASSUME NEW p \in PredictParams, NEW held, DOMAIN held = 0 .. p.horizon \div p.block
  PROVE  FirstBreach(held, p) \in 0 .. p.horizon
<1>1. PICK H \in Nat, B \in Nat \ {0} : H = p.horizon /\ B = p.block
  BY GridType
<1>2. PICK S : S = {k * B : k \in {j \in DOMAIN held : Breached(held[j])}}
  OBVIOUS
<1>3. ASSUME NEW k \in 0 .. H \div B PROVE k * B \in 0 .. H
  <2>1. PICK d \in Int : d = H \div B /\ d * B <= H
    OBVIOUS
  <2>2. k * B <= d * B /\ k * B >= 0
    BY <2>1
  <2> QED
    BY <2>1, <2>2
<1>4. S \subseteq 0 .. H
  BY <1>1, <1>2, <1>3
<1>5. Min({H} \cup S) \in {H} \cup S
  <2>1. PICK T : T = {H} \cup S
    OBVIOUS
  <2>2. T \subseteq Nat /\ T # {}
    BY <1>4, <2>1
  <2> QED
    BY <2>1, <2>2, MinOfNats
<1>6. FirstBreach(held, p) = Min({H} \cup S)
  BY <1>1, <1>2 DEF FirstBreach
<1>7. PICK m : m = Min({H} \cup S)
  OBVIOUS
<1>8. m = H \/ m \in 0 .. H
  BY <1>4, <1>5, <1>7
<1> QED
  BY <1>1, <1>6, <1>7, <1>8

\* The last start lies before the violation, and the next does not or is past the horizon.
LEMMA LastStartIsLast ==
  ASSUME NEW p \in PredictParams, NEW ttv \in 0 .. p.horizon
  PROVE  LET top == LastStart(ttv, p)
         IN /\ top \in Nat /\ top * Grid(p) \in 0 .. p.horizon
            /\ top = 0 \/ top * Grid(p) < ttv
            /\ (top + 1) * Grid(p) >= ttv
<1>1. PICK H \in Nat, g \in Nat \ {0}, after \in Nat :
        H = p.horizon /\ g = Grid(p) /\ after = p.post
  BY GridType
<1>2. PICK m \in Nat : m = Min({H, ttv + after}) /\ m <= H /\ ttv <= m
  <2>1. PICK e \in Nat : e = ttv + after /\ ttv <= H /\ ttv <= e
    BY <1>1
  <2>2. Min({H, e}) = IF H < e THEN H ELSE e
    BY MinOfTwo
  <2> QED
    BY <2>1, <2>2
<1>3. PICK rolled \in Nat : rolled = m \div g /\ rolled * g <= m /\ m < (rolled + 1) * g
  <2>1. PICK q \in Int, r \in 0 .. g - 1 : m = g * q + r /\ m \div g = q
    BY Division
  <2>2. q >= 0
    <3> SUFFICES ASSUME q + 1 <= 0 PROVE FALSE
      BY <2>1
    <3>1. g * (q + 1) <= 0
      BY Multiples
    <3> QED
      BY <2>1, <3>1
  <2>3. g * q = q * g /\ (q + 1) * g = q * g + g
    OBVIOUS
  <2> QED
    BY <2>1, <2>2, <2>3
<1>4. Min({ttv, H}) = ttv
  BY <1>1, MinOfTwo
<1>5. PICK S : S = {h \in 0 .. rolled : h * g < ttv}
  OBVIOUS
<1>6. LastStart(ttv, p) = Max({0} \cup S)
  BY <1>1, <1>2, <1>3, <1>4, <1>5 DEF LastStart
<1>7. PICK top \in 0 .. rolled :
        top = Max({0} \cup S) /\ top \in {0} \cup S /\ \A y \in {0} \cup S : y <= top
  <2>1. PICK T : T = {0} \cup S
    OBVIOUS
  <2>2. T \subseteq 0 .. rolled /\ T # {}
    BY <1>5, <2>1
  <2>3. Max(T) \in T /\ \A y \in T : y <= Max(T)
    BY <2>2, MaxOfNats
  <2> QED
    BY <2>1, <2>2, <2>3
<1>8. top = 0 \/ top * g < ttv
  BY <1>5, <1>7
<1>9. top * g \in 0 .. H
  <2>1. top * g <= rolled * g /\ top * g >= 0 /\ top * g \in Int
    BY <1>7
  <2> QED
    BY <1>2, <1>3, <2>1
<1>10. (top + 1) * g >= ttv
  <2>1. CASE top = rolled
    BY <1>2, <1>3, <2>1
  <2>2. CASE top < rolled
    <3>1. PICK h \in 0 .. rolled : h = top + 1
      BY <2>2
    <3>2. h \notin S
      <4> SUFFICES ASSUME h \in S PROVE FALSE
        OBVIOUS
      <4>1. h <= top
        BY <1>7
      <4> QED
        BY <3>1, <4>1
    <3>3. h * g >= ttv
      <4>1. h * g \in Int
        OBVIOUS
      <4> QED
        BY <1>5, <3>2, <4>1
    <3> QED
      BY <3>1, <3>3
  <2> QED
    BY <2>1, <2>2
<1> QED
  BY <1>1, <1>6, <1>7, <1>8, <1>9, <1>10

\* What the answer of a search from the state x means.
AnswerMeans(x, u, at, ref, p, warm) ==
  LET held == Held(x, u, at, p.horizon \div p.block, ref, p)
      ok(h) == Recoverable(held[h \div p.block], u, at + h, ref, p).ok
      recovers == [h \in {g \in 0 .. p.horizon : g % Grid(p) = 0} |-> ok(h)]
      a == PredictHold(x, u, at, ref, p, warm)
      next == a.rescueFrom + Grid(p)
  IN /\ a.pastPnr <=> ~recovers[0]
     /\ a.pastPnr => a.ttpnr = 0
     /\ ~a.pastPnr =>
          /\ recovers[a.rescueFrom]
          /\ a.rescueFrom < Max({1, a.ttv})
          /\ next < Min({a.ttv, p.horizon}) => ~recovers[next]
          /\ a.ttpnr = IF a.ttv = p.horizon /\ next >= p.horizon
                         THEN p.horizon ELSE a.rescueFrom

\* The start that an answer is about is on the grid.
AnswerOnGrid(a, p) ==
  ~a.pastPnr => a.rescueFrom \in 0 .. p.horizon /\ a.rescueFrom % Grid(p) = 0

\* It means that, for starts that recover or do not in any order.
LEMMA AnswerSound ==
  ASSUME NEW x, NEW u, NEW at \in Nat, NEW ref, NEW p \in PredictParams, p.computePnr,
         NEW warm \in Int
  PROVE  /\ AnswerMeans(x, u, at, ref, p, warm)
         /\ AnswerOnGrid(PredictHold(x, u, at, ref, p, warm), p)
<1>0. PICK a : a = PredictHold(x, u, at, ref, p, warm)
  OBVIOUS
<1>1. PICK H \in Nat, B \in Nat \ {0}, g \in Nat \ {0} :
        H = p.horizon /\ B = p.block /\ g = Grid(p)
  BY GridType
<1>2. PICK held : held = Held(x, u, at, H \div B, ref, p)
  OBVIOUS
<1>3. DOMAIN held = 0 .. H \div B
  <2>1. PICK n \in Nat : n = H \div B
    <3>1. H \div B \in Nat
      OBVIOUS
    <3> QED
      BY <3>1
  <2>2. PICK s : s = Held(x, u, at, n, ref, p)
    OBVIOUS
  <2>3. HeldStates(s, x, u, at, n, ref, p)
    BY <2>2, HeldDefined
  <2>4. DOMAIN s = 0 .. n
    BY <2>3 DEF HeldStates
  <2> QED
    BY <1>2, <2>1, <2>2, <2>4
<1>4. PICK ttv \in 0 .. H : ttv = FirstBreach(held, p)
  BY <1>1, <1>3, BreachWithin
<1>5. PICK top \in Nat :
        /\ top = LastStart(ttv, p) /\ top * g \in 0 .. H
        /\ top = 0 \/ top * g < ttv
        /\ (top + 1) * g >= ttv
  BY <1>1, <1>4, LastStartIsLast
<1> DEFINE Rescued(t) == Recoverable(held[t \div B], u, at + t, ref, p)
           Grids == {t \in 0 .. H : t % g = 0}
<1>6. PICK now : now = Rescued(0 * g)
  OBVIOUS
<1>7. PICK ok : ok = [h \in 0 .. top |-> Rescued(h * g).ok]
  OBVIOUS
<1>8. PICK recovers : recovers = [t \in Grids |-> Rescued(t).ok]
  OBVIOUS
<1>9. ASSUME NEW h \in 0 .. top PROVE h * g \in Grids /\ recovers[h * g] = ok[h]
  <2>1. PICK t \in Int : t = h * g
    OBVIOUS
  <2>2. t \in 0 .. H
    <3>1. 0 <= h * g /\ h * g <= top * g
      OBVIOUS
    <3> QED
      BY <1>5, <2>1, <3>1
  <2>3. t % g = 0
    <3>1. PICK q \in Int, r \in 0 .. g - 1 : t = g * q + r /\ t % g = r
      BY Division
    <3>2. h * g = g * h
      OBVIOUS
    <3>3. g * h = g * q + r
      BY <2>1, <3>1, <3>2
    <3>4. h = q
      <4>1. CASE h < q
        <5>1. g * h + g <= g * q
          BY <4>1, Multiples
        <5> QED
          BY <3>3, <5>1
      <4>2. CASE h > q
        <5>1. g * q + g <= g * h
          BY <4>2, Multiples
        <5> QED
          BY <3>3, <5>1
      <4> QED
        BY <4>1, <4>2
    <3> QED
      BY <3>1, <3>3, <3>4
  <2> QED
    BY <1>7, <1>8, <2>1, <2>2, <2>3
<1>10. PICK best : best = SearchPnr(warm, top, ok, p)
  OBVIOUS
<1>11. now.ok = ok[0] /\ recovers[0] = ok[0] /\ 0 * g = 0
  <2>1. 0 \in 0 .. top /\ 0 * g = 0
    OBVIOUS
  <2>2. ok[0] = Rescued(0 * g).ok
    <3> HIDE DEF Rescued
    <3> QED
      BY <1>7, <2>1
  <2>3. recovers[0 * g] = ok[0]
    BY <1>9, <2>1
  <2> QED
    BY <1>6, <2>1, <2>2, <2>3
<1>12. a = Verdict(ttv, top, now, best, p)
  <2> HIDE DEF Rescued
  <2>1. \A h : Recoverable(held[(h * g) \div B], u, at + h * g, ref, p) = Rescued(h * g)
    BY DEF Rescued
  <2> QED
    BY <1>1, <1>2, <1>4, <1>5, <1>6, <1>7, <1>10, <1>0, <2>1 DEF PredictHold
<1> HIDE DEF Rescued, Grids
<1>13. a.ttv = ttv /\ (a.pastPnr <=> ~ok[0]) /\ (a.pastPnr => a.ttpnr = 0)
  BY <1>11, <1>12 DEF Verdict
<1>14. ASSUME ~a.pastPnr
       PROVE  LET next == a.rescueFrom + g
              IN /\ a.rescueFrom \in Grids /\ recovers[a.rescueFrom]
                 /\ a.rescueFrom < Max({1, ttv})
                 /\ next < Min({ttv, H}) => ~recovers[next]
                 /\ a.ttpnr = IF ttv = H /\ next >= H THEN H ELSE a.rescueFrom
  <2>1. ok[0]
    BY <1>13, <1>14
  <2>2. best \in 0 .. top /\ ok[best] /\ (best < top => ~ok[best + 1])
    BY <1>10, <2>1, SearchFinds
  <2>3. /\ a.rescueFrom = best * g
        /\ a.ttpnr = IF best = top /\ ttv >= H THEN H ELSE best * g
    BY <1>1, <1>11, <1>12, <2>1 DEF Verdict
  <2>4. best * g \in Grids /\ recovers[best * g]
    BY <1>9, <2>2
  <2>5. Max({1, ttv}) = (IF 1 < ttv THEN ttv ELSE 1) /\ Min({ttv, H}) = ttv
    <3>1. Min({ttv, H}) = IF ttv < H THEN ttv ELSE H
      BY MinOfTwo
    <3>2. Max({1, ttv}) = IF 1 < ttv THEN ttv ELSE 1
      BY MaxOfTwo
    <3> QED
      BY <3>1, <3>2
  <2>6. PICK r \in Int : r = best * g /\ r + g = (best + 1) * g
    <3>1. best \in Int /\ best * g \in Int
      BY <2>2
    <3> QED
      BY <3>1
  <2>7. r < Max({1, ttv})
    <3>1. CASE best = 0
      BY <2>5, <2>6, <3>1
    <3>2. CASE best # 0
      <4>1. top # 0 /\ best * g <= top * g
        BY <2>2, <3>2
      <4> QED
        BY <1>5, <2>5, <2>6, <4>1
    <3> QED
      BY <3>1, <3>2
  <2>8. ASSUME r + g < ttv PROVE ~recovers[r + g]
    <3>1. best # top
      BY <1>5, <2>6, <2>8
    <3>2. best < top /\ best + 1 \in 0 .. top
      BY <2>2, <3>1
    <3> QED
      BY <1>9, <2>2, <2>6, <3>2
  <2>9. ASSUME best = top PROVE r + g >= ttv
    <3>1. r + g = (top + 1) * g
      BY <2>6, <2>9
    <3> QED
      BY <1>5, <3>1
  <2>10. ASSUME best # top PROVE r + g < ttv
    <3>1. best + 1 <= top /\ (best + 1) * g <= top * g
      BY <2>2, <2>10
    <3>2. top # 0
      BY <2>2, <3>1
    <3> QED
      BY <1>5, <2>6, <3>1, <3>2
  <2>11. (best = top /\ ttv >= H) <=> (ttv = H /\ r + g >= H)
    BY <2>9, <2>10
  <2>12. a.ttpnr = IF ttv = H /\ r + g >= H THEN H ELSE r
    BY <2>3, <2>6, <2>11
  <2> QED
    BY <2>3, <2>4, <2>5, <2>6, <2>7, <2>8, <2>12
<1>15. AnswerOnGrid(a, p)
  <2>1. \A t \in Grids : t \in 0 .. p.horizon /\ t % Grid(p) = 0
    BY <1>1 DEF Grids
  <2> QED
    BY <1>14, <2>1 DEF AnswerOnGrid
<1>16. AnswerMeans(x, u, at, ref, p, warm)
  BY <1>1, <1>2, <1>8, <1>11, <1>0, <1>13, <1>14 DEF AnswerMeans, Rescued, Grids
<1> QED
  BY <1>0, <1>15, <1>16

\* Predictor.cpp, predictHold: in the ticks in which the search is run, its answer is a start
\* that recovers and whose next on the grid fails or comes after the violation, the horizon
\* exactly if nothing is ahead and that start is the grid's last, and past the point of no
\* return exactly if no rescue can begin; wherever the aged answer of an earlier search makes
\* it start, and though which starts recover may follow no order at all.
THEOREM SearchExact == HarnessSpec => []SearchSound
<1>1. TrackInv => SearchSound
  <2> SUFFICES ASSUME TrackInv, NEW v \in Car,
                      NEW warm \in -1 .. [Q.params EXCEPT !.computePnr = TRUE].horizon
               PROVE  AnswerMeans(plant[v].x, plant[v].u, step, References(v),
                                  [Q.params EXCEPT !.computePnr = TRUE], warm)
    BY DEF SearchSound, AnswerMeans
  <2>1. conf \in DOMAIN Config /\ step \in Nat
    BY DEF TrackInv
  <2>2. PICK r \in PredictParams : r = Q.params
    BY <2>1, PredictorType
  <2>3. PICK p \in PredictParams : p = [Q.params EXCEPT !.computePnr = TRUE] /\ p.computePnr
    <3>1. [r EXCEPT !.computePnr = TRUE] \in PredictParams
      BY DEF PredictParams
    <3>2. [r EXCEPT !.computePnr = TRUE].computePnr
      BY DEF PredictParams
    <3> QED
      BY <2>2, <3>1, <3>2
  <2>4. warm \in Int
    BY <2>3, GridType
  <2> QED
    BY <2>1, <2>3, <2>4, AnswerSound
<1> QED
  BY <1>1, TrackInvariant, PTL

-----------------------------------------------------------------------------
(* Rollouts that start where another has come to *)

\* What a plant goes through from x on while it holds u.
Holds(s, x, u, at, n, ref) ==
  s[0] = x /\ \A k \in 1 .. n : s[k] = Physics(s[k - 1], u, ref[at + (k - 1)])

\* t goes through what s does from its j-th state on.
Continues(t, s, j, n) == \A k \in 0 .. n : t[k] = s[j + k]

\* Two sequences that start alike and make the same steps are the same.
LEMMA PathsAgree ==
  ASSUME NEW s, NEW t, NEW x, NEW j \in Nat, NEW n \in Nat, NEW m, m = j + n, NEW u,
         NEW at \in Nat, NEW ref, NEW b, b = at + j,
         Holds(s, x, u, at, m, ref), Holds(t, s[j], u, b, n, ref)
  PROVE  Continues(t, s, j, n)
<1> USE DEF Holds, Continues
<1> DEFINE G == {k \in Nat : k <= n => t[k] = s[j + k]}
<1>1. 0 \in G
  OBVIOUS
<1>2. ASSUME NEW k \in Nat, k \in G PROVE k + 1 \in G
  <2> SUFFICES ASSUME k + 1 <= n PROVE t[k + 1] = s[j + (k + 1)]
    OBVIOUS
  <2>1. t[k] = s[j + k]
    BY <1>2
  <2>2. PICK i \in 1 .. n : i = k + 1 /\ i - 1 = k
    OBVIOUS
  <2>3. t[i] = Physics(t[k], u, ref[at + j + k])
    BY <2>2
  <2>4. PICK l \in 1 .. j + n : l = j + i /\ l - 1 = j + k
    BY <2>2
  <2>5. s[l] = Physics(s[j + k], u, ref[at + (j + k)])
    BY <2>4
  <2>6. at + j + k = at + (j + k)
    OBVIOUS
  <2> QED
    BY <2>1, <2>2, <2>3, <2>4, <2>5, <2>6
<1>3. \A k \in Nat : k \in G
  <2> HIDE DEF G
  <2> QED
    BY <1>1, <1>2, StepByStep
<1> QED
  BY <1>3

LEMMA HeldHolds ==
  ASSUME NEW x, NEW u, NEW at \in Nat, NEW n \in Nat, NEW ref, NEW p, p.block = 1
  PROVE  Holds(Held(x, u, at, n, ref, p), x, u, at, n, ref)
BY HeldSteps DEF Holds

\* A tick-exact rollout from where a longer one is after j ticks.
LEMMA Onward ==
  ASSUME NEW x, NEW u, NEW at \in Nat, NEW j \in Nat, NEW n \in Nat, NEW m, m = j + n,
         NEW ref, NEW p, NEW q, p.block = 1, q.block = 1, NEW b, b = at + j,
         NEW s, s = Held(x, u, at, m, ref, p),
         NEW t, t = Held(s[j], u, b, n, ref, q)
  PROVE  Continues(t, s, j, n)
<1>1. Holds(s, x, u, at, m, ref)
  BY HeldHolds
<1>2. Holds(t, s[j], u, b, n, ref)
  <2>1. b \in Nat
    OBVIOUS
  <2> QED
    BY <2>1, HeldHolds
<1> QED
  BY <1>1, <1>2, PathsAgree

\* A shorter rollout is the beginning of a longer one.
LEMMA Beginning ==
  ASSUME NEW x, NEW u, NEW at \in Nat, NEW n \in Nat, NEW m \in Nat, n <= m,
         NEW ref, NEW p, NEW q, p.block = 1, q.block = 1,
         NEW s, s = Held(x, u, at, m, ref, q), NEW t, t = Held(x, u, at, n, ref, p)
  PROVE  \A k \in 0 .. n : t[k] = s[k]
<1>1. Holds(s, x, u, at, n, ref)
  <2>1. Holds(s, x, u, at, m, ref)
    BY HeldHolds
  <2> QED
    BY <2>1 DEF Holds
<1>2. Holds(t, s[0], u, at, n, ref)
  <2>1. Holds(t, x, u, at, n, ref)
    BY HeldHolds
  <2> QED
    BY <1>1, <2>1 DEF Holds
<1>3. n = 0 + n /\ at = at + 0
  OBVIOUS
<1>4. Continues(t, s, 0, n)
  BY <1>1, <1>2, <1>3, PathsAgree
<1> QED
  BY <1>4 DEF Continues

\* It ends on the way of the longer one.
LEMMA OnTheWay ==
  ASSUME NEW x, NEW u, NEW at \in Nat, NEW n \in Nat, NEW m \in Nat, n <= m, NEW ref,
         NEW p, NEW q, p.block = 1, q.block = 1
  PROVE  Held(x, u, at, n, ref, p)[n] = Held(x, u, at, m, ref, q)[n]
<1>1. PICK s, t : s = Held(x, u, at, m, ref, q) /\ t = Held(x, u, at, n, ref, p)
  OBVIOUS
<1>2. \A k \in 0 .. n : t[k] = s[k]
  BY <1>1, Beginning
<1> QED
  BY <1>1, <1>2

\* Where the plant is some ticks after a rollout began, and where it goes from there.
LEMMA PathGoesOn ==
  ASSUME NEW x, NEW u, NEW at \in Nat, NEW n \in Nat, NEW left \in Nat, NEW m \in Nat,
         n + left <= m, NEW ref, NEW q, q.block = 1
  PROVE  Held(Held(x, u, at, n, ref, q)[n], u, at + n, left, ref, q)[left]
           = Held(x, u, at, m, ref, q)[n + left]
<1>1. PICK now, y : now = at + n /\ y = Held(x, u, at, n, ref, q)[n]
  OBVIOUS
<1>2. PICK l \in Nat : l = n + left /\ l <= m /\ n <= l
  OBVIOUS
<1>3. PICK s, t : s = Held(x, u, at, l, ref, q) /\ t = Held(s[n], u, now, left, ref, q)
  OBVIOUS
<1>4. y = s[n]
  BY <1>1, <1>2, <1>3, OnTheWay
<1>5. Continues(t, s, n, left)
  BY <1>1, <1>2, <1>3, Onward
<1>6. t[left] = s[l]
  BY <1>2, <1>5 DEF Continues
<1>7. s[l] = Held(x, u, at, m, ref, q)[l]
  BY <1>2, <1>3, OnTheWay
<1>8. Held(y, u, now, left, ref, q)[left] = Held(x, u, at, m, ref, q)[n + left]
  BY <1>2, <1>3, <1>4, <1>6, <1>7
<1> QED
  BY <1>1, <1>8

\* A rollout step leads from a state to a state.
LEMMA BlockStays ==
  ASSUME NEW State, Dynamics(State), NEW x \in State, NEW u, NEW r, NEW n \in Nat
  PROVE  BlockStep(x, u, r, n) \in State
<1> DEFINE States(s) == [k \in 0 .. n |-> IF k = 0 THEN x ELSE Physics(s[k - 1], u, r)]
<1>1. PICK F : F = [k \in Nat |-> [y \in State |-> Physics(y, u, r)]]
  OBVIOUS
<1>2. \A k \in Nat : \A y \in State : F[k][y] = Physics(y, u, r) /\ F[k][y] \in State
  BY <1>1 DEF Dynamics
<1>3. StaysIn(F, State)
  BY <1>2 DEF StaysIn
<1>4. PICK w : StepsOf(w, State, x, F, n)
  BY <1>3, RecursionDefines
<1>5. w = States(w)
  <2>1. \A k \in 1 .. n : w[k] = Physics(w[k - 1], u, r)
    <3>1. \A k \in 1 .. n : k \in Nat /\ k - 1 \in 0 .. n
      OBVIOUS
    <3> QED
      BY <1>2, <1>4, <3>1 DEF StepsOf
  <2> QED
    BY <1>4, <2>1 DEF StepsOf
<1>6. PICK c : c = CHOOSE s : s = States(s)
  OBVIOUS
<1>7. c = States(c)
  BY <1>5, <1>6
<1>8. c = [k \in 0 .. n |-> c[k]] /\ c[0] = x
  BY <1>7
<1>9. ASSUME NEW k \in 1 .. n, c[k - 1] \in State PROVE c[k] = F[k][c[k - 1]]
  <2>1. c[k] = Physics(c[k - 1], u, r)
    BY <1>7
  <2> QED
    BY <1>2, <1>9, <2>1
<1> HIDE DEF States
<1>10. StepsOf(c, State, x, F, n)
  BY <1>3, <1>8, <1>9, StepsStay
<1>11. c[n] \in State
  BY <1>10 DEF StepsOf
<1>12. BlockStep(x, u, r, n) = c[n]
  BY <1>6 DEF BlockStep, States
<1> QED
  BY <1>11, <1>12

\* A rollout has as many states as steps, and one more.
LEMMA HeldStays ==
  ASSUME NEW State, Dynamics(State), NEW x \in State, NEW u, NEW at \in Nat, NEW n \in Nat,
         NEW ref, NEW p, p.block \in Nat
  PROVE  LET s == Held(x, u, at, n, ref, p)
         IN DOMAIN s = 0 .. n /\ \A k \in 0 .. n : s[k] \in State
<1>1. PICK s, B : s = Held(x, u, at, n, ref, p) /\ B = p.block
  OBVIOUS
<1>2. HeldStates(s, x, u, at, n, ref, p)
  BY <1>1, HeldDefined
<1>3. PICK F : F = [k \in Nat |-> [y \in State |-> BlockStep(y, u, ref[at + (k - 1) * B], B)]]
  OBVIOUS
<1>4. \A k \in Nat : \A y \in State :
        /\ F[k][y] = BlockStep(y, u, ref[at + (k - 1) * B], B)
        /\ F[k][y] \in State
  <2>1. \A y \in State : \A r : BlockStep(y, u, r, B) \in State
    BY <1>1, BlockStays
  <2> QED
    BY <1>3, <2>1
<1>5. StaysIn(F, State)
  BY <1>4 DEF StaysIn
<1>6. s = [k \in 0 .. n |-> s[k]] /\ s[0] = x
  BY <1>2 DEF HeldStates
<1>7. ASSUME NEW k \in 1 .. n, s[k - 1] \in State PROVE s[k] = F[k][s[k - 1]]
  <2>1. k \in Nat /\ k \in 0 .. n /\ k # 0
    OBVIOUS
  <2>2. \A j \in 0 .. n : s[j] = IF j = 0 THEN x
                                  ELSE BlockStep(s[j - 1], u, ref[at + (j - 1) * B], B)
    BY <1>1, <1>2 DEF HeldStates
  <2>3. s[k] = BlockStep(s[k - 1], u, ref[at + (k - 1) * B], B)
    BY <2>1, <2>2
  <2> QED
    BY <1>4, <1>7, <2>1, <2>3
<1>8. StepsOf(s, State, x, F, n)
  BY <1>5, <1>6, <1>7, StepsStay
<1> QED
  BY <1>1, <1>8 DEF StepsOf

-----------------------------------------------------------------------------
(* The time to violation, as it ages *)

\* The first breach within H ticks at the ends of n steps of B ticks, H if there is none.
IsFirst(ttv, held, n, B, H) ==
  /\ ttv \in 0 .. H
  /\ ttv < H => \E k \in 0 .. n : ttv = k * B /\ Breached(held[k])
  /\ \A k \in 0 .. n : Breached(held[k]) => ttv <= k * B

LEMMA BreachIsFirst ==
  ASSUME NEW p \in PredictParams, NEW held, NEW n, n = p.horizon \div p.block,
         DOMAIN held = 0 .. n
  PROVE  IsFirst(FirstBreach(held, p), held, n, p.block, p.horizon)
<1>1. PICK H \in Nat, B \in Nat \ {0} : H = p.horizon /\ B = p.block
  BY GridType
<1>2. PICK S : S = {H} \cup {k * B : k \in {j \in 0 .. n : Breached(held[j])}}
  OBVIOUS
<1>3. FirstBreach(held, p) = Min(S)
  BY <1>1, <1>2 DEF FirstBreach
<1>4. S \subseteq Nat /\ S # {}
  <2>1. \A k \in 0 .. n : k * B \in Nat
    <3>1. \A k \in Nat : k * B \in Nat
      OBVIOUS
    <3>2. n \in Int
      BY <1>1
    <3>3. \A k \in 0 .. n : k \in Nat
      BY <3>2
    <3> QED
      BY <3>1, <3>3
  <2> QED
    BY <1>2, <2>1
<1>5. PICK m : m = Min(S) /\ m \in S /\ \A y \in S : m <= y
  BY <1>4, MinOfNats
<1>6. m \in 0 .. H
  BY <1>1, <1>3, <1>5, BreachWithin
<1>7. m < H => \E k \in 0 .. n : m = k * B /\ Breached(held[k])
  <2>1. m < H => m # H
    OBVIOUS
  <2>2. m # H => \E k \in 0 .. n : m = k * B /\ Breached(held[k])
    BY <1>2, <1>5
  <2> QED
    BY <2>1, <2>2
<1>8. \A k \in 0 .. n : Breached(held[k]) => m <= k * B
  BY <1>2, <1>5
<1> QED
  BY <1>1, <1>3, <1>5, <1>6, <1>7, <1>8 DEF IsFirst

\* Rollout and plant differ by at most err at the ends of the steps.
Within(rolled, exact, n, B, err) ==
  /\ err \in Nat
  /\ \A k \in 0 .. n : /\ ErrorOf(rolled[k]) \in Int /\ ErrorOf(exact[k * B]) \in Int
                       /\ Magnitude(ErrorOf(rolled[k]) - ErrorOf(exact[k * B])) <= err

\* The greatest difference is such a bound.
LEMMA GreatestDifference ==
  ASSUME NEW rolled, NEW exact, NEW n \in Nat, NEW B,
         \A k \in 0 .. n : ErrorOf(rolled[k]) \in Int /\ ErrorOf(exact[k * B]) \in Int
  PROVE  Within(rolled, exact, n, B,
                Max({Magnitude(ErrorOf(rolled[k]) - ErrorOf(exact[k * B])) : k \in 0 .. n}))
<1>1. PICK d : d = [k \in 0 .. n |-> Magnitude(ErrorOf(rolled[k]) - ErrorOf(exact[k * B]))]
  OBVIOUS
<1>2. \A k \in 0 .. n : d[k] \in Nat
  <2>1. \A a, b \in Int : Magnitude(a - b) \in Nat
    BY DEF Magnitude
  <2> QED
    BY <1>1, <2>1
<1>3. PICK S : S = {d[k] : k \in 0 .. n}
  OBVIOUS
<1>4. S = {Magnitude(ErrorOf(rolled[k]) - ErrorOf(exact[k * B])) : k \in 0 .. n}
  BY <1>1, <1>3
<1>5. IsFiniteSet(S)
  <2>1. IsFiniteSet(0 .. n)
    BY FS_Interval, 0 \in Int, n \in Int
  <2> QED
    <3>1. d \in Surjection(0 .. n, S)
      BY <1>1, <1>3 DEF Surjection
    <3> QED
      BY <2>1, <3>1, FS_Surjection
<1>6. S \subseteq Nat /\ S # {}
  <2>1. d[0] \in S
    BY <1>3
  <2> QED
    BY <1>2, <1>3, <2>1
<1>7. PICK x \in S : \A y \in S : y <= x
  BY <1>5, <1>6, GreatestExists
<1>8. Max(S) = x
  <2>1. S \in SUBSET Int
    BY <1>6
  <2> QED
    BY <1>7, <2>1, MaxIs
<1>9. \A k \in 0 .. n : d[k] <= x
  BY <1>3, <1>7
<1> QED
  BY <1>1, <1>4, <1>6, <1>7, <1>8, <1>9 DEF Within

-----------------------------------------------------------------------------
(* The point of no return *)

\* Of the parameters, a rescue takes those that say how it goes.
RescueLike(p, q) ==
  /\ p.latency = q.latency /\ p.window = q.window /\ p.authority = q.authority
  /\ p.block = q.block /\ p.settle = q.settle

LEMMA RescueAlike ==
  ASSUME NEW body, NEW x, NEW u, NEW at, NEW ref, NEW p, NEW q, RescueLike(p, q)
  PROVE  Rescue(body, x, u, at, ref, p) = Rescue(body, x, u, at, ref, q)
<1>1. \A ticks : Steps(ticks, p) = Steps(ticks, q)
  BY DEF RescueLike, Steps
<1>2. ASSUME NEW y, NEW sign, NEW b, NEW n
      PROVE  Rollout(y, u, sign, b, n, ref, p) = Rollout(y, u, sign, b, n, ref, q)
  <2> DEFINE States(s, c) ==
        [k \in 0 .. n |->
           IF k = 0 THEN y
           ELSE BlockStep(s[k - 1], CommandIn(s[k - 1], u, sign, c), ref[b + (k - 1) * c.block],
                          c.block)]
  <2>1. \A z : CommandIn(z, u, sign, p) = CommandIn(z, u, sign, q)
    BY DEF CommandIn, RecoveryCommand, RescueLike
  <2>2. \A s : States(s, p) = States(s, q)
    BY <2>1 DEF RescueLike
  <2>3. (CHOOSE s : s = States(s, p)) = (CHOOSE s : s = States(s, q))
    BY <2>2
  <2>4. ASSUME NEW c PROVE Rollout(y, u, sign, b, n, ref, c) = CHOOSE s : s = States(s, c)
    BY DEF Rollout
  <2> QED
    BY <2>3, <2>4
<1>3. \A b, n : Held(x, u, b, n, ref, p) = Held(x, u, b, n, ref, q)
  BY <1>2 DEF Held
<1>4. ASSUME NEW s, NEW w PROVE Recovery(body, s, w, p) = Recovery(body, s, w, q)
  <2> DEFINE Settled(k, c) == IF body = "car" THEN CarSettled(s, k, c) ELSE PoleSettled(s, k, c)
             Ends(c) == {k \in 1 .. w : Breached(s[k]) \/ Settled(k, c)}
             Final(c) == Min(Ends(c) \cup {w})
  <2>1. \A k : Settled(k, p) = Settled(k, q)
    <3>1. \A k : CarSettled(s, k, p) = CarSettled(s, k, q)
      BY DEF RescueLike, CarSettled
    <3>2. \A k : PoleSettled(s, k, p) = PoleSettled(s, k, q)
      BY <1>1 DEF RescueLike, PoleSettled
    <3> QED
      BY <3>1, <3>2
  <2>2. Ends(p) = Ends(q)
    BY <2>1
  <2>3. ASSUME NEW c PROVE Recovery(body, s, w, c)
                             = [ok |-> Ends(c) = {} \/ ~Breached(s[Final(c)]),
                                clearance |-> Clearance(s, Final(c))]
    BY DEF Recovery
  <2> HIDE DEF Ends
  <2> QED
    BY <2>2, <2>3
<1> DEFINE Sign == IF body = "car" THEN SteerSign ELSE 1
           N(c) == Steps(c.latency, c)
           Before(c) == Held(x, u, at, N(c), ref, c)
           After(c) == Rollout(Before(c)[N(c)], u, Sign, at + N(c) * c.block,
                               Steps(c.window, c), ref, c)
<1>5. N(p) = N(q) /\ Steps(p.window, p) = Steps(q.window, q) /\ p.block = q.block
  BY <1>1 DEF RescueLike
<1>6. Before(p) = Before(q)
  BY <1>3, <1>5
<1> HIDE DEF N, Before
<1>7. After(p) = After(q)
  BY <1>2, <1>5, <1>6
<1>8. ASSUME NEW c
      PROVE  Rescue(body, x, u, at, ref, c)
               = Afterwards(Before(c), N(c), Recovery(body, After(c), Steps(c.window, c), c))
  BY DEF Rescue, N, Before
<1> HIDE DEF After
<1> QED
  BY <1>4, <1>5, <1>6, <1>7, <1>8

\* Halving on the grid ends with a start that recovers, if the first does.
LEMMA PoleBisectFinds ==
  ASSUME NEW p \in PredictParams, NEW ttv \in Nat, NEW ok, ok[0]
  PROVE  LET r == PoleBisect(ttv, ok, p) IN r \in 0 .. ttv /\ ok[r]
<1>0. PICK g \in Nat \ {0} : g = Grid(p)
  BY GridType
<1> DEFINE Mid(c) == Max({c.lo + ((c.hi - c.lo) \div (2 * Grid(p))) * Grid(p), c.lo + Grid(p)})
           Next(c) == IF c.hi - c.lo <= Grid(p) THEN c
                      ELSE IF ok[Mid(c)] THEN [c EXCEPT !.lo = Mid(c)]
                      ELSE [c EXCEPT !.hi = Mid(c)]
           T == [lo : Int, hi : Int]
           Start == [lo |-> 0, hi |-> ttv]
           Halvings(b) == [n \in 0 .. ttv |-> IF n = 0 THEN Start ELSE Next(b[n - 1])]
<1>1. ASSUME NEW c \in T
      PROVE  /\ Mid(c) \in Int
             /\ c.hi - c.lo > g => c.lo <= Mid(c) /\ Mid(c) <= c.hi
  <2>0. PICK f \in Nat \ {0} : f = 2 * g
    OBVIOUS
  <2>1. PICK d \in Int, l \in Int, e \in Int :
          d = c.hi - c.lo /\ l = c.lo /\ e = l + g /\ f = 2 * g
    BY <2>0
  <2>2. PICK q \in Int, r \in 0 .. f - 1 : d = f * q + r /\ d \div f = q
    BY Division
  <2>3. PICK a \in Int : a = l + q * g
    OBVIOUS
  <2>4. Max({a, e}) = IF a < e THEN e ELSE a
    BY MaxOfTwo
  <2>5. d > g => a <= l + d
    <3>1. SUFFICES ASSUME d > g PROVE q * g <= d
      BY <2>3
    <3>2. f * q = q * g + q * g
      BY <2>1
    <3>3. q * g \in Int /\ q * g + q * g <= d
      BY <2>1, <2>2, <3>2
    <3> QED
      BY <3>1, <3>3
  <2>6. Mid(c) = Max({a, e})
    BY <1>0, <2>1, <2>2, <2>3
  <2> QED
    BY <2>1, <2>3, <2>4, <2>5, <2>6
<1>2. ASSUME NEW c \in T PROVE Next(c) \in T
  <2> DEFINE m == Mid(c)
  <2>1. m \in Int
    BY <1>1
  <2> HIDE DEF m
  <2>2. [c EXCEPT !.lo = m] \in T /\ [c EXCEPT !.hi = m] \in T
    BY <2>1
  <2> QED
    BY <2>2 DEF m
<1>3. Start \in T
  OBVIOUS
<1> HIDE DEF T, Start, Mid, Next
<1>4. \E b : b = Halvings(b)
  <2>1. PICK F : F = [n \in Nat |-> [c \in T |-> Next(c)]]
    OBVIOUS
  <2>2. \A n \in Nat : \A c \in T : F[n][c] = Next(c)
    BY <2>1
  <2>3. StaysIn(F, T)
    BY <1>2, <2>2 DEF StaysIn
  <2>4. PICK b : StepsOf(b, T, Start, F, ttv)
    BY <1>3, <2>3, RecursionDefines
  <2>5. \A n \in 1 .. ttv : b[n] = Next(b[n - 1])
    BY <2>2, <2>4 DEF StepsOf
  <2>6. b = Halvings(b)
    BY <2>4, <2>5 DEF StepsOf
  <2> QED
    BY <2>6
<1>5. PICK b : b = CHOOSE s : s = Halvings(s)
  OBVIOUS
<1>6. b = Halvings(b)
  BY <1>4, <1>5
<1>7. PoleBisect(ttv, ok, p) = b[ttv].lo
  BY <1>5 DEF PoleBisect, Mid, Next, Start
<1> DEFINE Good(c) == c \in T /\ 0 <= c.lo /\ c.lo <= c.hi /\ c.hi <= ttv /\ ok[c.lo]
           G == {n \in Nat : n <= ttv => Good(b[n])}
<1>8. Good(Start)
  BY DEF Start, T
<1>9. ASSUME NEW c, Good(c) PROVE Good(Next(c))
  <2>1. c.lo \in Int /\ c.hi \in Int /\ c \in T
    BY <1>9 DEF T
  <2>2. CASE c.hi - c.lo <= g
    <3>1. Next(c) = c
      BY <1>0, <2>2 DEF Next
    <3> QED
      BY <1>9, <3>1
  <2>3. CASE ~(c.hi - c.lo <= g)
    <3>1. PICK m \in Int : m = Mid(c) /\ c.lo <= m /\ m <= c.hi
      BY <1>1, <2>1, <2>3
    <3>2. Next(c) \in T
      BY <1>2, <2>1
    <3>3. CASE ok[m]
      <4>1. Next(c).lo = m /\ Next(c).hi = c.hi
        BY <1>0, <2>1, <2>3, <3>1, <3>3 DEF Next, T
      <4> QED
        BY <1>9, <2>1, <3>1, <3>2, <3>3, <4>1
    <3>4. CASE ~ok[m]
      <4>1. Next(c).lo = c.lo /\ Next(c).hi = m
        BY <1>0, <2>1, <2>3, <3>1, <3>4 DEF Next, T
      <4> QED
        BY <1>9, <2>1, <3>1, <3>2, <4>1
    <3> QED
      BY <3>3, <3>4
  <2> QED
    BY <2>2, <2>3
<1>10. b[0] = Start /\ \A n \in 1 .. ttv : b[n] = Next(b[n - 1])
  BY <1>6
<1> HIDE DEF Good
<1>11. 0 \in G
  BY <1>8, <1>10
<1>12. ASSUME NEW n \in Nat, n \in G PROVE n + 1 \in G
  <2> SUFFICES ASSUME n + 1 <= ttv PROVE Good(b[n + 1])
    OBVIOUS
  <2>1. Good(b[n])
    BY <1>12
  <2>2. n + 1 \in 1 .. ttv /\ b[(n + 1) - 1] = b[n]
    OBVIOUS
  <2> QED
    BY <1>9, <1>10, <2>1, <2>2
<1>13. ttv \in G
  <2> HIDE DEF G
  <2> QED
    BY <1>11, <1>12, StepByStep
<1>14. PICK c : c = b[ttv] /\ Good(c)
  BY <1>13
<1> QED
  BY <1>7, <1>14 DEF Good, T

\* A rescue of car v from x in tick at.
RescueOk(v, x, u, at, p) ==
  IF Q.plant = "pole" THEN PoleRecovers(x, u, at, References(v), p).ok
  ELSE Recoverable(x, u, at, References(v), p).ok

\* A rollout of the predictor, of the length of its horizon.
Rolled(v, out, from, p) == Held(out.x, out.u, from, p.horizon \div p.block, References(v), p)

\* A time to the point of no return is at most the horizon; one within it is that of a state
\* of the rollout from which a rescue succeeds.
LEMMA PnrRescues ==
  ASSUME NEW v, NEW out, NEW from \in Nat, NEW p \in PredictParams, p.computePnr,
         NEW warm \in Int, NEW t, t = PredictHeld(v, out, from, p, warm).ttpnr
  PROVE  /\ t \in 0 .. p.horizon
         /\ t \in 1 .. p.horizon - 1 =>
              RescueOk(v, Rolled(v, out, from, p)[t \div p.block], out.u, from + t, p)
<1>0. PICK H \in Nat, B \in Nat \ {0}, g \in Nat \ {0} :
        H = p.horizon /\ B = p.block /\ g = Grid(p)
  BY GridType
<1>1. PICK x, u, ref : x = out.x /\ u = out.u /\ ref = References(v)
  OBVIOUS
<1>2. PICK n \in Nat : n = H \div B
  <2>1. H \div B \in Nat
    BY Fits
  <2> QED
    BY <2>1
<1>3. PICK held : held = Held(x, u, from, n, ref, p)
  OBVIOUS
<1>4. Rolled(v, out, from, p) = held
  BY <1>0, <1>1, <1>2, <1>3 DEF Rolled
<1>5. CASE Q.plant # "pole"
  <2>1. PICK a : a = PredictHold(x, u, from, ref, p, warm) /\ t = a.ttpnr
    BY <1>1, <1>5 DEF PredictHeld
  <2>2. AnswerMeans(x, u, from, ref, p, warm) /\ AnswerOnGrid(a, p)
    BY <2>1, AnswerSound
  <2> DEFINE Grids == {i \in 0 .. p.horizon : i % Grid(p) = 0}
             Rescued(h) == Recoverable(held[h \div p.block], u, from + h, ref, p).ok
  <2>3. PICK recovers : recovers = [h \in Grids |-> Rescued(h)]
    OBVIOUS
  <2>4. /\ a.pastPnr => a.ttpnr = 0
        /\ ~a.pastPnr =>
             /\ recovers[a.rescueFrom]
             /\ a.ttpnr # a.rescueFrom => a.ttpnr = p.horizon
    BY <1>0, <1>2, <1>3, <2>1, <2>2, <2>3 DEF AnswerMeans
  <2>5. ~a.pastPnr => a.rescueFrom \in Grids
    BY <2>2 DEF AnswerOnGrid
  <2>6. t \in 0 .. H
    BY <1>0, <2>1, <2>4, <2>5
  <2>7. ASSUME t \in 1 .. H - 1 PROVE Recoverable(held[t \div B], u, from + t, ref, p).ok
    <3>1. ~a.pastPnr /\ t = a.rescueFrom
      BY <1>0, <2>1, <2>4, <2>7
    <3>2. Rescued(t)
      <4> HIDE DEF Rescued, Grids
      <4> QED
        BY <2>3, <2>4, <2>5, <3>1
    <3> QED
      BY <1>0, <3>2
  <2> QED
    BY <1>0, <1>1, <1>4, <1>5, <2>6, <2>7 DEF RescueOk
<1>6. CASE Q.plant = "pole"
  <2> DEFINE Rescued(h) == PoleRecovers(held[h \div p.block], u, from + h, ref, p)
  <2>1. PICK ttv : ttv = FirstBreach(held, p) /\ ttv \in 0 .. H
    <3>1. DOMAIN held = 0 .. n
      <4>1. HeldStates(held, x, u, from, n, ref, p)
        BY <1>3, HeldDefined
      <4> QED
        BY <4>1 DEF HeldStates
    <3> QED
      BY <1>0, <1>2, <3>1, BreachWithin
  <2>2. PICK ok : ok = [h \in 0 .. ttv |-> Rescued(h).ok]
    OBVIOUS
  <2>3. PICK last : last = PoleBisect(ttv, ok, p)
    OBVIOUS
  <2>4. PoleHeld(x, u, from, ref, p) = PoleVerdict(ttv, Rescued(0), last, p)
    BY <1>0, <1>2, <1>3, <2>1, <2>2, <2>3 DEF PoleHeld
  <2> HIDE DEF Rescued
  <2>5. t = IF Rescued(0).ok THEN last ELSE 0
    BY <1>1, <1>6, <2>4 DEF PredictHeld, PoleVerdict
  <2>6. ASSUME Rescued(0).ok PROVE last \in 0 .. ttv /\ ok[last]
    <3>1. ttv \in Nat /\ ok[0]
      BY <2>1, <2>2, <2>6
    <3> QED
      BY <2>3, <3>1, PoleBisectFinds
  <2>7. t \in 0 .. H
    BY <2>1, <2>5, <2>6
  <2>8. ASSUME t \in 1 .. H - 1 PROVE PoleRecovers(held[t \div B], u, from + t, ref, p).ok
    <3>1. Rescued(0).ok /\ t = last
      BY <2>5, <2>8
    <3>2. Rescued(t).ok
      BY <2>2, <2>6, <3>1
    <3> QED
      BY <1>0, <3>2 DEF Rescued
  <2> QED
    BY <1>0, <1>1, <1>4, <1>6, <2>7, <2>8 DEF RescueOk
<1> QED
  BY <1>5, <1>6

-----------------------------------------------------------------------------
(* Predictions as they age *)

\* Where a car that was at x after tick base has come to under the command that it holds.
CameTo(v, x, car, base, now) ==
  car.x = Held(x, car.u, base + 1, now - 1 - base, References(v), TickExact)[now - 1 - base]

(* While the command that was predicted with is held, the plant is on the path that begins
   with the output that the prediction was made from, and the cached answer is the answer of
   the rollout that begins there. *)
TtvKnows(v, ttv, base, out, car, latched, now) ==
  /\ ttv \in Nat /\ base \in Int /\ base < now
  /\ base >= 0 /\ latched <= base =>
       out.u = car.u /\ CameTo(v, out.x, car, base, now) /\ ttv = Violation(v, out, base + 1)

PnrKnows(v, ttpnr, base, out, car, latched, now) ==
  /\ ttpnr \in Int /\ base \in Int /\ base < now
  /\ base >= 0 /\ latched <= base =>
       /\ out.u = car.u /\ CameTo(v, out.x, car, base, now)
       /\ ttpnr \in 1 .. Q.params.horizon - 1 =>
            RescueOk(v, Rolled(v, out, base + 1, Q.params)[ttpnr \div Q.params.block], out.u,
                     base + 1 + ttpnr, Q.params)

AgedInv(State) ==
  /\ conf \in DOMAIN Config /\ step \in Nat
  /\ \A v \in Car :
       /\ plant[v].x \in State
       /\ \E S : past[v] \in Seq(S)
       /\ Len(past[v]) = step /\ \A j \in 1 .. step : past[v][j].x \in State
       /\ latchedAt[v] \in Int /\ latchedAt[v] < step
       /\ TtvKnows(v, cache[v].ttv, cache[v].base, past[v][cache[v].base + 1], plant[v],
                   latchedAt[v], step)
       /\ PnrKnows(v, cache[v].ttpnr, cache[v].pnrBase, past[v][cache[v].pnrBase + 1], plant[v],
                   latchedAt[v], step)

\* The parameters of both kinds of prediction, and of the plant's own steps.
LEMMA AgedType ==
  ASSUME conf \in DOMAIN Config
  PROVE  /\ Q.params \in PredictParams
         /\ \A b \in BOOLEAN :
              LET p == [Q.params EXCEPT !.computePnr = b]
              IN /\ p \in PredictParams /\ p.computePnr = b /\ p.block = Q.params.block
                 /\ p.horizon = Q.params.horizon /\ RescueLike(p, Q.params)
         /\ TtvOnly.block = Q.params.block /\ TtvOnly.horizon = Q.params.horizon
         /\ TickExact.block = 1 /\ TickExact.horizon = Q.params.horizon
<1>1. PICK r \in PredictParams : r = Q.params
  BY PredictorType
<1>2. ASSUME NEW b \in BOOLEAN, NEW p, p = [r EXCEPT !.computePnr = b]
      PROVE  /\ p \in PredictParams /\ p.computePnr = b /\ p.block = r.block
             /\ p.horizon = r.horizon /\ RescueLike(p, r)
  <2>1. p \in PredictParams
    BY <1>2 DEF PredictParams
  <2>2. p.computePnr = b /\ p.block = r.block /\ p.horizon = r.horizon
    BY <1>1, <1>2 DEF PredictParams
  <2>3. RescueLike(p, r)
    BY <1>2 DEF PredictParams, RescueLike
  <2> QED
    BY <2>1, <2>2, <2>3
<1>3. TtvOnly = [r EXCEPT !.computePnr = FALSE] /\ TickExact = [r EXCEPT !.block = 1]
  BY <1>1 DEF TtvOnly, TickExact
<1>4. TtvOnly.block = r.block /\ TtvOnly.horizon = r.horizon
  BY <1>2, <1>3
<1>5. TickExact.block = 1 /\ TickExact.horizon = r.horizon
  BY <1>3 DEF PredictParams
<1> QED
  BY <1>1, <1>2, <1>4, <1>5

\* The plant moves on along the path of a command that stays.
LEMMA CameOn ==
  ASSUME TickExact.block = 1, NEW v, NEW x, NEW car, NEW o, NEW base \in Nat, NEW now \in Nat,
         base < now, CameTo(v, x, car, base, now),
         o.x = Physics(car.x, car.u, References(v)[now]), o.u = car.u
  PROVE  CameTo(v, x, o, base, now + 1)
<1>1. PICK n \in Nat, m \in Nat, at \in Nat : n = now - 1 - base /\ m = n + 1 /\ at = base + 1
  <2>1. now - 1 - base \in Nat /\ base + 1 \in Nat
    OBVIOUS
  <2>2. (now - 1 - base) + 1 \in Nat
    BY <2>1
  <2> QED
    BY <2>1, <2>2, Zenon
<1>0. PICK p, u, ref : p = TickExact /\ u = car.u /\ ref = References(v)
  OBVIOUS
<1>2. PICK s, t : s = Held(x, u, at, m, ref, p) /\ t = Held(x, u, at, n, ref, p)
  OBVIOUS
<1>3. t[n] = s[n]
  BY <1>0, <1>1, <1>2, OnTheWay
<1>4. s[m] = Physics(s[n], u, ref[now])
  <2>1. \A k \in 1 .. m : s[k] = Physics(s[k - 1], u, ref[at + (k - 1)])
    BY <1>0, <1>2, HeldSteps
  <2>2. m \in 1 .. m /\ m - 1 = n /\ at + n = now
    BY <1>1
  <2>3. s[m] = Physics(s[m - 1], u, ref[at + (m - 1)])
    BY <2>1, <2>2
  <2> QED
    BY <2>2, <2>3
<1>5. car.x = t[n]
  BY <1>0, <1>1, <1>2 DEF CameTo
<1>6. o.x = s[m]
  BY <1>0, <1>2, <1>3, <1>4, <1>5
<1>7. m = now + 1 - 1 - base
  BY <1>1
<1> QED
  BY <1>0, <1>1, <1>2, <1>6, <1>7 DEF CameTo

\* A prediction starts where the plant is.
LEMMA CameToItself ==
  ASSUME TickExact.block = 1, NEW v, NEW car, NEW now \in Nat
  PROVE  CameTo(v, car.x, car, now, now + 1)
<1>1. PICK at \in Nat, n \in Nat : at = now + 1 /\ n = 0 /\ n = now + 1 - 1 - now
  OBVIOUS
<1>2. PICK p, ref, x, u : p = TickExact /\ ref = References(v) /\ x = car.x /\ u = car.u
  OBVIOUS
<1>3. Held(x, u, at, n, ref, p)[0] = x
  <2>1. p.block = 1
    BY <1>2
  <2>2. Holds(Held(x, u, at, n, ref, p), x, u, at, n, ref)
    BY <2>1, HeldHolds
  <2> QED
    BY <2>2 DEF Holds
<1> QED
  BY <1>1, <1>2, <1>3 DEF CameTo

\* What is cached stays true of a car whose command stays; a fresh command ends it.
LEMMA StillKnows ==
  ASSUME TickExact.block = 1, NEW v, NEW car, NEW o, NEW now \in Nat, NEW latched \in Int,
         NEW later, \/ later = latched /\ o.u = car.u
                    \/ later = now,
         o.x = Physics(car.x, car.u, References(v)[now]), NEW t, NEW base,
         NEW out, NEW same, base >= 0 => same = out
  PROVE  /\ TtvKnows(v, t, base, out, car, latched, now) =>
              TtvKnows(v, t, base, same, o, later, now + 1)
         /\ PnrKnows(v, t, base, out, car, latched, now) =>
              PnrKnows(v, t, base, same, o, later, now + 1)
<1>1. ASSUME base \in Int, base < now, base >= 0, later <= base
      PROVE  /\ latched <= base /\ o.u = car.u /\ same = out
             /\ \A x : CameTo(v, x, car, base, now) => CameTo(v, x, o, base, now + 1)
  <2>1. later = latched /\ o.u = car.u
    BY <1>1
  <2>2. base \in Nat
    BY <1>1
  <2> QED
    BY <1>1, <2>1, <2>2, CameOn
<1>2. base \in Int /\ base < now => base < now + 1
  OBVIOUS
<1>3. ASSUME TtvKnows(v, t, base, out, car, latched, now)
      PROVE  TtvKnows(v, t, base, same, o, later, now + 1)
  BY <1>1, <1>2, <1>3 DEF TtvKnows
<1>4. ASSUME PnrKnows(v, t, base, out, car, latched, now)
      PROVE  PnrKnows(v, t, base, same, o, later, now + 1)
  BY <1>1, <1>2, <1>4 DEF PnrKnows
<1> QED
  BY <1>3, <1>4

\* A prediction that was made in this tick.
LEMMA FreshKnows ==
  ASSUME conf \in DOMAIN Config, NEW v, NEW c, c.ttpnr \in Int,
         c.pnrBase \in Int, NEW o, step \in Nat,
         NEW withPnr \in BOOLEAN, NEW later, later <= step,
         NEW d, d = Refreshed(v, c, o, withPnr)
  PROVE  /\ d.base = step /\ TtvKnows(v, d.ttv, d.base, o, o, later, step + 1)
         /\ withPnr => d.pnrBase = step /\ PnrKnows(v, d.ttpnr, d.pnrBase, o, o, later, step + 1)
         /\ ~withPnr => d.ttpnr = c.ttpnr /\ d.pnrBase = c.pnrBase
<1>1. PICK p, warm, from, H, n :
        /\ p = [Q.params EXCEPT !.computePnr = withPnr] /\ H = Q.params.horizon
        /\ warm = (IF withPnr THEN WarmHint(c) ELSE -1) /\ from = step + 1
        /\ n = Q.params.horizon \div Q.params.block
  OBVIOUS
<1>2. /\ p \in PredictParams /\ p.computePnr = withPnr /\ p.block = Q.params.block
      /\ p.horizon = H /\ RescueLike(p, Q.params) /\ Q.params \in PredictParams
      /\ TtvOnly.block = p.block /\ TtvOnly.horizon = H /\ TickExact.block = 1
      /\ H \in Nat /\ from \in Nat
  <2>1. /\ p \in PredictParams /\ p.computePnr = withPnr /\ p.block = Q.params.block
        /\ p.horizon = H /\ RescueLike(p, Q.params) /\ Q.params \in PredictParams
        /\ TtvOnly.block = Q.params.block /\ TtvOnly.horizon = H /\ TickExact.block = 1
    BY <1>1, AgedType
  <2>2. H \in Nat
    BY <2>1, GridType
  <2> QED
    BY <1>1, <2>1, <2>2
<1>3. warm \in Int
  <2>1. CASE withPnr /\ c.pnrBase >= 0 /\ c.ttpnr < H
    <3>1. PICK e \in Int : e = c.ttpnr - (step - c.pnrBase)
      OBVIOUS
    <3>2. Max({0, e}) \in Int
      BY MaxOfTwo
    <3> QED
      BY <1>1, <2>1, <3>1, <3>2 DEF WarmHint
  <2>2. CASE ~(withPnr /\ c.pnrBase >= 0 /\ c.ttpnr < H)
    BY <1>1, <2>2 DEF WarmHint
  <2> QED
    BY <2>1, <2>2
<1>4. PICK pr : pr = PredictHeld(v, o, from, p, warm)
  OBVIOUS
<1>5. d = Cached(c, pr, withPnr)
  BY <1>1, <1>4 DEF Refreshed
<1>6. /\ d.ttv = pr.ttv /\ d.base = step
      /\ withPnr => d.ttpnr = pr.ttpnr /\ d.pnrBase = step
      /\ ~withPnr => d.ttpnr = c.ttpnr /\ d.pnrBase = c.pnrBase
  BY <1>5 DEF Cached
<1>7. CameTo(v, o.x, o, step, step + 1)
  BY <1>2, CameToItself
<1>8. TtvKnows(v, d.ttv, d.base, o, o, later, step + 1)
  <2>1. pr.ttv = Violation(v, o, from)
    BY <1>2, <1>4, ViolationAlike DEF Violation
  <2>2. pr.ttv \in Nat
    <3>1. PICK held : held = Rolled(v, o, from, p)
      OBVIOUS
    <3>2. PICK m \in Nat : m = p.horizon \div p.block
      <4>1. PICK h \in Nat, b \in Nat \ {0} : h = p.horizon /\ b = p.block
        BY <1>2, GridType
      <4>2. h \div b \in Nat
        BY Fits
      <4> QED
        BY <4>1, <4>2
    <3>3. DOMAIN held = 0 .. m
      <4>1. PICK x, u, ref : x = o.x /\ u = o.u /\ ref = References(v)
        OBVIOUS
      <4>2. held = Held(x, u, from, m, ref, p)
        BY <3>1, <3>2, <4>1 DEF Rolled
      <4>3. HeldStates(held, x, u, from, m, ref, p)
        BY <4>2, HeldDefined
      <4> QED
        BY <4>3 DEF HeldStates
    <3>4. FirstBreach(held, p) \in 0 .. p.horizon
      BY <1>2, <3>2, <3>3, BreachWithin
    <3>5. pr.ttv = FirstBreach(held, p)
      BY <1>4, <3>1, ViolationOf DEF Rolled
    <3> QED
      BY <1>2, <3>4, <3>5
  <2> QED
    BY <1>1, <1>6, <1>7, <2>1, <2>2 DEF TtvKnows
<1>9. ASSUME withPnr PROVE PnrKnows(v, d.ttpnr, d.pnrBase, o, o, later, step + 1)
  <2>1. PICK t, k : t = pr.ttpnr /\ k = t \div p.block
    OBVIOUS
  <2>2. /\ t \in 0 .. H
        /\ t \in 1 .. H - 1 => RescueOk(v, Rolled(v, o, from, p)[k], o.u, from + t, p)
    BY <1>2, <1>3, <1>4, <1>9, <2>1, PnrRescues
  <2>3. ASSUME t \in 1 .. H - 1
        PROVE  RescueOk(v, Rolled(v, o, from, Q.params)[k], o.u, from + t, Q.params)
    <3>1. Rolled(v, o, from, p) = Rolled(v, o, from, Q.params)
      <4>1. PICK q : q = Q.params /\ p.block = q.block /\ p.horizon = q.horizon
        <5>1. p.block = Q.params.block /\ p.horizon = Q.params.horizon
          BY <1>1, <1>2
        <5> QED
          BY <5>1
      <4>2. PICK x, u, m, ref : /\ x = o.x /\ u = o.u /\ ref = References(v)
                                /\ m = p.horizon \div p.block
        OBVIOUS
      <4>3. Held(x, u, from, m, ref, p) = Held(x, u, from, m, ref, q)
        BY <4>1, HeldAlike
      <4> QED
        BY <4>1, <4>2, <4>3 DEF Rolled
    <3>2. \A x, at : RescueOk(v, x, o.u, at, p) = RescueOk(v, x, o.u, at, Q.params)
      <4>1. ASSUME NEW body, NEW x, NEW at
            PROVE  Rescue(body, x, o.u, at, References(v), p)
                     = Rescue(body, x, o.u, at, References(v), Q.params)
        BY <1>2, RescueAlike
      <4> QED
        BY <4>1 DEF RescueOk, PoleRecovers, Recoverable
    <3> QED
      BY <2>2, <2>3, <3>1, <3>2
  <2>4. /\ d.ttpnr = t /\ d.pnrBase = step /\ from = step + 1 /\ H = Q.params.horizon
        /\ k = t \div Q.params.block
    BY <1>1, <1>2, <1>6, <1>9, <2>1
  <2> QED
    BY <1>7, <2>2, <2>3, <2>4 DEF PnrKnows
<1> QED
  BY <1>6, <1>8, <1>9

\* What is known is about the track, the fleet and the configuration, besides its arguments.
LEMMA AgedStays ==
  ASSUME conf' = conf, track' = track, offsets' = offsets
  PROVE  \A v, t, b, o, c, l, n :
           /\ TtvKnows(v, t, b, o, c, l, n)' = TtvKnows(v, t, b, o, c, l, n)
           /\ PnrKnows(v, t, b, o, c, l, n)' = PnrKnows(v, t, b, o, c, l, n)
<1>1. This' = This /\ Q' = Q
  BY DEF This, Q
<1>2. \A v, o, from : Violation(v, o, from)' = Violation(v, o, from)
  BY <1>1 DEF Violation, PredictHeld, References, Reference, Disturbance, TtvOnly, Q, This
<1>3. \A v : References(v)' = References(v)
  BY <1>1 DEF References, Reference, Disturbance, Q, This
<1>4. TickExact' = TickExact
  BY <1>1 DEF TickExact
<1>5. \A v, x, c, b, n : CameTo(v, x, c, b, n)' = CameTo(v, x, c, b, n)
  BY <1>3, <1>4 DEF CameTo
<1>6. \A v, t, b, o, c, l, n : TtvKnows(v, t, b, o, c, l, n)' = TtvKnows(v, t, b, o, c, l, n)
  <2> SUFFICES ASSUME NEW v, NEW t, NEW b, NEW o, NEW c, NEW l, NEW n
               PROVE  TtvKnows(v, t, b, o, c, l, n)' = TtvKnows(v, t, b, o, c, l, n)
    OBVIOUS
  <2>1. /\ CameTo(v, o.x, c, b, n)' = CameTo(v, o.x, c, b, n)
        /\ Violation(v, o, b + 1)' = Violation(v, o, b + 1)
    BY <1>2, <1>5
  <2> QED
    BY <2>1 DEF TtvKnows
<1>7. \A v, t, b, o, c, l, n : PnrKnows(v, t, b, o, c, l, n)' = PnrKnows(v, t, b, o, c, l, n)
  BY <1>1, <1>3, <1>5 DEF PnrKnows, Rolled, RescueOk
<1> QED
  BY <1>6, <1>7

LEMMA AgedTick ==
  ASSUME NEW State, Dynamics(State), AgedInv(State), PlantTick, conf' = conf, track' = track,
         offsets' = offsets, step' = step + 1
  PROVE  AgedInv(State)'
<1>1. /\ conf \in DOMAIN Config /\ step \in Nat /\ This' = This /\ Car' = Car /\ Q' = Q
  BY DEF AgedInv, This, Car, Q
<1>2. PICK command \in [Car -> Commands] :
        LET o == [v \in Car |-> Moved(v, command[v])]
        IN /\ plant' = o
           /\ cache' = [v \in Car |->
                IF step % Q.refresh = 0
                  THEN Refreshed(v, cache[v], o[v], step % Q.pnrRefresh = 0) ELSE cache[v]]
           /\ past' = [v \in Car |-> Append(past[v], o[v])]
           /\ latchedAt' = [v \in Car |-> IF command[v] = {} THEN latchedAt[v] ELSE step]
  BY DEF PlantTick
<1>3. \A v, t, b, o, c, l, n :
        /\ TtvKnows(v, t, b, o, c, l, n)' = TtvKnows(v, t, b, o, c, l, n)
        /\ PnrKnows(v, t, b, o, c, l, n)' = PnrKnows(v, t, b, o, c, l, n)
  BY AgedStays
<1>8. ASSUME NEW v \in Car
      PROVE  /\ plant'[v].x \in State
             /\ \E S : past'[v] \in Seq(S)
             /\ Len(past'[v]) = step + 1 /\ \A j \in 1 .. step + 1 : past'[v][j].x \in State
             /\ latchedAt'[v] \in Int /\ latchedAt'[v] < step + 1
             /\ TtvKnows(v, cache'[v].ttv, cache'[v].base, past'[v][cache'[v].base + 1],
                         plant'[v], latchedAt'[v], step + 1)
             /\ PnrKnows(v, cache'[v].ttpnr, cache'[v].pnrBase,
                         past'[v][cache'[v].pnrBase + 1], plant'[v], latchedAt'[v], step + 1)
  <2>1. PICK o, c, car, old, latched, later, now, withPnr :
          /\ o = Moved(v, command[v]) /\ c = cache[v] /\ car = plant[v] /\ now = step
          /\ old = past[v] /\ latched = latchedAt[v]
          /\ later = (IF command[v] = {} THEN latched ELSE now)
          /\ withPnr = (step % Q.pnrRefresh = 0)
    OBVIOUS
  <2>2. /\ plant'[v] = o /\ past'[v] = Append(old, o) /\ latchedAt'[v] = later
        /\ cache'[v] = c \/ cache'[v] = Refreshed(v, c, o, withPnr)
    <3> HIDE DEF Moved, Refreshed
    <3>1. plant'[v] = o /\ past'[v] = Append(old, o) /\ latchedAt'[v] = later
      BY <1>2, <2>1
    <3>2. cache'[v] = IF step % Q.refresh = 0
                        THEN Refreshed(v, cache[v], o, step % Q.pnrRefresh = 0) ELSE cache[v]
      BY <1>2, <2>1
    <3> QED
      BY <2>1, <3>1, <3>2
  <2>3. /\ latched \in Int /\ latched < now /\ now \in Nat /\ car.x \in State
        /\ Len(old) = now /\ \A j \in 1 .. now : old[j].x \in State
        /\ TtvKnows(v, c.ttv, c.base, old[c.base + 1], car, latched, now)
        /\ PnrKnows(v, c.ttpnr, c.pnrBase, old[c.pnrBase + 1], car, latched, now)
    BY <1>1, <2>1 DEF AgedInv
  <2>4. /\ o.x = Physics(car.x, car.u, References(v)[now]) /\ o.x \in State
        /\ (later = latched /\ o.u = car.u) \/ later = now
    <3>1. References(v)[now] = Reference(v, now)
      BY <2>3 DEF References
    <3> QED
      BY <2>1, <2>3, <3>1 DEF Moved, Dynamics
  <2>5. PICK next : /\ next = past'[v] /\ next = Append(old, o) /\ \E S : next \in Seq(S)
                    /\ \A j \in 1 .. now : next[j] = old[j]
                    /\ next[now + 1] = o /\ Len(next) = now + 1
    <3>1. PICK S : old \in Seq(S)
      BY <2>1 DEF AgedInv
    <3>2. PICK T : T = S \cup {o}
      OBVIOUS
    <3>3. old \in Seq(T) /\ o \in T
      BY <3>1, <3>2
    <3> QED
      BY <2>2, <2>3, <3>3, AppendProperties
  <2>6. \A j \in 1 .. now + 1 : next[j].x \in State
    <3>1. \A j \in 1 .. now + 1 : j \in 1 .. now \/ j = now + 1
      BY <2>3
    <3> QED
      BY <2>3, <2>4, <2>5, <3>1
  <2>7. TickExact.block = 1
    BY <1>1, AgedType
  <2>8. /\ TtvKnows(v, c.ttv, c.base, next[c.base + 1], o, later, now + 1)
        /\ PnrKnows(v, c.ttpnr, c.pnrBase, next[c.pnrBase + 1], o, later, now + 1)
    <3>1. ASSUME NEW b \in Int, b < now, b >= 0 PROVE next[b + 1] = old[b + 1]
      BY <2>3, <2>5, <3>1
    <3>2. c.base \in Int /\ c.base < now /\ c.pnrBase \in Int /\ c.pnrBase < now
      BY <2>3 DEF TtvKnows, PnrKnows
    <3>3. /\ c.base >= 0 => next[c.base + 1] = old[c.base + 1]
          /\ c.pnrBase >= 0 => next[c.pnrBase + 1] = old[c.pnrBase + 1]
      BY <3>1, <3>2
    <3> QED
      BY <2>3, <2>4, <2>7, <3>3, StillKnows
  <2>9. later \in Int /\ later <= now
    BY <2>1, <2>3
  <2>10. later \in Int /\ later < step + 1 /\ step + 1 = now + 1
    BY <2>1, <2>3, <2>9
  <2>11. PICK d : d = cache'[v]
    OBVIOUS
  <2>12. /\ TtvKnows(v, d.ttv, d.base, next[d.base + 1], o, later, now + 1)
         /\ PnrKnows(v, d.ttpnr, d.pnrBase, next[d.pnrBase + 1], o, later, now + 1)
    <3>1. CASE d = c
      BY <2>8, <3>1
    <3>2. CASE d = Refreshed(v, c, o, withPnr)
      <4>1. c.ttpnr \in Int /\ c.pnrBase \in Int
        BY <2>3 DEF PnrKnows
      <4>2. withPnr \in BOOLEAN /\ later <= step /\ now = step
        BY <2>1, <2>9
      <4>3. /\ d.base = now /\ TtvKnows(v, d.ttv, d.base, o, o, later, now + 1)
            /\ withPnr => d.pnrBase = now /\ PnrKnows(v, d.ttpnr, d.pnrBase, o, o, later, now + 1)
            /\ ~withPnr => d.ttpnr = c.ttpnr /\ d.pnrBase = c.pnrBase
        BY <1>1, <3>2, <4>1, <4>2, FreshKnows
      <4>4. TtvKnows(v, d.ttv, d.base, next[d.base + 1], o, later, now + 1)
        BY <2>5, <4>3
      <4>5. PnrKnows(v, d.ttpnr, d.pnrBase, next[d.pnrBase + 1], o, later, now + 1)
        <5>1. CASE withPnr
          BY <2>5, <4>3, <5>1
        <5>2. CASE ~withPnr
          BY <2>8, <4>3, <5>2
        <5> QED
          BY <4>2, <5>1, <5>2
      <4> QED
        BY <4>4, <4>5
    <3> QED
      BY <2>2, <2>11, <3>1, <3>2
  <2>13. /\ plant'[v] = o /\ past'[v] = next /\ latchedAt'[v] = later /\ cache'[v] = d
    BY <2>2, <2>5, <2>11
  <2> QED
    BY <2>4, <2>5, <2>6, <2>10, <2>12, <2>13
<1>9. step' \in Nat /\ conf' \in DOMAIN Config
  BY <1>1
<1>10. AgedInv(State)' =
         /\ conf' \in DOMAIN Config /\ step' \in Nat
         /\ \A v \in Car' :
              /\ plant'[v].x \in State
              /\ \E S : past'[v] \in Seq(S)
              /\ Len(past'[v]) = step' /\ \A j \in 1 .. step' : past'[v][j].x \in State
              /\ latchedAt'[v] \in Int /\ latchedAt'[v] < step'
              /\ TtvKnows(v, cache'[v].ttv, cache'[v].base, past'[v][cache'[v].base + 1],
                          plant'[v], latchedAt'[v], step')
              /\ PnrKnows(v, cache'[v].ttpnr, cache'[v].pnrBase,
                          past'[v][cache'[v].pnrBase + 1], plant'[v], latchedAt'[v], step')
  BY <1>3, Zenon DEF AgedInv
<1> QED
  BY <1>1, <1>8, <1>9, <1>10, Zenon

LEMMA AgedStart ==
  ASSUME NEW State, Dynamics(State), Init, PlantInit
  PROVE  AgedInv(State)
<1>1. conf \in DOMAIN Config /\ step = 0
  BY DEF Init
<1>2. ASSUME NEW v \in Car
      PROVE  /\ plant[v].x \in State
             /\ \E S : past[v] \in Seq(S)
             /\ Len(past[v]) = step /\ \A j \in 1 .. step : past[v][j].x \in State
             /\ latchedAt[v] \in Int /\ latchedAt[v] < step
             /\ TtvKnows(v, cache[v].ttv, cache[v].base, past[v][cache[v].base + 1], plant[v],
                         latchedAt[v], step)
             /\ PnrKnows(v, cache[v].ttpnr, cache[v].pnrBase, past[v][cache[v].pnrBase + 1],
                         plant[v], latchedAt[v], step)
  <2>1. /\ latchedAt[v] = -1 /\ cache[v] = NoPrediction /\ plant[v] = [x |-> AtRest, u |-> 0]
        /\ past[v] = <<>>
    BY DEF PlantInit
  <2>2. PICK H \in Nat : H = Q.params.horizon
    BY <1>1, PredictorType, GridType
  <2>3. /\ NoPrediction.ttv = 0 /\ NoPrediction.base = -1
        /\ NoPrediction.ttpnr = H /\ NoPrediction.pnrBase = -1
    BY <2>2 DEF NoPrediction
  <2>4. \E S : past[v] \in Seq(S)
    <3>1. past[v] \in Seq({})
      BY <2>1
    <3> QED
      BY <3>1
  <2>5. /\ TtvKnows(v, cache[v].ttv, cache[v].base, past[v][cache[v].base + 1], plant[v],
                    latchedAt[v], step)
        /\ PnrKnows(v, cache[v].ttpnr, cache[v].pnrBase, past[v][cache[v].pnrBase + 1],
                    plant[v], latchedAt[v], step)
    BY <1>1, <2>1, <2>3 DEF TtvKnows, PnrKnows
  <2> QED
    BY <1>1, <2>1, <2>4, <2>5 DEF Dynamics
<1> QED
  BY <1>1, <1>2 DEF AgedInv

\* A window of so many numbers has a multiple in it.
LEMMA MultipleWithin ==
  ASSUME NEW a \in Nat, NEW n \in Nat \ {0}
  PROVE  \E j \in Nat : a <= j * n /\ j * n <= a + n - 1
<1>1. PICK m \in Nat : m = a + n - 1
  OBVIOUS
<1>2. PICK q \in Nat : q = m \div n /\ n * q <= m
  BY <1>1, Fits
<1>3. PICK j \in Int, r \in 0 .. n - 1 : m = n * j + r /\ m \div n = j
  BY Parts, ZenonT(60)
<1>4. j * n = n * q /\ j \in Nat
  BY <1>2, <1>3
<1>5. a <= j * n /\ j * n <= a + n - 1
  BY <1>1, <1>3, <1>4
<1> QED
  BY <1>4, <1>5

\* Over the bound by one error is over it by less in the other.
LEMMA Nearly ==
  ASSUME HardBound \in Int, NEW x, NEW y, ErrorOf(x) \in Int, ErrorOf(y) \in Int, NEW err \in Nat,
         Magnitude(ErrorOf(x) - ErrorOf(y)) <= err
  PROVE  /\ Breached(x) => Distance(y) >= HardBound + -err
         /\ Distance(y) >= HardBound + err => Breached(x)
<1>1. PICK a \in Int, b \in Int, h \in Int : a = ErrorOf(x) /\ b = ErrorOf(y) /\ h = HardBound
  OBVIOUS
<1>2. Magnitude(a - b) <= err
  BY <1>1
<1>3. -err <= a - b /\ a - b <= err
  BY <1>2 DEF Magnitude
<1>4. /\ Distance(x) = (IF a < 0 THEN -a ELSE a)
      /\ Distance(y) = (IF b < 0 THEN -b ELSE b)
  BY <1>1 DEF Distance
<1> QED
  BY <1>1, <1>3, <1>4 DEF Breached

\* The time to violation, from what the rollout and the plant go through: an announced
\* violation comes a tick later, and one that lasts a rollout step is announced in time.
LEMMA TtvStands ==
  ASSUME NEW State, Dynamics(State), HardBound \in Int, AgedInv(State), NEW v \in Car, NEW c,
         c = cache[v], HeldSince(v, c.base)
  PROVE  AgedTtvSound(v, c)
<1>1. PICK out, car, latched : /\ out = past[v][c.base + 1] /\ car = plant[v]
                               /\ latched = latchedAt[v]
  OBVIOUS
<1>2. /\ conf \in DOMAIN Config /\ step \in Nat /\ c.base >= 0 /\ latched <= c.base
      /\ TtvKnows(v, c.ttv, c.base, out, car, latched, step)
  BY <1>1 DEF AgedInv, HeldSince
<1>3. PICK H \in Nat, B \in Nat \ {0}, m \in Nat :
        /\ H = Q.params.horizon /\ B = Q.params.block /\ m = H \div B /\ B * m <= H
        /\ Q.params \in PredictParams
        /\ TtvOnly.block = B /\ TtvOnly.horizon = H
        /\ TickExact.block = 1 /\ TickExact.horizon = H
  <2>1. PICK H \in Nat, B \in Nat \ {0} : H = Q.params.horizon /\ B = Q.params.block
    BY <1>2, PredictorType, GridType
  <2>2. H \div B \in Nat /\ B * (H \div B) <= H
    BY Fits
  <2> QED
    BY <1>2, <2>1, <2>2, AgedType
<1>4. PICK b \in Nat, n \in Nat, at \in Nat :
        b = c.base /\ n = step - b - 1 /\ at = b + 1 /\ at + n = step /\ n = step - 1 - b
  BY <1>2 DEF TtvKnows
<1>5. /\ out.u = car.u /\ CameTo(v, out.x, car, b, step) /\ c.ttv = Violation(v, out, at)
      /\ c.ttv \in Nat
  BY <1>2, <1>4 DEF TtvKnows
<1>6. PICK x, u, ref, q : x = out.x /\ u = out.u /\ ref = References(v) /\ q = TickExact
  OBVIOUS
<1>7. x \in State
  <2>1. b + 1 \in 1 .. step
    BY <1>2, <1>4
  <2> QED
    BY <1>1, <1>4, <1>6, <2>1 DEF AgedInv
<1>8. PICK rolled, exact : /\ rolled = HoldFrom(v, b, Q.params) /\ exact = HoldFrom(v, b, TickExact)
                           /\ rolled = Held(x, u, at, m, ref, Q.params)
                           /\ exact = Held(x, u, at, H, ref, q)
  <2>1. HoldFrom(v, b, Q.params) = Held(x, u, at, m, ref, Q.params)
    BY <1>1, <1>3, <1>4, <1>6 DEF HoldFrom
  <2>2. H \div 1 = H
    OBVIOUS
  <2>3. HoldFrom(v, b, TickExact) = Held(x, u, at, H, ref, q)
    BY <1>1, <1>3, <1>4, <1>6, <2>2 DEF HoldFrom
  <2> QED
    BY <2>1, <2>3
<1>9. /\ DOMAIN rolled = 0 .. m /\ \A k \in 0 .. m : ErrorOf(rolled[k]) \in Int
      /\ \A k \in 0 .. H : ErrorOf(exact[k]) \in Int
  <2>1. DOMAIN rolled = 0 .. m /\ \A k \in 0 .. m : rolled[k] \in State
    BY <1>3, <1>7, <1>8, HeldStays
  <2>2. \A k \in 0 .. H : exact[k] \in State
    <3>1. q.block \in Nat
      BY <1>3, <1>6
    <3> QED
      BY <1>7, <1>8, <3>1, HeldStays
  <2> QED
    BY <2>1, <2>2 DEF Dynamics
<1>10. ASSUME NEW k \in 0 .. m PROVE k * B \in 0 .. H
  <2>1. k * B \in Nat /\ k * B <= m * B
    OBVIOUS
  <2>2. m * B = B * m
    OBVIOUS
  <2> QED
    BY <1>3, <2>1, <2>2
<1>11. PICK err \in Nat : err = RolloutError(v, b) /\ Within(rolled, exact, m, B, err)
  <2>1. PICK e : e = Max({Magnitude(ErrorOf(rolled[k]) - ErrorOf(exact[k * B])) : k \in 0 .. m})
    OBVIOUS
  <2>2. \A k \in 0 .. m : ErrorOf(rolled[k]) \in Int /\ ErrorOf(exact[k * B]) \in Int
    BY <1>9, <1>10
  <2>3. Within(rolled, exact, m, B, e)
    BY <2>1, <2>2, GreatestDifference
  <2>4. e = RolloutError(v, b)
    BY <1>3, <1>8, <2>1 DEF RolloutError
  <2> QED
    BY <2>3, <2>4 DEF Within
<1>12. PICK ttv \in 0 .. H : ttv = c.ttv /\ IsFirst(ttv, rolled, m, B, H)
  <2>1. Violation(v, out, at) = PredictHeld(v, out, at, Q.params, -1).ttv
    <3>1. PICK p : p = TtvOnly /\ p.block = Q.params.block /\ p.horizon = Q.params.horizon
      BY <1>3
    <3> QED
      BY <3>1, ViolationAlike DEF Violation
  <2>2. PredictHeld(v, out, at, Q.params, -1).ttv = FirstBreach(rolled, Q.params)
    BY <1>3, <1>6, <1>8, ViolationOf
  <2>3. IsFirst(FirstBreach(rolled, Q.params), rolled, m, B, H)
    BY <1>3, <1>9, BreachIsFirst
  <2>4. FirstBreach(rolled, Q.params) \in 0 .. H
    BY <2>3 DEF IsFirst
  <2> QED
    BY <1>5, <2>1, <2>2, <2>3, <2>4
<1>13. ASSUME NEW k \in Nat, n + k <= H PROVE HeldFor(v, k) = exact[n + k]
  <2>1. car.x = Held(x, u, at, n, ref, q)[n]
    BY <1>4, <1>5, <1>6 DEF CameTo
  <2>2. PICK y : y = car.x
    OBVIOUS
  <2>3. Held(y, u, step, k, ref, q)[k] = Held(x, u, at, H, ref, q)[n + k]
    <3>1. q.block = 1 /\ step = at + n
      BY <1>3, <1>4, <1>6
    <3>2. y = Held(x, u, at, n, ref, q)[n]
      BY <2>1, <2>2
    <3>3. Held(Held(x, u, at, n, ref, q)[n], u, at + n, k, ref, q)[k]
            = Held(x, u, at, H, ref, q)[n + k]
      BY <1>13, <3>1, PathGoesOn
    <3> QED
      BY <3>1, <3>2, <3>3
  <2>4. HeldFor(v, k) = Held(y, u, step, k, ref, q)[k]
    BY <1>1, <1>5, <1>6, <2>2 DEF HeldFor
  <2> QED
    BY <1>8, <2>3, <2>4
<1>14. ttv < H => CurrentTtv(c, step) = Max({0, ttv - n - 1})
  <2>1. ttv - (step - b) = ttv - n - 1
    BY <1>2, <1>4
  <2>2. ttv < H => ~(b < 0 \/ ttv >= Q.params.horizon)
    BY <1>3
  <2>3. ttv < H => AgedTicks(ttv, b, step) = Max({0, ttv - n - 1})
    BY <2>1, <2>2 DEF AgedTicks
  <2> QED
    BY <1>4, <1>12, <2>3 DEF CurrentTtv
<1>15. ASSUME ttv \in n .. H - 1
       PROVE  /\ CurrentTtv(c, step) = Max({0, ttv - n - 1})
              /\ Distance(HeldFor(v, ttv - n)) >= HardBound + -err
  <2>1. ttv < H
    BY <1>15
  <2>2. PICK k \in 0 .. m : ttv = k * B /\ Breached(rolled[k])
    BY <1>12, <2>1 DEF IsFirst
  <2>3. HeldFor(v, ttv - n) = exact[ttv]
    <3>1. PICK l \in Nat : l = ttv - n /\ n + l = ttv
      BY <1>15
    <3>2. n + l <= H
      BY <2>1, <3>1
    <3> QED
      BY <1>13, <3>1, <3>2
  <2>4. /\ ErrorOf(rolled[k]) \in Int /\ ErrorOf(exact[ttv]) \in Int
        /\ Magnitude(ErrorOf(rolled[k]) - ErrorOf(exact[ttv])) <= err
    BY <1>11, <2>2 DEF Within
  <2>5. Distance(exact[ttv]) >= HardBound + -err
    BY <2>2, <2>4, Nearly
  <2> QED
    BY <1>14, <2>1, <2>3, <2>5
<1>16. ASSUME NEW k \in 0 .. H - n - B,
              \A j \in k .. k + B - 1 : Distance(HeldFor(v, j)) >= HardBound + err
       PROVE  CurrentTtv(c, step) <= Max({0, k + B - 2})
  <2>1. PICK a \in Nat : a = n + k /\ k \in Nat /\ a + B <= H
    BY <1>16
  <2>2. PICK j \in Nat : a <= j * B /\ j * B <= a + B - 1
    BY MultipleWithin
  <2>3. PICK t \in Nat, l \in Nat : t = j * B /\ l = t - n /\ n + l = t
    BY <2>1, <2>2
  <2>4. t < H /\ l \in k .. k + B - 1 /\ t <= a + B - 1
    BY <2>1, <2>2, <2>3
  <2>5. j \in 0 .. m
    <3> SUFFICES ASSUME j >= m + 1 PROVE FALSE
      BY <2>2
    <3>1. PICK r \in 0 .. B - 1 : H = B * m + r
      <4>1. PICK i \in Int, s \in 0 .. B - 1 : H = B * i + s /\ H \div B = i
        BY Parts, ZenonT(60)
      <4> QED
        BY <1>3, <4>1
    <3>2. j * B >= (m + 1) * B
      OBVIOUS
    <3>3. (m + 1) * B = B * m + B
      OBVIOUS
    <3> QED
      BY <2>3, <2>4, <3>1, <3>2, <3>3
  <2>6. Distance(exact[t]) >= HardBound + err
    <3>1. HeldFor(v, l) = exact[t]
      BY <1>13, <2>3, <2>4
    <3> QED
      BY <1>16, <2>4, <3>1
  <2>7. Breached(rolled[j])
    <3>1. /\ ErrorOf(rolled[j]) \in Int /\ ErrorOf(exact[t]) \in Int
          /\ Magnitude(ErrorOf(rolled[j]) - ErrorOf(exact[t])) <= err
      BY <1>11, <2>3, <2>5 DEF Within
    <3> QED
      BY <2>6, <3>1, Nearly
  <2>8. ttv <= t
    BY <1>12, <2>3, <2>5, <2>7 DEF IsFirst
  <2>9. CurrentTtv(c, step) = Max({0, ttv - n - 1})
    BY <1>14, <2>4, <2>8
  <2>10. PICK d \in Int, e \in Int : d = ttv - n - 1 /\ e = k + B - 2 /\ d <= e
    BY <2>1, <2>4, <2>8
  <2>11. Max({0, d}) = (IF 0 < d THEN d ELSE 0) /\ Max({0, e}) = (IF 0 < e THEN e ELSE 0)
    BY MaxOfTwo
  <2> QED
    BY <2>9, <2>10, <2>11
<1>17. n = step - c.base - 1 /\ err = RolloutError(v, c.base)
  BY <1>4, <1>11
<1> QED
  BY <1>3, <1>12, <1>15, <1>16, <1>17 DEF AgedTtvSound

\* A rescue succeeds from the state that the aged point of no return is about, and the time
\* that is announced is at least a tick shorter.
LEMMA PnrStands ==
  ASSUME NEW State, AgedInv(State), NEW v \in Car, NEW c, c = cache[v],
         HeldSince(v, c.pnrBase)
  PROVE  AgedPnrSound(v, c)
<1>1. PICK out, latched : out = past[v][c.pnrBase + 1] /\ latched = latchedAt[v]
  OBVIOUS
<1>2. /\ conf \in DOMAIN Config /\ step \in Nat /\ c.pnrBase >= 0 /\ latched <= c.pnrBase
      /\ PnrKnows(v, c.ttpnr, c.pnrBase, out, plant[v], latched, step)
      /\ c.ttv \in Nat /\ c.base \in Int
  <2>1. \E o, l : TtvKnows(v, c.ttv, c.base, o, plant[v], l, step)
    BY DEF AgedInv
  <2> QED
    BY <1>1, <2>1 DEF AgedInv, HeldSince, TtvKnows
<1>3. PICK H \in Nat, B \in Nat \ {0} :
        /\ H = Q.params.horizon /\ B = Q.params.block
        /\ TickExact.block = 1 /\ TickExact.horizon = H
  <2>1. PICK H \in Nat, B \in Nat \ {0} : H = Q.params.horizon /\ B = Q.params.block
    BY <1>2, PredictorType, GridType
  <2> QED
    BY <1>2, <2>1, AgedType
<1>4. PICK b \in Nat, n \in Nat, at \in Nat :
        b = c.pnrBase /\ n = step - b - 1 /\ at = b + 1 /\ at + n = step /\ n = step - 1 - b
  BY <1>2 DEF PnrKnows
<1>5. SUFFICES ASSUME c.ttpnr \in Max({1, n}) .. H - 1,
                     HoldFrom(v, b, Q.params)[c.ttpnr \div B] = HoldFrom(v, b, TickExact)[c.ttpnr]
              PROVE  /\ RescueFrom(v, c.ttpnr - n)
                     /\ CurrentTtpnr(c, step) <= Max({0, c.ttpnr - n - 1})
  BY <1>3, <1>4 DEF AgedPnrSound
<1>6. PICK t \in Nat, left \in Nat : /\ t = c.ttpnr /\ left = t - n /\ n + left = t
                                     /\ t >= 1 /\ t <= H - 1
  <2>1. Max({1, n}) = IF 1 < n THEN n ELSE 1
    BY MaxOfTwo
  <2>2. c.ttpnr \in Int /\ Max({1, n}) <= c.ttpnr /\ c.ttpnr <= H - 1
    BY <1>5, <2>1
  <2> QED
    BY <2>1, <2>2
<1>7. PICK x, u, ref, q : x = out.x /\ u = out.u /\ ref = References(v) /\ q = TickExact
  OBVIOUS
<1>8. /\ u = plant[v].u /\ CameTo(v, x, plant[v], b, step)
      /\ RescueOk(v, Rolled(v, out, at, Q.params)[t \div B], u, at + t, Q.params)
  <2>1. t \in 1 .. H - 1
    BY <1>6
  <2> QED
    BY <1>2, <1>3, <1>4, <1>6, <1>7, <2>1 DEF PnrKnows
<1>9. PICK exact : exact = HoldFrom(v, b, TickExact) /\ exact = Held(x, u, at, H, ref, q)
  <2>1. H \div 1 = H
    OBVIOUS
  <2> QED
    BY <1>1, <1>3, <1>4, <1>7, <2>1 DEF HoldFrom
<1>10. Rolled(v, out, at, Q.params)[t \div B] = exact[t]
  <2>1. Rolled(v, out, at, Q.params) = HoldFrom(v, b, Q.params)
    BY <1>1, <1>4 DEF Rolled, HoldFrom
  <2> QED
    BY <1>5, <1>6, <1>9, <2>1
<1>11. HeldFor(v, left) = exact[t]
  <2>1. PICK y : y = plant[v].x /\ y = Held(x, u, at, n, ref, q)[n]
    BY <1>4, <1>7, <1>8 DEF CameTo
  <2>2. n + left <= H
    BY <1>6
  <2>3. Held(y, u, step, left, ref, q)[left] = Held(x, u, at, H, ref, q)[n + left]
    <3>1. q.block = 1 /\ step = at + n
      BY <1>3, <1>4, <1>7
    <3>2. Held(Held(x, u, at, n, ref, q)[n], u, at + n, left, ref, q)[left]
            = Held(x, u, at, H, ref, q)[n + left]
      BY <2>2, <3>1, PathGoesOn
    <3> QED
      BY <2>1, <3>1, <3>2
  <2>4. HeldFor(v, left) = Held(y, u, step, left, ref, q)[left]
    BY <1>7, <1>8, <2>1 DEF HeldFor
  <2> QED
    BY <1>6, <1>9, <2>3, <2>4
<1>12. RescueFrom(v, left)
  <2>1. step + left = at + t
    BY <1>4, <1>6
  <2>2. RescueOk(v, HeldFor(v, left), plant[v].u, step + left, Q.params)
    BY <1>8, <1>10, <1>11, <2>1
  <2> QED
    BY <2>2 DEF RescueFrom, RescueOk
<1>13. CurrentTtv(c, step) \in Int
  <2>1. PICK e \in Int : e = c.ttv - (step - c.base)
    BY <1>2
  <2>2. Max({0, e}) \in Int
    BY MaxOfTwo
  <2> QED
    BY <1>3, <2>1, <2>2 DEF CurrentTtv, AgedTicks
<1>14. CurrentTtpnr(c, step) <= Max({0, left - 1})
  <2>1. AgedTicks(c.ttpnr, c.pnrBase, step) = Max({0, t - (step - b)})
    <3>1. ~(b < 0 \/ t >= Q.params.horizon)
      BY <1>3, <1>6
    <3>2. AgedTicks(t, b, step) = Max({0, t - (step - b)})
      BY <3>1 DEF AgedTicks
    <3> QED
      BY <1>4, <1>6, <3>2
  <2>2. PICK e \in Int : e = left - 1 /\ e = t - (step - b)
    <3>1. t - (step - b) = left - 1
      BY <1>4, <1>6
    <3> QED
      BY <1>6, <3>1
  <2>3. PICK m \in Int : m = Max({0, e})
    BY MaxOfTwo
  <2>4. PICK k \in Int : k = CurrentTtv(c, step)
    BY <1>13
  <2>5. Min({m, k}) = IF m < k THEN m ELSE k
    BY MinOfTwo
  <2>6. CurrentTtpnr(c, step) = Min({m, k})
    BY <2>1, <2>2, <2>3, <2>4 DEF CurrentTtpnr
  <2>7. Max({0, left - 1}) = m
    BY <2>2, <2>3
  <2> QED
    BY <2>5, <2>6, <2>7
<1> QED
  BY <1>6, <1>12, <1>14

\* Simulation::currentPredTicks, for rollouts in steps of any length: while the command that
\* was predicted with is held, the plant is over the bound a tick after a violation that is
\* announced, but for the error that the rollout makes as it holds the reference in a step; a
\* violation that lasts a step, by more than that error, is announced less than a step late;
\* and a rescue that begins at the announced point of no return succeeds if the rollout is
\* exact there. For every deterministic plant with errors that are integers, every fleet, lap
\* and latch history, the search run as often or as rarely as the configuration says.
THEOREM AgedPredictions ==
  ASSUME NEW State, Dynamics(State), HardBound \in Int
  PROVE  HarnessSpec => []AgedPredictionSound
<1>1. HarnessInit => AgedInv(State)
  BY AgedStart DEF HarnessInit
<1>2. AgedInv(State) /\ [HarnessTick]_harnessVars => AgedInv(State)'
  <2> SUFFICES ASSUME AgedInv(State), [HarnessTick]_harnessVars PROVE AgedInv(State)'
    OBVIOUS
  <2>1. CASE HarnessTick
    BY <2>1, AgedTick DEF HarnessTick, Tick, trackVars
  <2>2. CASE UNCHANGED harnessVars
    <3>1. /\ conf' = conf /\ track' = track /\ offsets' = offsets /\ step' = step
          /\ plant' = plant /\ cache' = cache /\ past' = past /\ latchedAt' = latchedAt
      BY <2>2 DEF harnessVars, fleetTrackVars, trackVars, plantVars
    <3>2. Car' = Car
      BY <3>1 DEF This, Car
    <3>3. \A v, t, b, o, c, l, n :
            /\ TtvKnows(v, t, b, o, c, l, n)' = TtvKnows(v, t, b, o, c, l, n)
            /\ PnrKnows(v, t, b, o, c, l, n)' = PnrKnows(v, t, b, o, c, l, n)
      BY <3>1, AgedStays
    <3> QED
      BY <3>1, <3>2, <3>3, Zenon DEF AgedInv
  <2> QED
    BY <2>1, <2>2
<1>3. AgedInv(State) => AgedPredictionSound
  BY TtvStands, PnrStands DEF AgedPredictionSound
<1> QED
  BY <1>1, <1>2, <1>3, PTL DEF HarnessSpec

-----------------------------------------------------------------------------
(* The instruments *)

(* A count that is kept of every tick: the histogram is of as many ticks as were counted, *)
(* its greatest bin is the maximum. *)
Tallied(s, n) ==
  /\ s.max \in 0 .. n /\ s.hist \in [0 .. n -> Nat] /\ s.ticks \in Nat
  /\ SumOver(s.hist, 0 .. n) = s.ticks
  /\ s.ticks = 0 => s.max = 0
  /\ s.ticks > 0 => s.hist[s.max] > 0
  /\ \A k \in 0 .. n : s.hist[k] > 0 => k <= s.max

LEMMA TalliedCovers ==
  ASSUME NEW n \in Nat, NEW s, Tallied(s, n)
  PROVE  Covers(s)
<1>1. /\ s.max \in 0 .. n /\ s.hist \in [0 .. n -> Int] /\ s.ticks \in Nat
      /\ SumOver(s.hist, 0 .. n) = s.ticks /\ DOMAIN s.hist = 0 .. n
      /\ s.ticks > 0 => s.hist[s.max] > 0
      /\ \A k \in 0 .. n : s.hist[k] > 0 => k <= s.max
  BY DEF Tallied
<1>2. IsFiniteSet(0 .. n)
  BY FS_Interval, 0 \in Int, n \in Int
<1>3. FoldFunction(+, 0, s.hist) = s.ticks
  BY <1>1, <1>2, FunctionTotal
<1>4. ASSUME s.ticks > 0 PROVE s.max = Max({k \in DOMAIN s.hist : s.hist[k] > 0})
  <2>1. PICK S \in SUBSET Int : S = {k \in DOMAIN s.hist : s.hist[k] > 0}
    <3>1. {k \in DOMAIN s.hist : s.hist[k] > 0} \in SUBSET Int
      BY <1>1
    <3> QED
      BY <3>1
  <2>2. s.max \in S /\ \A k \in S : k <= s.max
    BY <1>1, <1>4, <2>1
  <2> QED
    BY <2>1, <2>2, MaxIs
<1> QED
  BY <1>3, <1>4 DEF Covers

LEMMA TalliedNone ==
  ASSUME NEW n \in Nat, NEW s, s.max = 0, s.hist = [k \in 0 .. n |-> 0], s.ticks = 0
  PROVE  Tallied(s, n)
<1>1. s.hist \in [0 .. n -> Int] /\ \A k \in 0 .. n : s.hist[k] = 0
  OBVIOUS
<1>2. IsFiniteSet(0 .. n)
  BY FS_Interval, 0 \in Int, n \in Int
<1>3. SumOver(s.hist, 0 .. n) = 0
  BY <1>1, <1>2, SumOfNone
<1> QED
  BY <1>1, <1>3 DEF Tallied

\* One more tick is counted.
TalliedMore(t, s, k) ==
  /\ t.max = Max({s.max, k}) /\ t.hist = [s.hist EXCEPT ![k] = @ + 1]
  /\ t.ticks = s.ticks + 1

LEMMA TalliedOne ==
  ASSUME NEW n \in Nat, NEW s, Tallied(s, n), NEW k \in 0 .. n, NEW t, TalliedMore(t, s, k)
  PROVE  /\ Tallied(t, n) /\ t.max = (IF s.max < k THEN k ELSE s.max)
<1>1. PICK m \in 0 .. n, h \in [0 .. n -> Nat], c \in Nat :
        /\ m = s.max /\ h = s.hist /\ c = s.ticks
        /\ SumOver(h, 0 .. n) = c /\ (c > 0 => h[m] > 0) /\ (c = 0 => m = 0)
        /\ \A j \in 0 .. n : h[j] > 0 => j <= m
  BY DEF Tallied
<1>2. PICK g, e, d : g = t.hist /\ e = t.max /\ d = t.ticks
  OBVIOUS
<1>3. g = [h EXCEPT ![k] = @ + 1] /\ e = Max({m, k}) /\ d = c + 1
  BY <1>1, <1>2 DEF TalliedMore
<1>4. /\ g \in [0 .. n -> Nat] /\ g[k] = h[k] + 1 /\ \A j \in (0 .. n) \ {k} : h[j] = g[j]
      /\ SumOver(g, 0 .. n) = c + 1
  <2>1. g \in [0 .. n -> Nat] /\ g[k] = h[k] + 1 /\ \A j \in (0 .. n) \ {k} : h[j] = g[j]
    BY <1>3
  <2>2. PICK S : S = 0 .. n
    OBVIOUS
  <2>3. IsFiniteSet(S)
    BY <2>2, FS_Interval, 0 \in Int, n \in Int, Zenon
  <2>4. h \in [S -> Int] /\ g \in [S -> Int] /\ k \in S /\ \A j \in S \ {k} : h[j] = g[j]
    BY <2>1, <2>2
  <2>5. SumOver(g, S) = SumOver(h, S) + 1
    BY <2>1, <2>3, <2>4, SumOneMore
  <2> QED
    BY <1>1, <2>1, <2>2, <2>5
<1>5. e = IF m < k THEN k ELSE m
  <2>1. PICK x \in Int, y \in Int : x = m /\ y = k
    OBVIOUS
  <2>2. Max({x, y}) = IF x < y THEN y ELSE x
    BY MaxOfTwo
  <2> QED
    BY <1>3, <2>1, <2>2
<1>6. e \in 0 .. n /\ e >= m /\ e >= k
  BY <1>5
<1>7. g[e] > 0
  <2>1. CASE e = k
    BY <1>4, <2>1
  <2>2. CASE e # k
    <3>1. e = m /\ k < m
      BY <1>5, <2>2
    <3>2. c # 0
      BY <1>1, <3>1
    <3>3. h[m] > 0
      BY <1>1, <3>2
    <3> QED
      BY <1>4, <2>2, <3>1, <3>3
  <2> QED
    BY <2>1, <2>2
<1>8. ASSUME NEW j \in 0 .. n, g[j] > 0 PROVE j <= e
  <2>1. CASE j = k
    BY <1>6, <2>1
  <2>2. CASE j # k
    <3>1. j <= m
      BY <1>1, <1>4, <1>8, <2>2
    <3> QED
      BY <1>6, <3>1
  <2> QED
    BY <2>1, <2>2
<1>9. d \in Nat /\ d # 0 /\ d = c + 1
  BY <1>3
<1>10. Tallied(t, n)
  BY <1>2, <1>4, <1>6, <1>7, <1>8, <1>9 DEF Tallied
<1> QED
  BY <1>1, <1>2, <1>5, <1>6, <1>10

\* What is predicted are numbers of ticks.
LEMMA PredictionType ==
  ASSUME NEW v, NEW out, NEW from \in Nat, NEW p \in PredictParams, NEW warm \in Int
  PROVE  /\ PredictHeld(v, out, from, p, warm).ttv \in Nat
         /\ p.computePnr => PredictHeld(v, out, from, p, warm).ttpnr \in Nat
<1>0. PICK H \in Nat, B \in Nat \ {0} : H = p.horizon /\ B = p.block
  BY GridType
<1>1. PICK x, u, ref : x = out.x /\ u = out.u /\ ref = References(v)
  OBVIOUS
<1>2. PICK n \in Nat : n = p.horizon \div p.block
  <2>1. H \div B \in Nat
    OBVIOUS
  <2> QED
    BY <1>0, <2>1
<1>3. PICK held : held = Held(x, u, from, n, ref, p)
  OBVIOUS
<1>4. DOMAIN held = 0 .. n
  <2>1. HeldStates(held, x, u, from, n, ref, p)
    BY <1>3, HeldDefined
  <2> QED
    BY <2>1 DEF HeldStates
<1>5. PICK ttv \in Nat : ttv = FirstBreach(held, p)
  <2>1. DOMAIN held = 0 .. p.horizon \div p.block
    BY <1>2, <1>4
  <2>2. FirstBreach(held, p) \in 0 .. p.horizon
    BY <2>1, BreachWithin
  <2> QED
    BY <1>0, <2>2
<1>6. PredictHeld(v, out, from, p, warm).ttv = ttv
  BY <1>1, <1>2, <1>3, <1>5, ViolationOf
<1>7. ASSUME p.computePnr PROVE PredictHeld(v, out, from, p, warm).ttpnr \in Nat
  <2>1. CASE Q.plant # "pole"
    <3>1. PICK a : a = PredictHold(x, u, from, ref, p, warm)
      OBVIOUS
    <3>2. PredictHeld(v, out, from, p, warm) = a
      BY <1>1, <2>1, <3>1 DEF PredictHeld
    <3>3. AnswerMeans(x, u, from, ref, p, warm) /\ AnswerOnGrid(a, p)
      BY <1>7, <3>1, AnswerSound
    <3>4. a.pastPnr => a.ttpnr = 0
      BY <3>1, <3>3, Zenon DEF AnswerMeans
    <3>5. ~a.pastPnr => (a.ttpnr # a.rescueFrom => a.ttpnr = p.horizon)
      BY <3>1, <3>3, Zenon DEF AnswerMeans
    <3>6. ~a.pastPnr => a.rescueFrom \in 0 .. p.horizon
      BY <3>3 DEF AnswerOnGrid
    <3> QED
      BY <1>0, <3>2, <3>4, <3>5, <3>6
  <2>2. CASE Q.plant = "pole"
    <3> DEFINE Rescued(h) == PoleRecovers(held[h \div p.block], u, from + h, ref, p)
    <3>1. PICK ok : ok = [h \in 0 .. ttv |-> Rescued(h).ok]
      OBVIOUS
    <3>2. PICK last : last = PoleBisect(ttv, ok, p)
      OBVIOUS
    <3>3. PoleHeld(x, u, from, ref, p) = PoleVerdict(ttv, Rescued(0), last, p)
      BY <1>2, <1>3, <1>5, <3>1, <3>2 DEF PoleHeld
    <3> HIDE DEF Rescued
    <3>4. PredictHeld(v, out, from, p, warm).ttpnr = IF Rescued(0).ok THEN last ELSE 0
      BY <1>1, <1>7, <2>2, <3>3 DEF PredictHeld, PoleVerdict
    <3>5. Rescued(0).ok => last \in 0 .. ttv
      <4> SUFFICES ASSUME Rescued(0).ok PROVE last \in 0 .. ttv
        OBVIOUS
      <4>1. ok[0]
        BY <3>1
      <4> QED
        BY <3>2, <4>1, PoleBisectFinds
    <3> QED
      BY <3>4, <3>5
  <2> QED
    BY <2>1, <2>2
<1> QED
  BY <1>6, <1>7

\* What is cached of a car is a prediction of numbers of ticks.
CacheTyped(c) == c.ttv \in Int /\ c.ttpnr \in Int /\ c.base \in Int /\ c.pnrBase \in Int

LEMMA AgedTime ==
  ASSUME conf \in DOMAIN Config, NEW c, CacheTyped(c), NEW now \in Nat
  PROVE  CurrentTtpnr(c, now) \in Nat
<1>1. PICK H \in Nat : H = Q.params.horizon
  BY PredictorType, GridType
<1>2. ASSUME NEW t \in Int, NEW b \in Int PROVE AgedTicks(t, b, now) \in Nat
  <2>1. PICK d \in Int, z \in Int : d = t - (now - b) /\ z = 0
    OBVIOUS
  <2>2. Max({z, d}) = IF z < d THEN d ELSE z
    BY MaxOfTwo
  <2>3. Max({0, t - (now - b)}) \in Nat
    BY <2>1, <2>2
  <2> QED
    BY <1>1, <2>3 DEF AgedTicks
<1>3. PICK d \in Nat, e \in Nat :
        d = AgedTicks(c.ttpnr, c.pnrBase, now) /\ e = AgedTicks(c.ttv, c.base, now)
  BY <1>2 DEF CacheTyped
<1>4. Min({d, e}) \in Nat
  <2>1. PICK f \in Int, g \in Int : f = d /\ g = e
    OBVIOUS
  <2>2. Min({f, g}) = IF f < g THEN f ELSE g
    BY MinOfTwo
  <2> QED
    BY <2>1, <2>2
<1> QED
  BY <1>3, <1>4 DEF CurrentTtpnr, CurrentTtv

\* A new prediction is one of numbers of ticks again.
LEMMA FreshTyped ==
  ASSUME conf \in DOMAIN Config, NEW v, NEW c, CacheTyped(c), NEW out, step \in Nat,
         NEW withPnr \in BOOLEAN
  PROVE  CacheTyped(Refreshed(v, c, out, withPnr))
<1>1. PICK p, warm, from, H :
        /\ p = [Q.params EXCEPT !.computePnr = withPnr] /\ H = Q.params.horizon
        /\ warm = (IF withPnr THEN WarmHint(c) ELSE -1) /\ from = step + 1
  OBVIOUS
<1>2. p \in PredictParams /\ p.computePnr = withPnr /\ from \in Nat
  <2>1. PICK r \in PredictParams : r = Q.params
    BY PredictorType
  <2> QED
    BY <1>1, <2>1 DEF PredictParams
<1>3. warm \in Int
  <2>1. CASE withPnr /\ c.pnrBase >= 0 /\ c.ttpnr < H
    <3>1. PICK e \in Int : e = c.ttpnr - (step - c.pnrBase)
      BY DEF CacheTyped
    <3>2. Max({0, e}) \in Int
      BY MaxOfTwo
    <3> QED
      BY <1>1, <2>1, <3>1, <3>2 DEF WarmHint
  <2>2. CASE ~(withPnr /\ c.pnrBase >= 0 /\ c.ttpnr < H)
    BY <1>1, <2>2 DEF WarmHint
  <2> QED
    BY <2>1, <2>2
<1>4. PICK pr : pr = PredictHeld(v, out, from, p, warm)
  OBVIOUS
<1>5. pr.ttv \in Nat /\ (withPnr => pr.ttpnr \in Nat)
  BY <1>2, <1>3, <1>4, PredictionType
<1>6. Refreshed(v, c, out, withPnr) = Cached(c, pr, withPnr)
  BY <1>1, <1>4 DEF Refreshed
<1> QED
  BY <1>5, <1>6 DEF Cached, CacheTyped

CachesTyped == \A v \in Car : CacheTyped(cache[v])

LEMMA CachesStart == Init /\ PlantInit => CachesTyped
<1> SUFFICES ASSUME Init, PlantInit, NEW v \in Car PROVE CacheTyped(cache[v])
  BY DEF CachesTyped
<1>1. cache[v] = NoPrediction
  BY DEF PlantInit
<1>2. Q.params.horizon \in Nat
  BY PredictorType, GridType DEF Init
<1> QED
  BY <1>1, <1>2 DEF NoPrediction, CacheTyped

LEMMA CachesTick ==
  ASSUME conf \in DOMAIN Config, step \in Nat, CachesTyped, PlantTick, conf' = conf
  PROVE  CachesTyped' /\ \A v \in Car : CacheTyped(cache'[v])
<1>1. Car' = Car
  BY DEF Car, This
<1>2. ASSUME NEW v \in Car PROVE CacheTyped(cache'[v])
  <2>1. PICK o : \/ cache'[v] = cache[v]
                 \/ cache'[v] = Refreshed(v, cache[v], o, step % Q.pnrRefresh = 0)
    <3> HIDE DEF Moved, Refreshed
    <3>1. PICK command \in [Car -> Commands] :
            cache' = [w \in Car |->
                        IF step % Q.refresh = 0
                          THEN Refreshed(w, cache[w], [u \in Car |-> Moved(u, command[u])][w],
                                         step % Q.pnrRefresh = 0)
                          ELSE cache[w]]
      BY DEF PlantTick
    <3> QED
      BY <3>1
  <2>2. CacheTyped(cache[v]) /\ (step % Q.pnrRefresh = 0) \in BOOLEAN
    BY DEF CachesTyped
  <2>3. PICK b \in BOOLEAN : b = (step % Q.pnrRefresh = 0)
    BY <2>2
  <2>4. CacheTyped(Refreshed(v, cache[v], o, b))
    BY <2>2, FreshTyped
  <2> QED
    BY <2>1, <2>2, <2>3, <2>4
<1> QED
  BY <1>1, <1>2 DEF CachesTyped

-----------------------------------------------------------------------------
(* What is measured *)

LEMMA MeasureType ==
  ASSUME conf \in DOMAIN Config
  PROVE  /\ This.cars \in Nat \ {0} /\ Car = 1 .. This.cars /\ This.packZone \in -1 .. 3
         /\ 1 \in Taus /\ \A g \in Taus : M.tau[g] \in Nat
         /\ \A z \in 0 .. 3 : M.budgets[z] \in Nat
         /\ \A l \in Rungs : M.ladder[l] \in Nat
         /\ M.ffAges \subseteq Int /\ M.dataAges \subseteq Int
<1>1. M \in MeasureConfiguration /\ This \in FleetConfiguration
  BY MeasuringAssumption, FleetConfigAssumption DEF M, This
<1>2. /\ M.tau \in Seq(Nat \ {0}) /\ M.tau # <<>> /\ M.ladder \in Seq(Nat)
      /\ M.budgets \in [0 .. 3 -> Nat \ {0}]
      /\ M.ffAges \subseteq Nat \cup {-1} /\ M.dataAges \subseteq Nat \cup {-1}
  BY <1>1 DEF MeasureConfiguration
<1>3. This.cars \in Nat \ {0} /\ This.packZone \in -1 .. 3
  BY <1>1 DEF FleetConfiguration
<1>4. PICK t \in Seq(Nat \ {0}), l \in Seq(Nat) : t = M.tau /\ l = M.ladder
  BY <1>2
<1>5. 1 \in Taus /\ \A g \in Taus : M.tau[g] \in Nat
  <2>1. t # <<>> /\ Taus = DOMAIN t
    BY <1>2, <1>4 DEF Taus
  <2>2. 1 \in DOMAIN t /\ \A g \in DOMAIN t : t[g] \in Nat
    BY <2>1
  <2> QED
    BY <1>4, <2>1, <2>2
<1>6. \A k \in Rungs : M.ladder[k] \in Nat
  <2>1. \A k \in DOMAIN l : l[k] \in Nat
    OBVIOUS
  <2> QED
    BY <1>4, <2>1 DEF Rungs
<1>7. \A z \in 0 .. 3 : M.budgets[z] \in Nat
  BY <1>2
<1>8. M.ffAges \subseteq Int /\ M.dataAges \subseteq Int
  BY <1>2
<1> QED
  BY <1>3, <1>5, <1>6, <1>7, <1>8 DEF Car

\* Every tick of the lap has one of the four zones.
ZonesTyped == zones \in [Lap(This.lap) -> 0 .. 3] /\ \A v \in Car : offsets[v] \in Int

LEMMA ZonesStart == Init => ZonesTyped
<1> SUFFICES ASSUME Init PROVE ZonesTyped
  OBVIOUS
<1>1. track.lap = This.lap
  BY DEF Init, Track
<1>2. PICK lane : lane = Bridged(Padded(track, P), P, track.lap)
  OBVIOUS
<1>3. zones = [i \in Lap(track.lap) |-> IF i \in lane THEN 3 ELSE ZoneFromFf0(track.ff0[i], P)]
  BY <1>2 DEF Init, ZonesOf
<1>4. \A x : ZoneFromFf0(x, P) \in 0 .. 3
  BY DEF ZoneFromFf0
<1>5. \A v \in Car : offsets[v] \in Int
  BY StartPlaces DEF StartsPlaced, Placed
<1> QED
  BY <1>1, <1>3, <1>4, <1>5 DEF ZonesTyped

LEMMA ZoneType ==
  ASSUME conf \in DOMAIN Config, step \in Nat, ZonesTyped, NEW v \in Car
  PROVE  ZoneOf(v) \in 0 .. 3
<1>1. PICK n \in Nat \ {0} : n = This.lap
  BY LapType
<1>2. PICK x \in Int : x = step + offsets[v] + 0
  BY DEF ZonesTyped
<1>3. Wrap(x, n) \in Lap(n)
  <2>1. 0 \in Int
    OBVIOUS
  <2> QED
    BY <2>1, WrapStep
<1> QED
  BY <1>1, <1>2, <1>3 DEF ZoneOf, ZoneNear, ZonesTyped

\* The records that count.
Counts(s) == s = [max |-> s.max, hist |-> s.hist, ticks |-> s.ticks]
DangerCounts(s) ==
  s = [max |-> s.max, hist |-> s.hist, ticks |-> s.ticks, kAge |-> s.kAge, k |-> s.k]

LEMMA CountedOne ==
  ASSUME NEW n \in Nat, NEW s, Counts(s) \/ DangerCounts(s), Tallied(s, n), NEW k \in 0 .. n,
         NEW t, t = Counted(s, k)
  PROVE  /\ Tallied(t, n) /\ t.max = (IF s.max < k THEN k ELSE s.max)
         /\ t.ticks = s.ticks + 1
         /\ Counts(s) => Counts(t)
         /\ DangerCounts(s) => DangerCounts(t) /\ t.kAge = s.kAge /\ t.k = s.k
<1>1. PICK m, h, c : m = s.max /\ h = s.hist /\ c = s.ticks
  OBVIOUS
<1>2. /\ t.max = Max({s.max, k}) /\ t.hist = [s.hist EXCEPT ![k] = @ + 1]
      /\ t.ticks = s.ticks + 1
      /\ Counts(s) => Counts(t)
      /\ DangerCounts(s) => DangerCounts(t) /\ t.kAge = s.kAge /\ t.k = s.k
  <2>1. CASE Counts(s)
    <3>1. s = [max |-> m, hist |-> h, ticks |-> c]
      BY <1>1, <2>1 DEF Counts
    <3>2. t = [max |-> Max({m, k}), hist |-> [h EXCEPT ![k] = @ + 1], ticks |-> c + 1]
      BY <3>1 DEF Counted
    <3>3. ~DangerCounts(s)
      <4>1. "kAge" \notin DOMAIN s
        BY <3>1
      <4> QED
        BY <4>1 DEF DangerCounts
    <3> QED
      BY <1>1, <3>2, <3>3 DEF Counts
  <2>2. CASE DangerCounts(s)
    <3>0. PICK a, b : a = s.kAge /\ b = s.k
      OBVIOUS
    <3>1. s = [max |-> m, hist |-> h, ticks |-> c, kAge |-> a, k |-> b]
      BY <1>1, <2>2, <3>0 DEF DangerCounts
    <3>2. t = [max |-> Max({m, k}), hist |-> [h EXCEPT ![k] = @ + 1], ticks |-> c + 1,
               kAge |-> a, k |-> b]
      BY <3>1 DEF Counted
    <3>3. ~Counts(s)
      <4>1. "kAge" \in DOMAIN s
        BY <3>1
      <4> QED
        BY <4>1 DEF Counts
    <3> QED
      BY <1>1, <3>0, <3>2, <3>3 DEF DangerCounts
  <2> QED
    BY <2>1, <2>2
<1>3. Tallied(t, n) /\ t.max = (IF s.max < k THEN k ELSE s.max)
  <2>1. TalliedMore(t, s, k)
    BY <1>2 DEF TalliedMore
  <2> QED
    BY <2>1, TalliedOne, ZenonT(30)
<1> QED
  BY <1>2, <1>3

NearPnr(c) == {v \in Car : StateCritical(c, v)}
TooOld(age, g) == {v \in Car : AgeCritical(age, v, g)}
Here(z) == {v \in Car : ZoneOf(v) = z}

\* The cars near their point of no return, counted per run and, with those whose commands are
\* too old, per tick.
DangerRelated ==
  /\ Counts(simCrit) /\ Tallied(simCrit, This.cars)
  /\ DangerCounts(danger) /\ Tallied(danger, This.cars)
  /\ danger.kAge \in [Taus -> 0 .. This.cars] /\ danger.k \in [Taus -> 0 .. This.cars]
  /\ Q.plant = "lateral" =>
       /\ simCrit.ticks = danger.ticks /\ simCrit.max <= danger.max
       /\ \A g \in Taus : danger.kAge[g] <= danger.k[g] /\ simCrit.max <= danger.k[g]
       /\ danger.max = danger.k[1]
       /\ \A g, h \in Taus : M.tau[g] <= M.tau[h] =>
            danger.k[g] >= danger.k[h] /\ danger.kAge[g] >= danger.kAge[h]

\* A smaller share of the budget is used up earlier.
LEMMA OldMonotone ==
  ASSUME conf \in DOMAIN Config, step \in Nat, ZonesTyped, NEW age \in [Car -> M.dataAges],
         NEW g \in Taus, NEW h \in Taus, M.tau[g] <= M.tau[h]
  PROVE  TooOld(age, h) \subseteq TooOld(age, g)
<1> SUFFICES ASSUME NEW v \in Car, AgeCritical(age, v, h) PROVE AgeCritical(age, v, g)
  BY DEF TooOld
<1>1. PICK a \in Nat, b \in Nat, x \in Nat, d \in Int :
        /\ a = M.tau[g] /\ b = M.tau[h] /\ x = M.budgets[ZoneOf(v)] /\ d = 100 * age[v]
        /\ a <= b
  <2>1. M.tau[g] \in Nat /\ M.tau[h] \in Nat /\ M.budgets[ZoneOf(v)] \in Nat
    BY MeasureType, ZoneType
  <2>2. age[v] \in Int
    BY MeasureType
  <2> QED
    BY <2>1, <2>2
<1>2. a * x <= b * x
  <2>1. PICK e \in Nat : b = a + e
    BY <1>1, b - a \in Nat
  <2>2. b * x = a * x + e * x /\ e * x \in Nat
    BY <2>1
  <2> QED
    BY <2>2
<1>3. age[v] >= 0 /\ d >= b * x
  BY <1>1 DEF AgeCritical
<1>4. d >= a * x
  <2>1. PICK p \in Int, q \in Int : p = a * x /\ q = b * x
    OBVIOUS
  <2> QED
    BY <1>2, <1>3, <2>1
<1> QED
  BY <1>1, <1>3, <1>4 DEF AgeCritical

\* The numbers of cars that a tick counts.
LEMMA DangerCounted ==
  ASSUME conf \in DOMAIN Config, step \in Nat, ZonesTyped, NEW c, NEW age \in [Car -> M.dataAges]
  PROVE  LET near == Cardinality(NearPnr(c))
             old(g) == Cardinality(TooOld(age, g))
             both(g) == Cardinality(TooOld(age, g) \cup NearPnr(c))
         IN /\ near \in 0 .. This.cars
            /\ \A g \in Taus : /\ old(g) \in 0 .. This.cars /\ both(g) \in 0 .. This.cars
                               /\ old(g) <= both(g) /\ near <= both(g)
            /\ \A g, h \in Taus :
                 M.tau[g] <= M.tau[h] => old(g) >= old(h) /\ both(g) >= both(h)
<1>1. PICK n \in Nat : n = This.cars /\ Car = 1 .. n
  BY MeasureType
<1>2. PICK N \in SUBSET (1 .. n) : N = NearPnr(c)
  BY <1>1 DEF NearPnr
<1>3. \A g : TooOld(age, g) \in SUBSET (1 .. n)
  BY <1>1 DEF TooOld
<1>4. Cardinality(N) \in 0 .. n
  BY N \in SUBSET N, CountUpTo
<1>5. ASSUME NEW g \in Taus
      PROVE  /\ Cardinality(TooOld(age, g)) \in 0 .. n
             /\ Cardinality(TooOld(age, g) \cup N) \in 0 .. n
             /\ Cardinality(TooOld(age, g)) <= Cardinality(TooOld(age, g) \cup N)
             /\ Cardinality(N) <= Cardinality(TooOld(age, g) \cup N)
  <2>1. PICK A \in SUBSET (1 .. n), B \in SUBSET (1 .. n) :
          A = TooOld(age, g) /\ B = A \cup N /\ A \in SUBSET B /\ N \in SUBSET B
    <3>1. TooOld(age, g) \cup N \in SUBSET (1 .. n)
      BY <1>3
    <3>2. N \in SUBSET (TooOld(age, g) \cup N)
      OBVIOUS
    <3> QED
      BY <1>3, <3>1, <3>2
  <2>2. Cardinality(A) \in 0 .. n /\ Cardinality(B) \in 0 .. n /\ Cardinality(A) <= Cardinality(B)
    BY <2>1, CountUpTo
  <2>3. Cardinality(N) <= Cardinality(B)
    BY <2>1, CountUpTo
  <2> QED
    BY <2>1, <2>2, <2>3
<1>6. ASSUME NEW g \in Taus, NEW h \in Taus, M.tau[g] <= M.tau[h]
      PROVE  /\ Cardinality(TooOld(age, g)) >= Cardinality(TooOld(age, h))
             /\ Cardinality(TooOld(age, g) \cup N) >= Cardinality(TooOld(age, h) \cup N)
  <2>1. TooOld(age, h) \subseteq TooOld(age, g)
    BY <1>6, OldMonotone
  <2>2. PICK A \in SUBSET (1 .. n), B \in SUBSET (1 .. n) :
          A = TooOld(age, g) /\ B = TooOld(age, h) /\ B \in SUBSET A
    BY <1>3, <2>1
  <2>3. PICK C \in SUBSET (1 .. n), D \in SUBSET (1 .. n) :
          C = A \cup N /\ D = B \cup N /\ D \in SUBSET C
    <3>1. A \cup N \in SUBSET (1 .. n) /\ B \cup N \in SUBSET (1 .. n)
      OBVIOUS
    <3>2. B \cup N \in SUBSET (A \cup N)
      BY <2>2
    <3> QED
      BY <3>1, <3>2
  <2>4. /\ Cardinality(B) <= Cardinality(A) /\ Cardinality(A) \in 0 .. n
        /\ Cardinality(B) \in 0 .. n
    BY <2>2, CountUpTo
  <2>5. /\ Cardinality(D) <= Cardinality(C) /\ Cardinality(C) \in 0 .. n
        /\ Cardinality(D) \in 0 .. n
    BY <2>3, CountUpTo
  <2> QED
    BY <2>2, <2>3, <2>4, <2>5
<1> QED
  BY <1>1, <1>2, <1>4, <1>5, <1>6

\* The greater of a maximum so far and a tick's number.
LEMMA RaisedTo ==
  ASSUME NEW n \in Nat, NEW a \in 0 .. n, NEW b \in 0 .. n
  PROVE  Max({a, b}) \in 0 .. n /\ Max({a, b}) = IF a < b THEN b ELSE a
<1>1. PICK x \in Int, y \in Int : x = a /\ y = b
  OBVIOUS
<1>2. Max({x, y}) = IF x < y THEN y ELSE x
  BY MaxOfTwo
<1> QED
  BY <1>1, <1>2

LEMMA DangerTick ==
  ASSUME conf \in DOMAIN Config, step \in Nat, ZonesTyped, DangerRelated, conf' = conf,
         NEW c, NEW age \in [Car -> M.dataAges], NEW ffAge, Measure(c, age, ffAge)
  PROVE  DangerRelated' /\ simCrit'.ticks = simCrit.ticks + 1
<1>0. M' = M /\ This' = This /\ Taus' = Taus /\ Q' = Q
  BY DEF M, This, Taus, Q
<1>8. PICK n \in Nat, near \in Nat :
        n = This.cars /\ near = Cardinality(NearPnr(c)) /\ near \in 0 .. n
  BY DangerCounted, MeasureType
<1>9. PICK old, both :
        /\ old = [g \in Taus |-> Cardinality(TooOld(age, g))]
        /\ both = [g \in Taus |-> Cardinality(TooOld(age, g) \cup NearPnr(c))]
  OBVIOUS
<1>1. /\ n = This.cars /\ near = Cardinality(NearPnr(c)) /\ near \in 0 .. n
      /\ old = [g \in Taus |-> Cardinality(TooOld(age, g))]
      /\ both = [g \in Taus |-> Cardinality(TooOld(age, g) \cup NearPnr(c))]
  BY <1>8, <1>9
<1>2. /\ old \in [Taus -> 0 .. n] /\ both \in [Taus -> 0 .. n]
      /\ \A g \in Taus : old[g] <= both[g] /\ near <= both[g]
      /\ \A g, h \in Taus :
           M.tau[g] <= M.tau[h] => old[g] >= old[h] /\ both[g] >= both[h]
  BY <1>1, DangerCounted
<1>3. 1 \in Taus
  BY MeasureType
<1>4. simCrit' = Counted(simCrit, near)
  BY <1>1 DEF Measure, HowMany, NearPnr
<1>5. /\ Tallied(simCrit', n) /\ Counts(simCrit')
      /\ simCrit'.max = (IF simCrit.max < near THEN near ELSE simCrit.max)
      /\ simCrit'.ticks = simCrit.ticks + 1
  <2>1. PICK s, t : s = simCrit /\ t = simCrit'
    OBVIOUS
  <2>2. Counts(s) /\ Tallied(s, n) /\ t = Counted(s, near)
    BY <1>1, <1>4, <2>1 DEF DangerRelated
  <2>3. /\ Tallied(t, n) /\ t.max = (IF s.max < near THEN near ELSE s.max)
        /\ t.ticks = s.ticks + 1 /\ Counts(t)
    BY <1>1, <2>2, CountedOne
  <2> QED
    BY <2>1, <2>3
<1>6. CASE Q.plant # "lateral"
  <2>1. danger' = danger
    BY <1>6 DEF Measure
  <2> QED
    BY <1>0, <1>1, <1>5, <1>6, <2>1 DEF DangerRelated
<1>7. CASE Q.plant = "lateral"
  <2>1. PICK s, x, y : s = danger /\ x = danger.kAge /\ y = danger.k
    OBVIOUS
  <2>2. /\ DangerCounts(s) /\ Tallied(s, n) /\ x \in [Taus -> 0 .. n] /\ y \in [Taus -> 0 .. n]
        /\ s.kAge = x /\ s.k = y
    BY <1>1, <2>1 DEF DangerRelated
  <2>3. PICK b \in 0 .. n : b = both[1]
    BY <1>2, <1>3
  <2>4. PICK t : t = Counted(s, b)
    OBVIOUS
  <2>5. /\ Tallied(t, n) /\ t.max = (IF s.max < b THEN b ELSE s.max)
        /\ t.ticks = s.ticks + 1 /\ DangerCounts(t) /\ t.kAge = x /\ t.k = y
    BY <2>2, <2>4, CountedOne
  <2>6. PICK u, w : /\ u = [g \in Taus |-> Max({x[g], old[g]})]
                    /\ w = [g \in Taus |-> Max({y[g], both[g]})]
    OBVIOUS
  <2>7. danger' = [t EXCEPT !.kAge = u, !.k = w]
    <3>1. \A g : {v \in Car : InDanger(c, age, v, g)} = TooOld(age, g) \cup NearPnr(c)
      BY DEF InDanger, TooOld, NearPnr
    <3>2. Cardinality({v \in Car : InDanger(c, age, v, 1)}) = b
      BY <1>1, <1>3, <2>3, <3>1
    <3>3. danger' = [Counted(danger, Cardinality({v \in Car : InDanger(c, age, v, 1)})) EXCEPT
                !.kAge = [g \in Taus |->
                            Max({@[g], Cardinality({v \in Car : AgeCritical(age, v, g)})})],
                !.k = [g \in Taus |->
                         Max({@[g], Cardinality({v \in Car : InDanger(c, age, v, g)})})]]
      BY <1>7 DEF Measure, HowMany
    <3>4. danger' = [t EXCEPT
                !.kAge = [g \in Taus |->
                            Max({t.kAge[g], Cardinality({v \in Car : AgeCritical(age, v, g)})})],
                !.k = [g \in Taus |->
                         Max({t.k[g], Cardinality({v \in Car : InDanger(c, age, v, g)})})]]
      BY <2>1, <2>4, <3>2, <3>3, Zenon
    <3>5. [g \in Taus |-> Max({t.kAge[g], Cardinality({v \in Car : AgeCritical(age, v, g)})})] = u
      BY <1>1, <2>5, <2>6 DEF TooOld
    <3>6. [g \in Taus |-> Max({t.k[g], Cardinality({v \in Car : InDanger(c, age, v, g)})})] = w
      BY <1>1, <2>5, <2>6, <3>1
    <3> QED
      BY <3>4, <3>5, <3>6
  <2>8. /\ danger'.max = t.max /\ danger'.hist = t.hist /\ danger'.ticks = t.ticks
        /\ danger'.kAge = u /\ danger'.k = w /\ DangerCounts(danger')
    BY <2>5, <2>7 DEF DangerCounts
  <2>9. Tallied(danger', n)
    BY <2>5, <2>8 DEF Tallied
  <2>10. /\ u \in [Taus -> 0 .. n] /\ w \in [Taus -> 0 .. n]
         /\ \A g \in Taus : /\ u[g] = IF x[g] < old[g] THEN old[g] ELSE x[g]
                            /\ w[g] = IF y[g] < both[g] THEN both[g] ELSE y[g]
    <3>1. ASSUME NEW g \in Taus
          PROVE  /\ Max({x[g], old[g]}) \in 0 .. n
                 /\ Max({x[g], old[g]}) = IF x[g] < old[g] THEN old[g] ELSE x[g]
                 /\ Max({y[g], both[g]}) \in 0 .. n
                 /\ Max({y[g], both[g]}) = IF y[g] < both[g] THEN both[g] ELSE y[g]
      <4>1. PICK x1 \in 0 .. n, o1 \in 0 .. n, y1 \in 0 .. n, b1 \in 0 .. n :
              x1 = x[g] /\ o1 = old[g] /\ y1 = y[g] /\ b1 = both[g]
        BY <1>2, <2>2
      <4>2. Max({x1, o1}) \in 0 .. n /\ Max({x1, o1}) = IF x1 < o1 THEN o1 ELSE x1
        BY RaisedTo
      <4>3. Max({y1, b1}) \in 0 .. n /\ Max({y1, b1}) = IF y1 < b1 THEN b1 ELSE y1
        BY RaisedTo
      <4> QED
        BY <4>1, <4>2, <4>3
    <3> QED
      BY <2>6, <3>1
  <2>11. /\ simCrit.ticks = s.ticks /\ simCrit.max <= s.max
         /\ \A g \in Taus : x[g] <= y[g] /\ simCrit.max <= y[g]
         /\ s.max = y[1]
         /\ \A g, h \in Taus : M.tau[g] <= M.tau[h] => y[g] >= y[h] /\ x[g] >= x[h]
    BY <1>7, <2>1 DEF DangerRelated
  <2>12. PICK a \in 0 .. n : a = simCrit.max
    BY <1>1 DEF DangerRelated, Tallied
  <2>13. simCrit'.max = (IF a < near THEN near ELSE a)
    BY <1>5, <2>12
  <2>14. \A g \in Taus : /\ x[g] \in 0 .. n /\ y[g] \in 0 .. n /\ old[g] \in 0 .. n
                         /\ both[g] \in 0 .. n
    BY <1>2, <2>2
  <2>15. t.max = w[1]
    BY <1>3, <2>3, <2>5, <2>10, <2>11
  <2>16. ASSUME NEW g \in Taus PROVE u[g] <= w[g] /\ simCrit'.max <= w[g]
    BY <1>2, <2>10, <2>11, <2>12, <2>13, <2>14
  <2>17. ASSUME NEW g \in Taus, NEW h \in Taus, M.tau[g] <= M.tau[h]
         PROVE  w[g] >= w[h] /\ u[g] >= u[h]
    BY <1>2, <2>10, <2>11, <2>14, <2>17
  <2> QED
    BY <1>0, <1>1, <1>3, <1>5, <1>7, <2>5, <2>8, <2>9, <2>10, <2>11, <2>15, <2>16, <2>17
       DEF DangerRelated
<1> QED
  BY <1>6, <1>7

\* A packed fleet starts on the lap.
PackedOnLap == Packed => offsets \in [Car -> Lap(This.lap)]

LEMMA PackedStart == Init => PackedOnLap
<1> SUFFICES ASSUME Init, Packed PROVE offsets \in [Car -> Lap(This.lap)]
  BY DEF PackedOnLap
<1>1. conf \in DOMAIN Config /\ offsets \in Offsets(This, zones)
  BY DEF Init
<1>2. PICK cars, ms, n : cars = This.cars /\ ms = This.minSpacing /\ n = Cardinality(DOMAIN zones)
  OBVIOUS
<1>3. cars \in Nat \ {0} /\ ms \in Nat /\ n \in Nat \ {0} /\ n = This.lap
  <2>1. This \in FleetConfiguration
    BY <1>1, FleetConfigAssumption DEF This
  <2> QED
    BY <1>2, <2>1, LapOfZones DEF FleetConfiguration
<1>4. This.packZone \in 0 .. 3 /\ Len(This.startOffsets) # cars
  <2>1. This.packZone \in -1 .. 3 /\ This.packZone >= 0
    BY <1>1, MeasureType DEF Packed
  <2> QED
    BY <1>2, <2>1 DEF Packed
<1>5. offsets = PackZoneOffsets(zones, This.packZone, cars, ms)
  BY <1>1, <1>2, <1>4 DEF Offsets
<1>6. offsets \in [1 .. cars -> 0 .. n - 1]
  BY <1>2, <1>3, <1>5, PackedPlaced
<1> QED
  BY <1>2, <1>3, <1>6 DEF Car, Lap

\* In the first tick they are where they were put.
Starting == {v \in Car : StartsInZone(v)}

LEMMA StartsHere ==
  ASSUME conf \in DOMAIN Config, PackedOnLap, Packed, step = 0
  PROVE  Here(This.packZone) = Starting
<1> SUFFICES ASSUME NEW v \in Car PROVE ZoneOf(v) = zones[offsets[v]]
  BY DEF Here, Starting, StartsInZone
<1>1. PICK n \in Nat \ {0} : n = This.lap
  BY LapType
<1>2. PICK x \in 0 .. n - 1 : x = offsets[v]
  BY <1>1 DEF PackedOnLap, Lap
<1>3. step + offsets[v] + 0 = x
  BY <1>2
<1>4. x % n = x
  OBVIOUS
<1> QED
  BY <1>1, <1>2, <1>3, <1>4 DEF ZoneOf, ZoneNear, Wrap

\* The cars per zone, and those in the zone they were packed into.
PackedRelated ==
  /\ Counts(packed) /\ Tallied(packed, This.cars)
  /\ occupancy \in [0 .. 3 -> 0 .. This.cars]
  /\ (Q.plant = "lateral" /\ This.packZone >= 0) =>
       (packed.ticks = step /\ packed.max = occupancy[This.packZone])
  /\ ~(Q.plant = "lateral" /\ This.packZone >= 0) => packed.ticks = 0
  /\ (packed.ticks > 0 /\ Packed) => packed.max >= Cardinality(Starting)

LEMMA PackedTick ==
  ASSUME conf \in DOMAIN Config, step \in Nat, PackedOnLap, PackedRelated, conf' = conf,
         zones' = zones, offsets' = offsets, step' = step + 1,
         NEW c, NEW age, NEW ffAge, Measure(c, age, ffAge)
  PROVE  PackedRelated'
<1>0. M' = M /\ This' = This /\ Q' = Q /\ Car' = Car /\ Packed' = Packed /\ Starting' = Starting
  BY DEF M, This, Q, Car, Packed, Starting, StartsInZone
<1>1. PICK n \in Nat, z \in -1 .. 3 : n = This.cars /\ z = This.packZone /\ Car = 1 .. n
  BY MeasureType
<1>2. PICK here : here = [y \in 0 .. 3 |-> Cardinality(Here(y))]
  OBVIOUS
<1>3. here \in [0 .. 3 -> 0 .. n]
  <2>1. ASSUME NEW y \in 0 .. 3 PROVE Cardinality(Here(y)) \in 0 .. n
    <3>1. PICK A \in SUBSET (1 .. n) : A = Here(y)
      BY <1>1 DEF Here
    <3> QED
      BY <3>1, A \in SUBSET A, CountUpTo
  <2> QED
    BY <1>2, <2>1
<1>4. PICK s, o : s = packed /\ o = occupancy
  OBVIOUS
<1>5. Counts(s) /\ Tallied(s, n) /\ o \in [0 .. 3 -> 0 .. n]
  BY <1>1, <1>4 DEF PackedRelated
<1>6. CASE Q.plant # "lateral"
  <2>1. packed' = packed /\ occupancy' = occupancy
    BY <1>6 DEF Measure
  <2> QED
    BY <1>0, <1>6, <2>1 DEF PackedRelated
<1>7. CASE Q.plant = "lateral"
  <2>1. occupancy' = [y \in 0 .. 3 |-> Max({o[y], here[y]})]
    <3>1. occupancy' = [y \in 0 .. 3 |-> Max({occupancy[y], Cardinality({v \in Car : ZoneOf(v) = y})})]
      BY <1>7 DEF Measure, HowMany
    <3>2. \A y \in 0 .. 3 : Cardinality({v \in Car : ZoneOf(v) = y}) = here[y]
      BY <1>2 DEF Here
    <3> QED
      BY <1>4, <3>1, <3>2
  <2>2. ASSUME NEW y \in 0 .. 3
        PROVE  /\ Max({o[y], here[y]}) \in 0 .. n
               /\ Max({o[y], here[y]}) = IF o[y] < here[y] THEN here[y] ELSE o[y]
    <3>1. PICK a \in 0 .. n, b \in 0 .. n : a = o[y] /\ b = here[y]
      BY <1>3, <1>5
    <3>2. Max({a, b}) \in 0 .. n /\ Max({a, b}) = IF a < b THEN b ELSE a
      BY RaisedTo
    <3> QED
      BY <3>1, <3>2
  <2>3. /\ occupancy' \in [0 .. 3 -> 0 .. n]
        /\ \A y \in 0 .. 3 : occupancy'[y] = IF o[y] < here[y] THEN here[y] ELSE o[y]
    BY <2>1, <2>2
  <2>4. CASE ~(z >= 0)
    <3>1. packed' = packed
      BY <1>1, <2>4 DEF Measure
    <3>2. ~Packed
      BY <1>1, <2>4 DEF Packed
    <3> QED
      BY <1>0, <1>1, <1>4, <2>3, <2>4, <3>1, <3>2 DEF PackedRelated
  <2>5. CASE z >= 0
    <3>0. z \in 0 .. 3
      BY <1>1, <2>5
    <3>1. PICK b \in 0 .. n : b = here[z]
      BY <1>3, <3>0
    <3>2. packed' = Counted(s, b)
      <4>1. packed' = Counted(packed, Cardinality({v \in Car : ZoneOf(v) = This.packZone}))
        BY <1>1, <1>7, <2>5 DEF Measure, HowMany
      <4>2. Cardinality({v \in Car : ZoneOf(v) = This.packZone}) = b
        BY <1>1, <1>2, <3>0, <3>1 DEF Here
      <4> QED
        BY <1>4, <4>1, <4>2
    <3>3. PICK t : t = packed'
      OBVIOUS
    <3>4. t = Counted(s, b)
      BY <3>2, <3>3
    <3>5. /\ Tallied(t, n) /\ t.max = (IF s.max < b THEN b ELSE s.max)
          /\ t.ticks = s.ticks + 1 /\ Counts(t)
      <4>1. n \in Nat /\ b \in 0 .. n /\ (Counts(s) \/ DangerCounts(s)) /\ Tallied(s, n)
        BY <1>5
      <4> QED
        BY <1>5, <3>4, <4>1, CountedOne, ZenonT(60)
    <3>6. s.ticks = step /\ s.max = o[z]
      BY <1>1, <1>4, <1>7, <2>5 DEF PackedRelated
    <3>7. t.ticks = step' /\ t.max = occupancy'[z]
      BY <2>3, <3>0, <3>1, <3>5, <3>6
    <3>8. ASSUME Packed PROVE t.max >= Cardinality(Starting)
      <4>1. PICK m \in 0 .. n, e \in 0 .. n, r \in 0 .. n :
              m = s.max /\ e = t.max /\ r = Cardinality(Starting)
        <5>1. PICK A \in SUBSET (1 .. n) : A = Starting
          BY <1>1 DEF Starting
        <5>2. Cardinality(A) \in 0 .. n
          BY A \in SUBSET A, CountUpTo
        <5> QED
          BY <1>5, <3>5, <5>1, <5>2 DEF Tallied
      <4>2. e >= m /\ e >= b
        BY <3>5, <4>1
      <4>3. CASE step = 0
        <5>1. b = r
          BY <1>1, <1>2, <3>0, <3>1, <3>8, <4>1, <4>3, StartsHere
        <5> QED
          BY <4>1, <4>2, <5>1
      <4>4. CASE step # 0
        <5>1. m >= r
          <6>1. packed.ticks > 0
            BY <1>4, <3>6, <4>4
          <6> QED
            BY <1>4, <3>8, <4>1, <6>1 DEF PackedRelated
        <5> QED
          BY <4>1, <4>2, <5>1
      <4> QED
        BY <4>3, <4>4
    <3> QED
      BY <1>0, <1>1, <1>7, <2>3, <2>5, <3>3, <3>5, <3>7, <3>8 DEF PackedRelated
  <2> QED
    BY <2>4, <2>5
<1> QED
  BY <1>6, <1>7

\* A car that was past its point of no return has a closest call of zero.
ClosestRelated ==
  \A v \in Car : /\ closest[v].min \in Int /\ closest[v].min >= -1 /\ closest[v].past \in Nat
                 /\ closest[v].past > 0 => closest[v].min = 0
                 /\ closest[v].past <= simCrit.ticks

LEMMA ClosestTick ==
  ASSUME conf \in DOMAIN Config, step \in Nat, ClosestRelated, conf' = conf,
         simCrit.ticks \in Nat, simCrit'.ticks = simCrit.ticks + 1,
         NEW c, \A v \in Car : CacheTyped(c[v]), NEW age, NEW ffAge, Measure(c, age, ffAge)
  PROVE  ClosestRelated'
<1> SUFFICES ASSUME NEW v \in Car
             PROVE  /\ closest'[v].min \in Int /\ closest'[v].min >= -1
                    /\ closest'[v].past \in Nat
                    /\ closest'[v].past > 0 => closest'[v].min = 0
                    /\ closest'[v].past <= simCrit'.ticks
  BY DEF ClosestRelated, Car, This
<1>1. closest'[v] = Closer(c, v)
  BY DEF Measure
<1>2. PICK m \in Int, p \in Nat, d \in Nat :
        /\ m = closest[v].min /\ p = closest[v].past /\ d = simCrit.ticks
        /\ m >= -1 /\ p <= d /\ (p > 0 => m = 0)
  BY DEF ClosestRelated
<1>3. PICK t \in Nat : t = CurrentTtpnr(c[v], step)
  BY AgedTime
<1>4. CASE c[v].base < 0 \/ t >= Q.params.horizon
  <2>1. Closer(c, v) = closest[v]
    BY <1>3, <1>4 DEF Closer
  <2> QED
    BY <1>1, <1>2, <2>1
<1>5. CASE ~(c[v].base < 0 \/ t >= Q.params.horizon)
  <2>1. PICK a, b : /\ a = (IF m < 0 THEN t ELSE Min({m, t}))
                    /\ b = p + (IF t = 0 THEN 1 ELSE 0)
    OBVIOUS
  <2>2. Closer(c, v) = [min |-> a, past |-> b]
    BY <1>2, <1>3, <1>5, <2>1 DEF Closer
  <2>3. Min({m, t}) = IF m < t THEN m ELSE t
    <3>1. t \in Int
      OBVIOUS
    <3> QED
      BY <3>1, MinOfTwo
  <2>4. a \in Nat /\ (t = 0 => a = 0) /\ (m = 0 => a = 0)
    BY <2>1, <2>3
  <2>5. b \in Nat /\ b <= d + 1 /\ (b > 0 => t = 0 \/ m = 0)
    BY <1>2, <2>1
  <2>6. closest'[v].min = a /\ closest'[v].past = b
    BY <1>1, <2>2
  <2> QED
    BY <1>2, <2>4, <2>5, <2>6
<1> QED
  BY <1>4, <1>5

-----------------------------------------------------------------------------
(* The staleness of Feedforward *)

\* One zone's staleness: the rungs of the ladder it is beyond, and how often.
OnLadder(r) ==
  /\ r.ticks \in Nat /\ r.max \in Nat /\ r.beyond \in [Rungs -> Nat]
  /\ \A l \in Rungs :
       /\ r.beyond[l] > 0 <=> r.max > M.ladder[l]
       /\ r.beyond[l] <= r.ticks
       /\ \A m \in Rungs : M.ladder[m] <= M.ladder[l] => r.beyond[m] >= r.beyond[l]

\* The cars of here are counted, with the staleness of each.
StaleMore(t, r, here, ffAge) ==
  /\ t.ticks = r.ticks + Cardinality(here)
  /\ t.max = Max({r.max} \cup {ffAge[v] : v \in here})
  /\ t.beyond = [l \in Rungs |->
                   r.beyond[l] + Cardinality({v \in here : ffAge[v] > M.ladder[l]})]

LEMMA LadderClimbed ==
  ASSUME conf \in DOMAIN Config, NEW r, OnLadder(r), NEW here \in SUBSET Car, NEW ffAge,
         \A v \in here : ffAge[v] \in Nat, NEW t, StaleMore(t, r, here, ffAge)
  PROVE  OnLadder(t)
<1>0. PICK ladder : ladder = M.ladder
  OBVIOUS
<1>1. PICK n \in Nat : n = This.cars /\ Car = 1 .. n /\ ladder = M.ladder
  BY <1>0, MeasureType
<1>2. \A l \in Rungs : ladder[l] \in Nat
  BY <1>1, MeasureType
<1>3. PICK m \in Nat, d \in Nat, b \in [Rungs -> Nat] : m = r.max /\ d = r.ticks /\ b = r.beyond
  BY DEF OnLadder
<1>4. \A l \in Rungs : /\ b[l] > 0 <=> m > ladder[l]
                       /\ b[l] <= d
                       /\ \A k \in Rungs : ladder[k] <= ladder[l] => b[k] >= b[l]
  BY <1>1, <1>3 DEF OnLadder
<1> DEFINE over(l) == {v \in here : ffAge[v] > ladder[l]}
           ages == {m} \cup {ffAge[v] : v \in here}
<1>5. PICK count \in 0 .. n : count = Cardinality(here)
  <2>1. here \in SUBSET (1 .. n) /\ here \in SUBSET here
    BY <1>1
  <2> QED
    BY <2>1, CountUpTo
<1>6. PICK num : num = [l \in Rungs |-> Cardinality(over(l))]
  OBVIOUS
<1>7. ASSUME NEW l \in Rungs
      PROVE  num[l] \in 0 .. n /\ num[l] <= count /\ (num[l] > 0 <=> \E v \in here : ffAge[v] > ladder[l])
  <2>1. here \in SUBSET (1 .. n) /\ over(l) \in SUBSET here /\ over(l) \in SUBSET (1 .. n)
    BY <1>1
  <2>2. Cardinality(over(l)) \in 0 .. n /\ Cardinality(over(l)) <= Cardinality(here)
    BY <2>1, CountUpTo
  <2>3. Cardinality(over(l)) > 0 <=> over(l) # {}
    BY <2>1, over(l) \in SUBSET over(l), CountUpTo
  <2>4. over(l) # {} <=> \E v \in here : ffAge[v] > ladder[l]
    OBVIOUS
  <2> QED
    BY <1>5, <1>6, <2>2, <2>3, <2>4
<1>8. ASSUME NEW k \in Rungs, NEW l \in Rungs, ladder[k] <= ladder[l]
      PROVE  num[k] >= num[l]
  <2>1. over(l) \subseteq over(k)
    <3> SUFFICES ASSUME NEW v \in here, ffAge[v] > ladder[l] PROVE ffAge[v] > ladder[k]
      OBVIOUS
    <3>1. PICK a \in Nat, x \in Nat, y \in Nat : a = ffAge[v] /\ x = ladder[k] /\ y = ladder[l]
      BY <1>2
    <3> QED
      BY <1>8, <3>1
  <2>2. over(k) \in SUBSET (1 .. n) /\ over(l) \in SUBSET over(k)
    BY <1>1, <2>1
  <2>3. Cardinality(over(l)) <= Cardinality(over(k))
    BY <2>2, CountUpTo
  <2>4. num[k] \in Int /\ num[l] \in Int
    BY <1>7
  <2> QED
    BY <1>6, <2>3, <2>4
<1>9. PICK max \in Nat : /\ max = Max(ages) /\ max >= m /\ \A v \in here : ffAge[v] <= max
                         /\ max = m \/ \E v \in here : max = ffAge[v]
  <2>1. IsFiniteSet(here)
    <3>1. PICK A \in SUBSET (1 .. n) : A = here
      BY <1>1
    <3> QED
      BY <3>1, OneMore
  <2>2. IsFiniteSet({ffAge[v] : v \in here})
    <3>1. PICK T : T = {ffAge[v] : v \in here}
      OBVIOUS
    <3>2. PICK f : f = [v \in here |-> ffAge[v]]
      OBVIOUS
    <3>3. f \in Surjection(here, T)
      BY <3>1, <3>2 DEF Surjection
    <3> QED
      BY <2>1, <3>1, <3>3, FS_Surjection
  <2>3. IsFiniteSet(ages)
    BY <2>2, FS_Singleton, FS_Union
  <2>4. ages \in SUBSET Int /\ ages # {} /\ ages \subseteq Nat
    OBVIOUS
  <2> HIDE DEF ages
  <2>5. PICK x \in ages : \A y \in ages : y <= x
    BY <2>3, <2>4, GreatestExists
  <2>6. Max(ages) = x
    BY <2>4, <2>5, MaxIs
  <2>7. x \in Nat /\ x >= m /\ \A v \in here : ffAge[v] <= x
    BY <2>4, <2>5 DEF ages
  <2>8. x = m \/ \E v \in here : x = ffAge[v]
    BY DEF ages
  <2> QED
    BY <2>6, <2>7, <2>8
<1>10. PICK e \in [Rungs -> Nat] : e = [l \in Rungs |-> b[l] + num[l]]
  <2>1. \A l \in Rungs : b[l] + num[l] \in Nat
    BY <1>7
  <2> QED
    BY <2>1
<1>11. t.ticks = d + count /\ t.max = max /\ t.beyond = e
  <2>1. t.ticks = d + count
    BY <1>3, <1>5 DEF StaleMore
  <2>2. t.max = max
    BY <1>3, <1>9 DEF StaleMore
  <2>3. t.beyond = [l \in Rungs |-> b[l] + Cardinality(over(l))]
    BY <1>1, <1>3 DEF StaleMore
  <2>4. t.beyond = e
    BY <1>6, <1>10, <2>3
  <2> QED
    BY <2>1, <2>2, <2>4
<1> HIDE DEF over, ages
<1>12. ASSUME NEW l \in Rungs
       PROVE  (e[l] > 0 <=> max > ladder[l]) /\ e[l] <= d + count
  <2>1. PICK x \in Nat, y \in Nat, z \in Nat : x = b[l] /\ y = num[l] /\ z = ladder[l]
    BY <1>2, <1>7
  <2>2. e[l] = x + y /\ x <= d /\ y <= count /\ (x > 0 <=> m > z)
    BY <1>4, <1>7, <1>10, <2>1
  <2>3. y > 0 <=> \E v \in here : ffAge[v] > z
    BY <1>7, <2>1
  <2>4. max > z <=> m > z \/ \E v \in here : ffAge[v] > z
    BY <1>9, <2>1
  <2>5. x + y > 0 <=> x > 0 \/ y > 0
    OBVIOUS
  <2> QED
    BY <2>1, <2>2, <2>3, <2>4, <2>5
<1>13. ASSUME NEW k \in Rungs, NEW l \in Rungs, ladder[k] <= ladder[l]
       PROVE  e[k] >= e[l]
  <2>1. PICK x \in Nat, y \in Nat, w \in Nat, z \in Nat :
          x = b[k] /\ y = num[k] /\ w = b[l] /\ z = num[l]
    BY <1>7
  <2>2. x >= w /\ y >= z
    BY <1>4, <1>8, <1>13, <2>1
  <2> QED
    BY <1>10, <2>1, <2>2
<1> QED
  BY <1>1, <1>9, <1>10, <1>11, <1>12, <1>13 DEF OnLadder

StaleRelated == \A z \in 0 .. 3 : OnLadder(ffStale[z])

LEMMA StaleTick ==
  ASSUME conf \in DOMAIN Config, step \in Nat, StaleRelated, conf' = conf,
         NEW c, NEW age, NEW ffAge \in [Car -> M.ffAges], Measure(c, age, ffAge)
  PROVE  StaleRelated'
<1>0. M' = M /\ Rungs' = Rungs
  BY DEF M, Rungs
<1> SUFFICES ASSUME NEW z \in 0 .. 3 PROVE OnLadder(ffStale'[z])
  BY <1>0 DEF StaleRelated, OnLadder
<1>1. OnLadder(ffStale[z])
  BY DEF StaleRelated
<1>2. CASE Q.plant # "lateral"
  <2>1. ffStale' = ffStale
    BY <1>2 DEF Measure
  <2> QED
    BY <1>1, <2>1
<1>3. CASE Q.plant = "lateral"
  <2>1. PICK here \in SUBSET Car : here = {v \in Car : ZoneOf(v) = z /\ ffAge[v] >= 0}
    OBVIOUS
  <2>2. ffStale'[z] = [ticks |-> ffStale[z].ticks + Cardinality(here),
                      max |-> Max({ffStale[z].max} \cup {ffAge[v] : v \in here}),
                      beyond |-> [l \in Rungs |->
                        ffStale[z].beyond[l] + Cardinality({v \in here : ffAge[v] > M.ladder[l]})]]
    BY <1>3, <2>1 DEF Measure
  <2>3. PICK r, t : r = ffStale[z] /\ t = ffStale'[z]
    OBVIOUS
  <2>4. StaleMore(t, r, here, ffAge)
    BY <2>2, <2>3 DEF StaleMore
  <2>5. \A v \in here : ffAge[v] \in Nat
    <3>1. M.ffAges \subseteq Int
      BY MeasureType
    <3> QED
      BY <2>1, <3>1
  <2> QED
    BY <1>1, <2>3, <2>4, <2>5, LadderClimbed
<1> QED
  BY <1>2, <1>3

\* What the measurements of a run always satisfy.
MeasuredInv ==
  /\ conf \in DOMAIN Config /\ step \in Nat
  /\ ZonesTyped /\ PackedOnLap /\ CachesTyped
  /\ DangerRelated /\ PackedRelated /\ ClosestRelated /\ StaleRelated

LEMMA MeasuredStart == HarnessInit => MeasuredInv
<1> SUFFICES ASSUME HarnessInit PROVE MeasuredInv
  OBVIOUS
<1>1. Init /\ PlantInit /\ InstrumentInit /\ conf \in DOMAIN Config /\ step = 0
  BY DEF HarnessInit, Init
<1>2. ZonesTyped /\ PackedOnLap /\ CachesTyped
  BY <1>1, ZonesStart, PackedStart, CachesStart
<1>3. PICK n \in Nat : n = This.cars /\ Car = 1 .. n
  BY <1>1, MeasureType
<1>4. NoCount = [k \in 0 .. n |-> 0]
  BY <1>3 DEF NoCount
<1>5. DangerRelated
  <2>1. /\ simCrit = [max |-> 0, hist |-> NoCount, ticks |-> 0]
        /\ danger = [max |-> 0, hist |-> NoCount, ticks |-> 0,
                     kAge |-> [g \in Taus |-> 0], k |-> [g \in Taus |-> 0]]
    BY <1>1 DEF InstrumentInit
  <2>2. Counts(simCrit) /\ DangerCounts(danger)
    BY <2>1 DEF Counts, DangerCounts
  <2>3. /\ simCrit.max = 0 /\ simCrit.ticks = 0 /\ simCrit.hist = [k \in 0 .. n |-> 0]
        /\ danger.max = 0 /\ danger.ticks = 0 /\ danger.hist = [k \in 0 .. n |-> 0]
        /\ danger.kAge = [g \in Taus |-> 0] /\ danger.k = [g \in Taus |-> 0]
    BY <1>4, <2>1
  <2>4. Tallied(simCrit, n) /\ Tallied(danger, n)
    BY <2>3, TalliedNone
  <2>5. 1 \in Taus /\ 0 \in 0 .. n
    BY <1>1, MeasureType
  <2>6. danger.kAge \in [Taus -> 0 .. n] /\ danger.k \in [Taus -> 0 .. n]
    BY <2>3, <2>5
  <2>7. \A g \in Taus : danger.kAge[g] = 0 /\ danger.k[g] = 0
    BY <2>3
  <2> QED
    BY <1>3, <2>2, <2>3, <2>4, <2>5, <2>6, <2>7 DEF DangerRelated
<1>6. PackedRelated
  <2>1. /\ packed = [max |-> 0, hist |-> NoCount, ticks |-> 0]
        /\ occupancy = [z \in 0 .. 3 |-> 0]
    BY <1>1 DEF InstrumentInit
  <2>2. Counts(packed)
    BY <2>1 DEF Counts
  <2>3. packed.max = 0 /\ packed.ticks = 0 /\ packed.hist = [k \in 0 .. n |-> 0]
    BY <1>4, <2>1
  <2>4. Tallied(packed, n)
    BY <2>3, TalliedNone
  <2>5. 0 \in 0 .. n
    OBVIOUS
  <2>6. occupancy \in [0 .. 3 -> 0 .. n] /\ \A z \in 0 .. 3 : occupancy[z] = 0
    BY <2>1, <2>5
  <2>7. This.packZone >= 0 => This.packZone \in 0 .. 3
    BY <1>1, MeasureType
  <2> QED
    BY <1>1, <1>3, <2>2, <2>3, <2>4, <2>6, <2>7 DEF PackedRelated
<1>7. ClosestRelated
  <2>1. closest = [v \in Car |-> [min |-> -1, past |-> 0]] /\ simCrit.ticks = 0
    BY <1>1 DEF InstrumentInit
  <2>2. ASSUME NEW v \in Car PROVE closest[v].min = -1 /\ closest[v].past = 0
    BY <2>1
  <2> QED
    BY <2>1, <2>2 DEF ClosestRelated
<1>8. StaleRelated
  <2> SUFFICES ASSUME NEW z \in 0 .. 3 PROVE OnLadder(ffStale[z])
    BY DEF StaleRelated
  <2>1. PICK r : r = ffStale[z]
    OBVIOUS
  <2>2. r = [ticks |-> 0, max |-> 0, beyond |-> [l \in Rungs |-> 0]]
    BY <1>1, <2>1 DEF InstrumentInit
  <2>3. r.ticks = 0 /\ r.max = 0 /\ r.beyond = [l \in Rungs |-> 0]
    BY <2>2
  <2>4. \A l \in Rungs : M.ladder[l] \in Nat
    BY <1>1, MeasureType
  <2>5. OnLadder(r)
    BY <2>3, <2>4 DEF OnLadder
  <2> QED
    BY <2>1, <2>5
<1> QED
  BY <1>1, <1>2, <1>5, <1>6, <1>7, <1>8 DEF MeasuredInv

LEMMA MeasuredTick == MeasuredInv /\ HarnessTick => MeasuredInv'
<1> SUFFICES ASSUME MeasuredInv, HarnessTick PROVE MeasuredInv'
  OBVIOUS
<1>1. /\ conf \in DOMAIN Config /\ step \in Nat
      /\ ZonesTyped /\ PackedOnLap /\ CachesTyped
      /\ DangerRelated /\ PackedRelated /\ ClosestRelated /\ StaleRelated
  BY DEF MeasuredInv
<1>2. /\ conf' = conf /\ zones' = zones /\ offsets' = offsets /\ step' = step + 1
      /\ PlantTick
  BY DEF HarnessTick, Tick, trackVars
<1>3. PICK age \in [Car -> M.dataAges], ffAge \in [Car -> M.ffAges] : Measure(cache', age, ffAge)
  BY DEF HarnessTick
<1>4. step' \in Nat /\ conf' \in DOMAIN Config
  BY <1>1, <1>2
<1>5. ZonesTyped' /\ PackedOnLap'
  BY <1>1, <1>2 DEF ZonesTyped, PackedOnLap, Packed, Car, This
<1>6. CachesTyped' /\ \A v \in Car : CacheTyped(cache'[v])
  BY <1>1, <1>2, CachesTick
<1>7. PICK c : c = cache'
  OBVIOUS
<1>8. Measure(c, age, ffAge) /\ \A v \in Car : CacheTyped(c[v])
  BY <1>3, <1>6, <1>7
<1>9. DangerRelated' /\ simCrit'.ticks = simCrit.ticks + 1
  BY <1>1, <1>2, <1>8, DangerTick
<1>10. PackedRelated'
  BY <1>1, <1>2, <1>8, PackedTick
<1>11. ClosestRelated'
  <2>1. simCrit.ticks \in Nat
    BY <1>1 DEF DangerRelated, Tallied
  <2> QED
    BY <1>1, <1>2, <1>8, <1>9, <2>1, ClosestTick
<1>12. StaleRelated'
  BY <1>1, <1>2, <1>8, StaleTick
<1> QED
  BY <1>4, <1>5, <1>6, <1>9, <1>10, <1>11, <1>12 DEF MeasuredInv

\* The instruments of a run agree: every histogram covers the ticks that were counted and ends
\* at the reported maximum; the danger count contains the cars near their point of no return,
\* though one is kept per run and the other per tick; the sweep of taus is monotone; a packed
\* zone holds the cars that were put in it; a car that was past its point of no return has a
\* closest call of zero; the rungs of the staleness ladder are ordered.
THEOREM StatisticsConsistent == HarnessSpec => []StatisticsAgree
<1>1. HarnessInit => MeasuredInv
  BY MeasuredStart
<1>2. MeasuredInv /\ [HarnessTick]_harnessVars => MeasuredInv'
  <2> SUFFICES ASSUME MeasuredInv, [HarnessTick]_harnessVars PROVE MeasuredInv'
    OBVIOUS
  <2>1. CASE HarnessTick
    BY <2>1, MeasuredTick
  <2>2. CASE UNCHANGED harnessVars
    <3>1. /\ conf' = conf /\ zones' = zones /\ offsets' = offsets /\ step' = step
          /\ cache' = cache /\ closest' = closest /\ simCrit' = simCrit /\ danger' = danger
          /\ occupancy' = occupancy /\ packed' = packed /\ ffStale' = ffStale
      BY <2>2 DEF harnessVars, fleetTrackVars, trackVars, plantVars, instrumentVars
    <3>2. /\ This' = This /\ Car' = Car /\ Q' = Q /\ M' = M /\ Taus' = Taus /\ Rungs' = Rungs
          /\ Packed' = Packed /\ Starting' = Starting
      BY <3>1 DEF This, Car, Q, M, Taus, Rungs, Packed, Starting, StartsInZone
    <3>3. ZonesTyped' /\ PackedOnLap' /\ CachesTyped'
      BY <3>1, <3>2 DEF MeasuredInv, ZonesTyped, PackedOnLap, CachesTyped
    <3>4. DangerRelated'
      BY <3>1, <3>2 DEF MeasuredInv, DangerRelated
    <3>5. PackedRelated' /\ ClosestRelated'
      BY <3>1, <3>2 DEF MeasuredInv, PackedRelated, ClosestRelated
    <3>6. StaleRelated'
      BY <3>1, <3>2 DEF MeasuredInv, StaleRelated, OnLadder
    <3> QED
      BY <3>1, <3>3, <3>4, <3>5, <3>6 DEF MeasuredInv
  <2> QED
    BY <2>1, <2>2
<1>3. MeasuredInv => StatisticsAgree
  <2> SUFFICES ASSUME MeasuredInv PROVE StatisticsAgree
    OBVIOUS
  <2>1. PICK n \in Nat : n = This.cars
    BY MeasureType DEF MeasuredInv
  <2>2. Tallied(simCrit, n) /\ Tallied(danger, n) /\ Tallied(packed, n)
    BY <2>1 DEF MeasuredInv, DangerRelated, PackedRelated
  <2>3. Covers(simCrit) /\ Covers(danger) /\ Covers(packed)
    BY <2>2, TalliedCovers
  <2>4. packed.ticks > 0 =>
          /\ packed.max = occupancy[This.packZone]
          /\ Packed => packed.max >= HowMany(StartsInZone)
    <3>1. packed.ticks > 0 => Q.plant = "lateral" /\ This.packZone >= 0
      BY DEF MeasuredInv, PackedRelated
    <3>2. packed.ticks > 0 => packed.max = occupancy[This.packZone]
      BY <3>1 DEF MeasuredInv, PackedRelated
    <3>3. packed.ticks > 0 /\ Packed => packed.max >= HowMany(StartsInZone)
      BY DEF MeasuredInv, PackedRelated, Starting, HowMany
    <3> QED
      BY <3>2, <3>3
  <2>5. Q.plant = "lateral" =>
          /\ simCrit.ticks = danger.ticks /\ simCrit.max <= danger.max
          /\ \A g \in Taus : danger.kAge[g] <= danger.k[g] /\ simCrit.max <= danger.k[g]
          /\ danger.max = danger.k[1]
          /\ \A g, h \in Taus : M.tau[g] <= M.tau[h] =>
               danger.k[g] >= danger.k[h] /\ danger.kAge[g] >= danger.kAge[h]
    BY DEF MeasuredInv, DangerRelated
  <2>6. \A v \in Car : /\ closest[v].past > 0 => closest[v].min = 0
                       /\ closest[v].past <= simCrit.ticks
    BY DEF MeasuredInv, ClosestRelated
  <2>7. \A z \in 0 .. 3, l \in Rungs :
          /\ ffStale[z].beyond[l] > 0 <=> ffStale[z].max > M.ladder[l]
          /\ ffStale[z].beyond[l] <= ffStale[z].ticks
          /\ \A m \in Rungs :
               M.ladder[m] <= M.ladder[l] => ffStale[z].beyond[m] >= ffStale[z].beyond[l]
    BY DEF MeasuredInv, StaleRelated, OnLadder
  <2> QED
    BY <2>3, <2>4, <2>5, <2>6, <2>7 DEF StatisticsAgree
<1> QED
  BY <1>1, <1>2, <1>3, PTL DEF HarnessSpec
=============================================================================
