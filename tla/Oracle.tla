------------------------------- MODULE Oracle -------------------------------
(***************************************************************************)
(* Simulation::step around the held-command predictions: the plants move,  *)
(* commands are latched, predictions are made every few ticks and aged in  *)
(* between, once from the true state and once from the state the cloud can *)
(* know.  What the step measures about the fleet is in Instruments.        *)
(***************************************************************************)
EXTENDS FleetOnTrack, HeldCommand

CONSTANT Predicting  \* the plant and the predictor of every configuration

\* refresh and pnrRefresh: kPredictRefreshTicks and kPnrRefreshTicks; staleness: of the state
\* the honest predictor sees; commands: what the actuator may latch.
PlantConfiguration ==
  [plant : {"lateral", "pole"}, shovePeriod : Nat \ {0}, shoveDur : Nat, shoveForce : Int,
   params : PredictParams, refresh : Nat \ {0}, pnrRefresh : Nat \ {0},
   staleness : Nat, honest : BOOLEAN, validate : BOOLEAN, gateHorizon : Nat,
   commands : SUBSET Int]

ASSUME PredictingAssumption ==
  /\ DOMAIN Predicting = DOMAIN Config
  /\ \A c \in DOMAIN Config : Predicting[c] \in PlantConfiguration

VARIABLES
  plant,     \* per car: its state and the command its actuator holds
  cache,     \* predCache_, predBaseStep_, ttpnrTicks_, ttpnrBaseStep_, per car
  honest,    \* predCacheEst_ and its companions
  stateHist, \* stateHist_: a ring of the plants' outputs, per car
  gate,      \* pendingVal_ and the largest deviation seen, per car
  past,      \* history: the plants' outputs after every tick, per car
  latchedAt  \* history: the tick of the latest latch, per car

plantVars == <<plant, cache, honest, stateHist, gate, past, latchedAt>>

Q == Predicting[conf]

\* CartPolePlant::disturbance
Disturbance(i) == IF i % Q.shovePeriod < Q.shoveDur THEN Q.shoveForce ELSE 0

\* What drives car v at tick i besides its command.
Reference(v, i) ==
  IF Q.plant = "pole" THEN Disturbance(i) ELSE track.ff0[Wrap(i + offsets[v], This.lap)]

References(v) == [i \in Nat |-> Reference(v, i)]

\* VehiclePlant::predictHeld
PredictHeld(v, out, from, p, warm) ==
  IF Q.plant = "pole" THEN PoleHeld(out.x, out.u, from, References(v), p)
  ELSE PredictHold(out.x, out.u, from, References(v), p, warm)

-----------------------------------------------------------------------------
(* Caches *)

NoPrediction == [ttv |-> 0, ttpnr |-> Q.params.horizon, clearance |-> NotComputed,
                 rescueFrom |-> -1, base |-> -1, pnrBase |-> -1]

\* Fault: the ticks are counted from the first predicted tick, not from the one before it.
AgedFromFirstTick(ticks, base, now) ==
  IF base < 0 \/ ticks >= Q.params.horizon THEN Q.params.horizon
  ELSE Max({0, ticks - (now - base - 1)})

\* A cached time, some ticks after it was computed; the horizon does not age.
AgedTicks(ticks, base, now) ==
  IF base < 0 \/ ticks >= Q.params.horizon THEN Q.params.horizon ELSE Max({0, ticks - (now - base)})

\* currentPredTicks and currentHonestPredTicks
CurrentTtv(c, now) == AgedTicks(c.ttv, c.base, now)
CurrentTtpnr(c, now) == Min({AgedTicks(c.ttpnr, c.pnrBase, now), CurrentTtv(c, now)})

\* The warm start of the next search; "relaxed" answers are not worth one.
WarmHint(c) ==
  IF c.pnrBase >= 0 /\ c.ttpnr < Q.params.horizon
    THEN Max({0, c.ttpnr - (step - c.pnrBase)}) ELSE -1

\* What the caches c hold after prediction pr.
Cached(c, pr, withPnr) ==
  [ttv |-> pr.ttv, ttpnr |-> IF withPnr THEN pr.ttpnr ELSE c.ttpnr, clearance |-> pr.clearance,
   rescueFrom |-> pr.rescueFrom, base |-> step, pnrBase |-> IF withPnr THEN step ELSE c.pnrBase]

\* A prediction for car v from out, with the search for the point of no return or without.
Refreshed(v, c, out, withPnr) ==
  Cached(c, PredictHeld(v, out, step + 1, [Q.params EXCEPT !.computePnr = withPnr],
                        IF withPnr THEN WarmHint(c) ELSE -1), withPnr)

\* The ring holds one more output than the staleness.
RingSize == Q.staleness + 1

\* Fault: the ring is taken to be as long as the staleness.
ShortSlot == Max({0, step - Q.staleness}) % Max({1, Q.staleness})

\* refreshHonestPredictions: the slot of the freshest state that the cloud may know.
DelayedSlot == Max({0, step - Q.staleness}) % RingSize

-----------------------------------------------------------------------------
(* The fidelity gate: the realised error against the prediction of the hold *)

NoGate == [madeAt |-> -1, error |-> <<>>, deviation |-> 0]

GateParams == [Q.params EXCEPT !.horizon = Q.gateHorizon, !.block = 1, !.computePnr = FALSE]

HeldErrors(v, out) ==
  LET held == Held(out.x, out.u, step + 1, GateParams.horizon, References(v), GateParams)
  IN [k \in 0 .. GateParams.horizon |-> ErrorOf(held[k])]

\* validatePredictions, for a car with these outputs; latched: a fresh command in this tick.
Validated(v, g, out, latched) ==
  LET idx == step - g.madeAt
      deviation == IF g.madeAt >= 0 /\ idx \in DOMAIN g.error
                     THEN Max({g.deviation, Magnitude(ErrorOf(out.x) - g.error[idx])})
                     ELSE g.deviation
  IN IF ~Q.validate \/ Q.plant = "pole" THEN g
     ELSE IF latched THEN [madeAt |-> step, error |-> HeldErrors(v, out), deviation |-> deviation]
     ELSE [g EXCEPT !.deviation = deviation]

-----------------------------------------------------------------------------
(* Specification *)

PlantInit ==
  /\ plant = [v \in Car |-> [x |-> AtRest, u |-> 0]]
  /\ cache = [v \in Car |-> NoPrediction]
  /\ honest = [v \in Car |-> NoPrediction]
  /\ stateHist = [v \in Car |-> [k \in 0 .. RingSize - 1 |-> [x |-> AtRest, u |-> 0]]]
  /\ gate = [v \in Car |-> NoGate]
  /\ past = [v \in Car |-> <<>>]
  /\ latchedAt = [v \in Car |-> -1]

\* Fault: a fresh command already moves the plant in its tick.
MovedByFresh(v, command) ==
  LET u == IF command = {} THEN plant[v].u ELSE CHOOSE c \in command : TRUE
  IN [x |-> Physics(plant[v].x, u, Reference(v, step)), u |-> u]

\* doStep: the command applied so far moves the plant, then a fresh one may be latched.
Moved(v, command) ==
  [x |-> Physics(plant[v].x, plant[v].u, Reference(v, step)),
   u |-> IF command = {} THEN plant[v].u ELSE CHOOSE c \in command : TRUE]

\* No fresh command, or one of those an actuator may latch.
Commands == {{}} \cup {{c} : c \in Q.commands}

\* Simulation::step: plants, fidelity gate, predictions, honest predictions.
PlantTick ==
  \E command \in [Car -> Commands] :
    LET out == [v \in Car |-> Moved(v, command[v])]
        due == step % Q.refresh = 0
        withPnr == step % Q.pnrRefresh = 0
        ring == [v \in Car |-> [stateHist[v] EXCEPT ![step % RingSize] = out[v]]]
    IN /\ plant' = out
       /\ gate' = [v \in Car |-> Validated(v, gate[v], out[v], command[v] # {})]
       /\ cache' = [v \in Car |-> IF due THEN Refreshed(v, cache[v], out[v], withPnr) ELSE cache[v]]
       /\ stateHist' = IF Q.honest THEN ring ELSE stateHist
       /\ honest' = [v \in Car |->
                       IF due /\ Q.honest
                         THEN Refreshed(v, honest[v], ring[v][DelayedSlot], withPnr) ELSE honest[v]]
       /\ past' = [v \in Car |-> Append(past[v], out[v])]
       /\ latchedAt' = [v \in Car |-> IF command[v] = {} THEN latchedAt[v] ELSE step]

-----------------------------------------------------------------------------
(* Properties *)

\* The command that car v holds has been held since tick base.
HeldSince(v, base) == base >= 0 /\ latchedAt[v] <= base

TtvOnly == [Q.params EXCEPT !.computePnr = FALSE]

TickExact == [Q.params EXCEPT !.block = 1]

\* The plant of car v after holding its command for so many more ticks.
HeldFor(v, ticks) == Held(plant[v].x, plant[v].u, step, ticks, References(v), TickExact)[ticks]

RescueFrom(v, ticks) ==
  LET x == HeldFor(v, ticks)
  IN IF Q.plant = "pole"
       THEN PoleRecovers(x, plant[v].u, step + ticks, References(v), Q.params).ok
     ELSE Recoverable(x, plant[v].u, step + ticks, References(v), Q.params).ok

\* What car v goes through after tick base if it keeps its command, in steps of p.
HoldFrom(v, base, p) ==
  LET out == past[v][base + 1]
  IN Held(out.x, out.u, base + 1, p.horizon \div p.block, References(v), p)

\* How far a rollout is off at the ends of its steps: it holds the reference in a step.
RolloutError(v, base) ==
  LET rolled == HoldFrom(v, base, Q.params)
      exact == HoldFrom(v, base, TickExact)
  IN Max({Magnitude(ErrorOf(rolled[k]) - ErrorOf(exact[k * Q.params.block])) :
            k \in 0 .. Q.params.horizon \div Q.params.block})

\* The violation that the policies read while the command is held: the plant is over the
\* bound, up to the rollout's error, a tick after it is announced; and one that lasts a
\* rollout step, by more than that error, is announced less than a step after its first tick.
AgedTtvSound(v, c) ==
  LET announced == CurrentTtv(c, step)
      age == step - c.base - 1
      error == RolloutError(v, c.base)
      over(k, margin) == Distance(HeldFor(v, k)) >= HardBound + margin
      lasts(k) == \A j \in k .. k + Q.params.block - 1 : over(j, error)
  IN /\ c.ttv \in age .. Q.params.horizon - 1 =>
          announced = Max({0, c.ttv - age - 1}) /\ over(c.ttv - age, -error)
     /\ \A k \in 0 .. Q.params.horizon - age - Q.params.block :
          lasts(k) => announced <= Max({0, k + Q.params.block - 2})

\* The point of no return that they read: a rescue from where the rollout has it succeeds, if
\* the rollout is exact there, and at least a tick is left for it.
AgedPnrSound(v, c) ==
  LET age == step - c.pnrBase - 1
      exact == HoldFrom(v, c.pnrBase, Q.params)[c.ttpnr \div Q.params.block]
                 = HoldFrom(v, c.pnrBase, TickExact)[c.ttpnr]
  IN (c.ttpnr \in Max({1, age}) .. Q.params.horizon - 1 /\ exact) =>
       /\ RescueFrom(v, c.ttpnr - age)
       /\ CurrentTtpnr(c, step) <= Max({0, c.ttpnr - age - 1})

\* What the policies read of an aged prediction, in rollout steps of any length, while the
\* command that was predicted with is held: the violation is real and not announced late by
\* a rollout step or more, and a rescue that begins at the point of no return succeeds.
AgedPredictionSound ==
  \A v \in Car : /\ HeldSince(v, cache[v].base) => AgedTtvSound(v, cache[v])
                 /\ HeldSince(v, cache[v].pnrBase) => AgedPnrSound(v, cache[v])

\* The search's answer in the ticks in which it is run, whatever the warm start suggested
\* and though recoverability need not be monotone: past the point of no return exactly if no
\* rescue can begin now, else a verified start strictly before the violation whose next grid
\* point fails or is too late; the horizon exactly if no violation is ahead and that start is
\* the last on the grid.
SearchSound ==
  \A v \in Car :
    LET ref == References(v)
        p == [Q.params EXCEPT !.computePnr = TRUE]
        held == Held(plant[v].x, plant[v].u, step, p.horizon \div p.block, ref, p)
        ok(h) == Recoverable(held[h \div p.block], plant[v].u, step + h, ref, p).ok
        recovers == [h \in {g \in 0 .. p.horizon : g % Grid(p) = 0} |-> ok(h)]
        answer(warm) == PredictHold(plant[v].x, plant[v].u, step, ref, p, warm)
        justRun == step > 0 /\ step = cache[v].pnrBase + 1
    IN (Q.params.horizon > 1 /\ Q.plant = "lateral" /\ justRun) =>
         \A warm \in -1 .. p.horizon :
           LET a == answer(warm)
               next == a.rescueFrom + Grid(p)
           IN /\ a.pastPnr <=> ~recovers[0]
              /\ a.pastPnr => a.ttpnr = 0
              /\ ~a.pastPnr =>
                   /\ recovers[a.rescueFrom]
                   /\ a.rescueFrom < Max({1, a.ttv})
                   /\ next < Min({a.ttv, p.horizon}) => ~recovers[next]
                   /\ a.ttpnr = IF a.ttv = p.horizon /\ next >= p.horizon
                                  THEN p.horizon ELSE a.rescueFrom

\* The honest predictions are made from the outputs of exactly the staleness before, of the
\* first tick when there are no older ones.
HonestSeesDelayed ==
  \A v \in Car :
    honest[v].base >= 0 =>
      LET seen == past[v][Max({0, honest[v].base - Q.staleness}) + 1]
      IN honest[v].ttv = PredictHeld(v, seen, honest[v].base + 1, TtvOnly, -1).ttv

\* The fidelity gate's claim: while a command is held, the car follows its prediction.
FidelityExact == \A v \in Car : gate[v].deviation = 0

\* Predictor.h:45-47: a point of no return within the horizon means that some start before
\* the horizon does not recover.
HorizonMeansRelaxed ==
  \A v \in Car :
    (Q.plant = "pole" /\ cache[v].base >= 0 /\ cache[v].ttv = Q.params.horizon
       /\ HeldSince(v, cache[v].base) /\ step = cache[v].base + 1
       /\ \A h \in 0 .. Q.params.horizon - 1 : RescueFrom(v, h))
      => cache[v].ttpnr = Q.params.horizon
=============================================================================
