---------------------------- MODULE Instruments -----------------------------
(***************************************************************************)
(* What Simulation::step measures about the fleet in every tick: cars near *)
(* their point of no return, cars whose commands are too old for the zone  *)
(* they are in, cars in each zone, and the staleness of Feedforward.  The  *)
(* ages come from the chains and are the environment's choice.             *)
(***************************************************************************)
EXTENDS Oracle, Folds

CONSTANT Measuring  \* what every configuration measures

\* tauCrit, a count of ticks; budgets: kAZoneMs, ticks per zone; tau: dangerTau and then the
\* grid of --danger-tau's sweep, in percent; dataAges, ffAges: what the chains may report,
\* -1 for none; ladder: kFfLadderTicks.
MeasureConfiguration ==
  [tauCrit : Nat, budgets : [0 .. 3 -> Nat \ {0}], tau : Seq(Nat \ {0}) \ {<<>>},
   dataAges : SUBSET (Nat \cup {-1}), ffAges : SUBSET (Nat \cup {-1}), ladder : Seq(Nat)]

ASSUME MeasuringAssumption ==
  /\ DOMAIN Measuring = DOMAIN Config
  /\ \A c \in DOMAIN Config : Measuring[c] \in MeasureConfiguration

VARIABLES
  closest,  \* minTtpnrMs_ and pastPnrTicks_, per car
  simCrit,  \* cars near their point of no return: maximum, histogram, ticks counted
  danger,   \* the same of cars in danger; the maxima per tau, with and without the state term
  occupancy,\* maxOcc_: the greatest number of cars per zone
  packed,   \* the cars in the packed zone: maximum, histogram, ticks counted
  ffStale   \* per zone: ticks counted, greatest staleness, ticks beyond each rung

instrumentVars == <<closest, simCrit, danger, occupancy, packed, ffStale>>
harnessVars == <<fleetTrackVars, plantVars, instrumentVars>>

M == Measuring[conf]
NoCount == [n \in 0 .. This.cars |-> 0]
Taus == DOMAIN M.tau
Rungs == DOMAIN M.ladder

InstrumentInit ==
  /\ closest = [v \in Car |-> [min |-> -1, past |-> 0]]
  /\ simCrit = [max |-> 0, hist |-> NoCount, ticks |-> 0]
  /\ danger = [max |-> 0, hist |-> NoCount, ticks |-> 0,
               kAge |-> [g \in Taus |-> 0], k |-> [g \in Taus |-> 0]]
  /\ occupancy = [z \in 0 .. 3 |-> 0]
  /\ packed = [max |-> 0, hist |-> NoCount, ticks |-> 0]
  /\ ffStale = [z \in 0 .. 3 |-> [ticks |-> 0, max |-> 0, beyond |-> [l \in Rungs |-> 0]]]

Counted(s, n) == [s EXCEPT !.max = Max({@, n}), !.hist[n] = @ + 1, !.ticks = @ + 1]

HowMany(Test(_)) == Cardinality({v \in Car : Test(v)})

\* The cars of the tick in which the caches are c: within tauCrit of the point of no return.
StateCritical(c, v) == c[v].base >= 0 /\ CurrentTtpnr(c[v], step) < M.tauCrit

\* The delivered age has used up its share of the zone's budget.
AgeCritical(age, v, g) == age[v] >= 0 /\ 100 * age[v] >= M.tau[g] * M.budgets[ZoneOf(v)]

\* Closest calls.
Closer(c, v) ==
  LET t == CurrentTtpnr(c[v], step)
  IN IF c[v].base < 0 \/ t >= Q.params.horizon THEN closest[v]
     ELSE [min |-> IF closest[v].min < 0 THEN t ELSE Min({closest[v].min, t}),
           past |-> closest[v].past + (IF t = 0 THEN 1 ELSE 0)]

\* Fault: the state term counts only for cars that have a delivered age.
InDangerIfServed(c, age, v, g) == age[v] >= 0 /\ (AgeCritical(age, v, g) \/ StateCritical(c, v))

\* Danger is the union of both terms.
InDanger(c, age, v, g) == AgeCritical(age, v, g) \/ StateCritical(c, v)

\* Lateral only: danger, occupancy and Feedforward's staleness are about zones.
Measure(c, age, ffAge) ==
  LET lateral == Q.plant = "lateral"
      inZone(z) == HowMany(LAMBDA v : ZoneOf(v) = z)
  IN /\ closest' = [v \in Car |-> Closer(c, v)]
     /\ simCrit' = Counted(simCrit, HowMany(LAMBDA v : StateCritical(c, v)))
     /\ danger' =
          IF ~lateral THEN danger
          ELSE [Counted(danger, HowMany(LAMBDA v : InDanger(c, age, v, 1))) EXCEPT
                  !.kAge = [g \in Taus |-> Max({@[g], HowMany(LAMBDA v : AgeCritical(age, v, g))})],
                  !.k = [g \in Taus |-> Max({@[g], HowMany(LAMBDA v : InDanger(c, age, v, g))})]]
     /\ occupancy' = IF lateral THEN [z \in 0 .. 3 |-> Max({occupancy[z], inZone(z)})]
                     ELSE occupancy
     /\ packed' = IF lateral /\ This.packZone >= 0 THEN Counted(packed, inZone(This.packZone))
                  ELSE packed
     /\ ffStale' =
          IF ~lateral THEN ffStale
          ELSE [z \in 0 .. 3 |->
                  LET here == {v \in Car : ZoneOf(v) = z /\ ffAge[v] >= 0}
                  IN [ticks |-> ffStale[z].ticks + Cardinality(here),
                      max |-> Max({ffStale[z].max} \cup {ffAge[v] : v \in here}),
                      beyond |-> [l \in Rungs |->
                        ffStale[z].beyond[l] + Cardinality({v \in here : ffAge[v] > M.ladder[l]})]]]

HarnessInit == Init /\ PlantInit /\ InstrumentInit

\* One call of Simulation::step.
HarnessTick ==
  /\ Tick /\ PlantTick
  /\ \E age \in [Car -> M.dataAges], ffAge \in [Car -> M.ffAges] : Measure(cache', age, ffAge)

HarnessSpec == HarnessInit /\ [][HarnessTick]_harnessVars

-----------------------------------------------------------------------------
(* Properties *)

\* Every histogram covers every tick, and its greatest non-empty bin is the reported maximum.
Covers(s) ==
  /\ FoldFunction(+, 0, s.hist) = s.ticks
  /\ s.ticks > 0 => s.max = Max({n \in DOMAIN s.hist : s.hist[n] > 0})

\* The numbers of a run fit together: the danger count contains the cars near their point of
\* no return, though one is kept per tick and the other per run; a smaller tau counts more
\* cars; a packed zone holds at least the cars that were put in it; a car that was past its
\* point of no return has a closest call of zero; no rung of the staleness ladder is exceeded
\* more often than a lower one, and one is exceeded exactly if the greatest staleness is
\* beyond it.
StatisticsAgree ==
  /\ Covers(simCrit) /\ Covers(danger) /\ Covers(packed)
  /\ packed.ticks > 0 =>
       /\ packed.max = occupancy[This.packZone]
       /\ Packed => packed.max >= HowMany(StartsInZone)
  /\ Q.plant = "lateral" =>
       /\ simCrit.ticks = danger.ticks /\ simCrit.max <= danger.max
       /\ \A g \in Taus : danger.kAge[g] <= danger.k[g] /\ simCrit.max <= danger.k[g]
       /\ danger.max = danger.k[1]
       /\ \A g, h \in Taus : M.tau[g] <= M.tau[h] =>
            danger.k[g] >= danger.k[h] /\ danger.kAge[g] >= danger.kAge[h]
  /\ \A v \in Car : /\ closest[v].past > 0 => closest[v].min = 0
                    /\ closest[v].past <= simCrit.ticks
  /\ \A z \in 0 .. 3, l \in Rungs :
       /\ ffStale[z].beyond[l] > 0 <=> ffStale[z].max > M.ladder[l]
       /\ ffStale[z].beyond[l] <= ffStale[z].ticks
       /\ \A m \in Rungs :
            M.ladder[m] <= M.ladder[l] => ffStale[z].beyond[m] >= ffStale[z].beyond[l]
=============================================================================
