---------------------------- MODULE FrontierFleet ---------------------------
(***************************************************************************)
(* The fleet under any policy, the Frontier policy included.  It is the    *)
(* only policy with a memory: for every vehicle, when it last saw          *)
(* Feedforward complete.  The policy is not told the tick; it reads a      *)
(* clock off the releases of ready jobs, so its clock lags and may even    *)
(* run backwards.                                                          *)
(***************************************************************************)
EXTENDS Fleet

VARIABLES
  lastFDone,  \* lastFDone_, on the policy's own clock
  fDoneAt     \* history: the tick in which Feedforward really completed

frontierVars == <<fleetVars, lastFDone, fDoneAt>>

Feedforward(v) == <<v, "Feedforward">>

FrontierInit ==
  /\ Init
  /\ lastFDone = [v \in Vehicle |-> 0]
  /\ fDoneAt = [v \in Vehicle |-> 0]

Begin == BeginTick /\ UNCHANGED <<lastFDone, fDoneAt>>

\* PolicyScheduler::onTick with a policy that has no state.
StatelessEnd ==
  /\ This.policy # "frontier"
  /\ EndTick
  /\ UNCHANGED <<lastFDone, fDoneAt>>

\* FrontierPolicy::assign and its bookkeeping, within PolicyScheduler::onTick.
FrontierEnd ==
  LET chosen == IF Ready = {} \/ NCores = 0 THEN {}
                ELSE Frontier(Ready, NCores, ctx, lastFDone, TRUE)
  IN /\ This.policy = "frontier"
     /\ Grant(chosen)
     /\ lastFDone' = FDone(chosen, Ready, lastFDone)
     /\ fDoneAt' = [v \in Vehicle |->
                      IF job[Feedforward(v)].active /\ ~job'[Feedforward(v)].active
                        THEN step ELSE fDoneAt[v]]

FrontierNext == Begin \/ StatelessEnd \/ FrontierEnd

FrontierSpec == FrontierInit /\ [][FrontierNext]_frontierVars

-----------------------------------------------------------------------------
(* Properties *)

\* The policy's record of a completion never runs ahead of the completion and lags it by
\* less than Feedforward's period, though it is made when the core is granted and on a
\* clock read off other jobs' releases.
HeartbeatClock ==
  \A v \in Vehicle :
    /\ lastFDone[v] <= fDoneAt[v]
    /\ fDoneAt[v] - lastFDone[v] < Period["Feedforward"]

\* Nobody is ever in danger or in a zone: Feedforward is always demoted.
Uneventful ==
  /\ This.policy = "frontier"
  /\ \A views \in This.views, v \in Vehicle :
       ~views[v].zoneFlagged /\ views[v].ttpnr >= GuardCapMs

\* Frontier.cpp:20-26: Feedforward's staleness is bounded where no car is endangered or in
\* a zone.  The heartbeat has to be noticed at a release, and the starved jobs of the
\* whole fleet may have to be served first.
FStalenessBounded ==
  Uneventful =>
    LET served == {v \in Vehicle : Feedforward(v) \in TaskSet(This)}
    IN \A v \in served :
         step - fDoneAt[v]
           <= FHeartbeat + Period["Feedforward"] + Cardinality(served) * Wcet(This, Feedforward(v))

\* Frontier.cpp:14-18, the capacity that Frontier frees never comes out of protection: what
\* the adaptive guard grants to an endangered car Frontier grants too, but for Feedforward
\* outside the zones.
RescueKept ==
  (phase = "end" /\ This.policy = "frontier") =>
    LET granted == Frontier(Ready, NCores, ctx, lastFDone, TRUE)
    IN \A r \in Assign("aguard", Ready) \ granted :
         Endangered(r.vehicle, ctx) => r.kind = "Feedforward" /\ ~ctx[r.vehicle].zoneFlagged

\* Frontier.cpp:56-57: without Feedforward's demotion Frontier reproduces the adaptive
\* guard exactly, whatever the heartbeat remembers.
AblationIsAdaptiveGuard ==
  (phase = "end" /\ This.policy = "frontier" /\ Ready # {}) =>
    Frontier(Ready, NCores, ctx, lastFDone, FALSE) = Assign("aguard", Ready)
=============================================================================
