---------------------------- MODULE HeldCommand -----------------------------
(***************************************************************************)
(* The held-command predictions: when the plant crosses the hard bound if  *)
(* the actuator keeps holding its command (TTV), and the last tick at      *)
(* which a recovery can still begin (TTPNR).  predictHold is the car's,    *)
(* poleHeld the cart-pole's.  The dynamics are a parameter: a rollout      *)
(* needs of them only that they are deterministic.                         *)
(***************************************************************************)
EXTENDS Integers, FiniteSetsExt

CONSTANTS
  Physics(_, _, _),  \* one tick of the plant: state, command, reference -> state
  ErrorOf(_),        \* the error signal of a state
  Tendency(_),       \* error plus its rate times the lookahead of the recovery law
  AtRest,            \* the state from which the steering sign is probed
  HardBound, SoftBound

\* PredictParams, and constants of the rollouts: ticks per rollout step, ticks rolled past a
\* violation, ticks before a recovery may count as settled.
PredictParams ==
  [horizon : Nat \ {0}, latency : Nat, window : Nat, grid : Nat \ {0}, authority : Nat,
   block : Nat \ {0}, post : Nat, settle : Nat, computePnr : BOOLEAN]

Distance(x) == IF ErrorOf(x) < 0 THEN -ErrorOf(x) ELSE ErrorOf(x)
Breached(x) == Distance(x) >= HardBound

\* The greater of the search's grid and a rollout step.
Grid(p) == Max({p.grid, p.block})

NotComputed == 10 ^ 9

\* Model::step: a rollout step holds command and reference for all of its ticks.
BlockStep(x, u, r, block) ==
  LET s[k \in 0 .. block] == IF k = 0 THEN x ELSE Physics(s[k - 1], u, r)
  IN s[block]

\* The number of rollout steps of a loop over so many ticks.
Steps(ticks, p) == (ticks + p.block - 1) \div p.block

\* The sign of the command that reduces a positive error.
SteerSign == IF ErrorOf(BlockStep(AtRest, 1, 0, 3)) < 0 THEN 1 ELSE -1

\* recoveryCommand: full authority against the error.
RecoveryCommand(x, sign, p) == IF Tendency(x) > 0 THEN sign * p.authority ELSE -sign * p.authority

\* What commands a rollout: u is held or, if there is a sign, a recovery takes over.
CommandIn(x, u, sign, p) == IF sign = 0 THEN u ELSE RecoveryCommand(x, sign, p)

\* The states after 0, 1, .., n rollout steps from tick at on; ref is the reference as a
\* function of the tick.
Rollout(x, u, sign, at, n, ref, p) ==
  LET s[k \in 0 .. n] ==
        IF k = 0 THEN x
        ELSE BlockStep(s[k - 1], CommandIn(s[k - 1], u, sign, p), ref[at + (k - 1) * p.block],
                       p.block)
  IN s

\* The states while u is held.
Held(x, u, at, n, ref, p) == Rollout(x, u, 0, at, n, ref, p)

\* The car has recovered when it is back inside the comfort band, but not before some time
\* under authority; the pole when it has stayed in the soft band for long enough.
CarSettled(s, k, p) == (k - 1) * p.block >= p.settle /\ Distance(s[k]) < SoftBound
PoleSettled(s, k, p) ==
  LET stay == Steps(p.settle, p)
  IN k >= stay /\ \A j \in k - stay + 1 .. k : Distance(s[j]) < SoftBound

\* The least clearance of the states in a rollout's first n + 1.
Clearance(s, n) == Min({HardBound - Distance(s[k]) : k \in 0 .. n})

\* A recovery ends at the first breach, when the plant has settled, or with its window.
Recovery(body, s, window, p) ==
  LET settled(k) == IF body = "car" THEN CarSettled(s, k, p) ELSE PoleSettled(s, k, p)
      ends == {k \in 1 .. window : Breached(s[k]) \/ settled(k)}
      last == Min(ends \cup {window})
  IN [ok |-> ends = {} \/ ~Breached(s[last]), clearance |-> Clearance(s, last)]

\* It does not begin if there is a breach while the command is still held.
Afterwards(held, n, recovery) ==
  LET late == {k \in 1 .. n : Breached(held[k])}
  IN IF late # {} THEN [ok |-> FALSE, clearance |-> Clearance(held, Min(late))]
     ELSE [recovery EXCEPT !.clearance = Min({Clearance(held, n), @})]

\* A rescue: the command is held through the pipeline's latency, then the plant recovers.
Rescue(body, x, u, at, ref, p) ==
  LET n == Steps(p.latency, p)
      held == Held(x, u, at, n, ref, p)
      sign == IF body = "car" THEN SteerSign ELSE 1
      window == Steps(p.window, p)
      recovering == Rollout(held[n], u, sign, at + n * p.block, window, ref, p)
  IN Afterwards(held, n, Recovery(body, recovering, window, p))

\* Ticks until the first breach of a held rollout, the horizon if there is none.
FirstBreach(held, p) ==
  Min({p.horizon} \cup {k * p.block : k \in {j \in DOMAIN held : Breached(held[j])}})

-----------------------------------------------------------------------------
(* The car *)

\* recoverable
Recoverable(x, u, at, ref, p) == Rescue("car", x, u, at, ref, p)

\* Fault: a recovery may start with the violation.
LastStartIncluded(ttv, p) == Min({p.horizon, ttv + p.post, ttv}) \div Grid(p)

\* The largest grid point that a recovery may start from: before the violation, and rolled.
LastStart(ttv, p) ==
  LET rolled == Min({p.horizon, ttv + p.post}) \div Grid(p)
  IN Max({0} \cup {h \in 0 .. rolled : h * Grid(p) < Min({ttv, p.horizon})})

\* From a verified start h outwards, in steps that double, to a failing probe or to the top.
Gallop(h, top, ok) ==
  LET g[i \in 0 .. top] ==   \* the bracket and the next step's length after i probes
        IF i = 0 THEN [lo |-> h, bad |-> -1, stride |-> 1]
        ELSE LET b == g[i - 1]
                 probe == Min({top, b.lo + b.stride})
             IN IF b.lo >= top \/ b.bad >= 0 THEN b
                ELSE IF ok[probe] THEN [b EXCEPT !.lo = probe, !.stride = 2 * @]
                ELSE [b EXCEPT !.bad = probe]
  IN [lo |-> g[top].lo, bad |-> g[top].bad]

\* The bracket around the aged previous answer; without one, the whole range.
WarmBracket(warm, top, ok, p) ==
  LET h == Max({1, Min({warm \div Grid(p), top})})
  IN IF warm < 0 \/ top < 1 THEN [lo |-> 0, bad |-> -1]
     ELSE IF ok[h] THEN Gallop(h, top, ok) ELSE [lo |-> 0, bad |-> h]

\* lo succeeds, bad fails: the last success before a failure that bisection finds.
Bisect(bracket, ok) ==
  LET b[n \in 0 .. bracket.bad] ==   \* the bracket after n halvings
        IF n = 0 THEN bracket
        ELSE LET c == b[n - 1]
                 mid == c.lo + (c.bad - c.lo) \div 2
             IN IF c.bad - c.lo <= 1 THEN c
                ELSE IF ok[mid] THEN [c EXCEPT !.lo = mid] ELSE [c EXCEPT !.bad = mid]
  IN b[bracket.bad].lo

\* The grid index of the last start that recovers; the top is probed unless a failure is known.
SearchPnr(warm, top, ok, p) ==
  LET b == WarmBracket(warm, top, ok, p)
  IN IF b.bad >= 0 THEN Bisect(b, ok)
     ELSE IF b.lo >= top \/ ok[top] THEN top
     ELSE Bisect([b EXCEPT !.bad = top], ok)

\* Fault: with the last start the answer is that start's tick, not the horizon.
VerdictOnGrid(ttv, top, now, best, p) ==
  [ttv |-> ttv, ttpnr |-> IF ~p.computePnr THEN p.horizon ELSE IF now.ok THEN best * Grid(p) ELSE 0,
   pastPnr |-> p.computePnr /\ ~now.ok,
   clearance |-> IF p.computePnr THEN now.clearance ELSE NotComputed,
   rescueFrom |-> IF p.computePnr /\ now.ok THEN best * Grid(p) ELSE -1]

\* The prediction: without the search, past the point of no return, or before it.
Verdict(ttv, top, now, best, p) ==
  LET base == [ttv |-> ttv, ttpnr |-> p.horizon, pastPnr |-> FALSE, clearance |-> NotComputed,
               rescueFrom |-> -1]
  IN IF ~p.computePnr THEN base
     ELSE IF ~now.ok
       THEN [base EXCEPT !.ttpnr = 0, !.pastPnr = TRUE, !.clearance = now.clearance]
     ELSE [base EXCEPT !.ttpnr = IF best = top /\ ttv >= p.horizon THEN @ ELSE best * Grid(p),
                       !.clearance = now.clearance, !.rescueFrom = best * Grid(p)]

\* predictHold, from the first tick that is not yet simulated.
PredictHold(x, u, from, ref, p, warm) ==
  LET held == Held(x, u, from, p.horizon \div p.block, ref, p)
      ttv == FirstBreach(held, p)
      top == LastStart(ttv, p)
      at(h) == Recoverable(held[(h * Grid(p)) \div p.block], u, from + h * Grid(p), ref, p)
  IN Verdict(ttv, top, at(0), SearchPnr(warm, top, [h \in 0 .. top |-> at(h).ok], p), p)

-----------------------------------------------------------------------------
(* The cart-pole *)

\* recovers
PoleRecovers(x, u, at, ref, p) == Rescue("pole", x, u, at, ref, p)

\* Halving on the grid: lo recovers, hi starts at the violation and is not probed there.
PoleBisect(ttv, ok, p) ==
  LET b[n \in 0 .. ttv] ==
        IF n = 0 THEN [lo |-> 0, hi |-> ttv]
        ELSE LET c == b[n - 1]
                 mid == Max({c.lo + ((c.hi - c.lo) \div (2 * Grid(p))) * Grid(p), c.lo + Grid(p)})
             IN IF c.hi - c.lo <= Grid(p) THEN c
                ELSE IF ok[mid] THEN [c EXCEPT !.lo = mid] ELSE [c EXCEPT !.hi = mid]
  IN b[ttv].lo

\* CartPolePlant::predictHeld; last: the start that the halving ends with.
PoleVerdict(ttv, now, last, p) ==
  IF ~p.computePnr
    THEN [ttv |-> ttv, ttpnr |-> ttv, pastPnr |-> FALSE, clearance |-> NotComputed,
          rescueFrom |-> -1]
  ELSE [ttv |-> ttv, ttpnr |-> IF now.ok THEN last ELSE 0, pastPnr |-> ~now.ok,
        clearance |-> now.clearance, rescueFrom |-> -1]

PoleHeld(x, u, from, ref, p) ==
  LET held == Held(x, u, from, p.horizon \div p.block, ref, p)
      ttv == FirstBreach(held, p)
      at(h) == PoleRecovers(held[h \div p.block], u, from + h, ref, p)
  IN PoleVerdict(ttv, at(0), PoleBisect(ttv, [h \in 0 .. ttv |-> at(h).ok], p), p)
=============================================================================
