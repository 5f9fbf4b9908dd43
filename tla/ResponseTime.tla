---------------------------- MODULE ResponseTime ----------------------------
(***************************************************************************)
(* The response-time analysis of tools/rta_solve.py (BOUND.md section 7,   *)
(* PROOF_DRAFT.md sections 2 and 3) about the schedules that Fleet makes.  *)
(* The analysis of a configuration is made of its periods, its longest     *)
(* execution times and its cores; n is the configuration's name.           *)
(***************************************************************************)
EXTENDS Fleet, SequencesExt

CONSTANT
  Analysis  \* per configuration: topK (--band) and demoteF (--band-demote-f)

ASSUME AnalysisAssumption ==
  Analysis \in [DOMAIN Config -> [topK : 0 .. NVehicles, demoteF : BOOLEAN]]

\* The tasks that the configuration releases; the tool analyses a whole fleet.
Analysed(n) == TaskSet(Config[n])

T(n, t) == Config[n].period[t[2]]
C(n, t) == Wcet(Config[n], t)

\* The elevated band is band 0, and so is everything outside band mode.
BandOf(n, t) ==
  LET a == Analysis[n]
  IN IF a.topK = 0 \/ (t[1] < a.topK /\ ~(a.demoteF /\ t[2] = "Feedforward")) THEN 0 ELSE 1

PriorityKey(n, t) == <<BandOf(n, t), T(n, t), t[1], KindRank[t[2]]>>

\* build_cloud_tasks: highest priority first.
ByPriority(n) ==
  LET tasks == Analysed(n)
      foremost(rest) ==
        CHOOSE t \in rest : \A s \in rest \ {t} : Precedes(PriorityKey(n, t), PriorityKey(n, s))
  IN FoldLeft(LAMBDA order, i : Append(order, foremost(tasks \ Range(order))),
              <<>>, [i \in 1 .. Cardinality(tasks) |-> i])

CeilDiv(a, b) == -((-a) \div b)

\* workload(): how much a task can execute in x ticks if its jobs may be served up to
\* jitter ticks after their release.
Work(n, t, x, jitter) == CeilDiv(x + jitter, T(n, t)) * C(n, t)

Total(s) == FoldLeft(LAMBDA acc, a : acc + a, 0, s)

LargestSum(s, count) ==
  Total(SubSeq(SortSeq(s, LAMBDA a, b : a > b), 1, Lesser(count, Len(s))))

\* Fault: no job is carried into the window.
InterferenceWithoutCarry(n, form, hp, R, x) ==
  Total([i \in DOMAIN hp |-> Work(n, hp[i], x, 0)])

\* hp_interference(): hp are the tasks of higher priority, R[i] is the bound of hp[i].
\* The limited forms let one job fewer than there are cores be carried in.
Interference(n, form, hp, R, x) ==
  LET jitter == [i \in DOMAIN hp |->
                   (IF form = "limited-t" THEN T(n, hp[i]) ELSE R[i]) - C(n, hp[i])]
      free == [i \in DOMAIN hp |-> Work(n, hp[i], x, 0)]
      carried == [i \in DOMAIN hp |-> Work(n, hp[i], x, jitter[i])]
  IN IF form = "full" THEN Total(carried)
     ELSE Total(free) + LargestSum([i \in DOMAIN hp |-> carried[i] - free[i]],
                                   Config[n].nCores - 1)

\* The predecessor of a base job may have been stamped into the band above it.
OwnCarry(n, t) == IF BandOf(n, t) = 1 /\ t[2] # "Feedforward" THEN C(n, t) ELSE 0

\* The body of solve_rta: the first x that covers the execution time and what interferes
\* within it, or the first one beyond the period.
SolveTask(n, form, t, hp, R) ==
  LET next(x) ==
        C(n, t) + (Interference(n, form, hp, R, x) + OwnCarry(n, t)) \div Config[n].nCores
      solve[x \in Nat] ==
        LET nx == next(x) IN
          IF nx <= x THEN x ELSE IF nx > T(n, t) THEN nx ELSE solve[nx]
  IN solve[C(n, t)]

\* solve_rta(): the bounds of tasks given in priority order.
SolveRta(n, form, order) ==
  FoldLeft(LAMBDA R, t : Append(R, SolveTask(n, form, t, SubSeq(order, 1, Len(R)), R)),
           <<>>, order)

\* The bounds of every configuration in every form.
Bounds ==
  UNION {LET order == ByPriority(n)
             R == SolveRta(n, form, order)
         IN {[conf |-> n, form |-> form, task |-> order[i], bound |-> R[i]] : i \in DOMAIN R} :
         n \in DOMAIN Config, form \in {"full", "limited", "limited-t"}}

-----------------------------------------------------------------------------
(* Properties *)

\* Between two ticks: t's job has been served for bound ticks and is not done.
Exceeds(t, bound) == phase = "begin" /\ job[t].active /\ step - job[t].release >= bound

Keeps(t, bound) == bound <= Period[t[2]] => ~Exceeds(t, bound)

\* A task that the analysis admits (R <= T) completes every job within R, however releases
\* are phased and execution times vary, in each of three forms: with full carry-in (BOUND.md
\* section 7.2), with one job fewer than there are cores carried in (PROOF_DRAFT.md Lemma
\* 2a), and with the assumption-free jitter T - C, which is sound even when jobs of higher
\* priority are killed.
WithinResponse ==
  This.policy = "rm" => \A b \in Bounds : b.conf = conf => Keeps(b.task, b.bound)
=============================================================================
