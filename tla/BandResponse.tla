---------------------------- MODULE BandResponse ----------------------------
(***************************************************************************)
(* The two-band analysis of PROOF_DRAFT.md section 3 (Lemma 2b) about the  *)
(* zone-band scheduler.  Where the cars are, and so which are flagged, is  *)
(* free within the lemma's membership premise.                             *)
(***************************************************************************)
EXTENDS ResponseTime

VARIABLE flaggedAt  \* history: the tick in which a car was last flagged, or -1

bandVars == <<fleetVars, flaggedAt>>

\* fleet_bound in band mode: which car has which rank in its band is not known, so a
\* kind's bound is the worst of its band.
BandBounds ==
  {[conf |-> b.conf, kind |-> b.task[2], band |-> BandOf(b.conf, b.task), bound |-> b.bound] :
     b \in {x \in Bounds :
              /\ x.form = "limited-t"
              /\ \A y \in Bounds :
                   (/\ y.conf = x.conf /\ y.form = x.form /\ y.task[2] = x.task[2]
                    /\ BandOf(y.conf, y.task) = BandOf(x.conf, x.task)) => y.bound <= x.bound}}

Tmax == CHOOSE longest \in {T(conf, t) : t \in Analysed(conf)} :
          \A t \in Analysed(conf) : T(conf, t) <= longest

\* The analysed interval is at most T_max long, and reaches T_max further back for the
\* releases of the jobs that are executed in it.
FlaggedLately == {v \in Vehicle : flaggedAt[v] >= 0 /\ step - flaggedAt[v] < 2 * Tmax}

\* Section 3.1, the abstract membership premise: at most Occ+ distinct cars are flagged
\* in any such interval.
Membership == Cardinality(FlaggedLately) <= Analysis[conf].topK

BandInit ==
  /\ Init
  /\ flaggedAt = [v \in Vehicle |-> -1]

BandNext ==
  /\ Next
  /\ flaggedAt' = [v \in Vehicle |->
                     IF phase = "begin" /\ ctx'[v].zoneFlagged THEN step ELSE flaggedAt[v]]
  /\ Membership'

BandSpec == BandInit /\ [][BandNext]_bandVars

-----------------------------------------------------------------------------
(* Properties *)

OnAgePath(k) == k # "Feedforward"

\* PROOF_DRAFT.md Lemma 2b: in the two-band system a job on the age path completes within
\* the bound of the band that it was stamped with at its release.
WithinBandResponse ==
  This.policy = "zband" =>
    \A b \in BandBounds, t \in Analysed(conf) :
      (b.conf = conf /\ t[2] = b.kind /\ OnAgePath(b.kind) /\ job[t].band = b.band)
        => Keeps(t, b.bound)

\* PROOF_DRAFT.md section 3.3, a base job's higher-priority set is at worst every other
\* car's tasks: so Feedforward, always in the base band, keeps its bound there too.
WithinBandFeedforward ==
  This.policy = "zband" =>
    \A b \in BandBounds, t \in Analysed(conf) :
      (b.conf = conf /\ t[2] = b.kind /\ ~OnAgePath(b.kind)) => Keeps(t, b.bound)
=============================================================================
