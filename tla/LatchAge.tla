------------------------------ MODULE LatchAge ------------------------------
(***************************************************************************)
(* The two-bucket window behind TaskChainModel::recentLatchAgeTicks: the   *)
(* greatest latch-time age of the current bucket and of the one before it. *)
(* A window is a record [start, cur, prev]; -1 stands for "no latch".      *)
(***************************************************************************)
EXTENDS Integers

CONSTANT LatchBucket   \* kLatchAgeBucketTicks (10000 ticks in the code)

ASSUME LatchBucketAssumption == LatchBucket \in Nat \ {0}

\* Stamps, ages and due ticks: a tick number, or -1 for "none".
Stamp == Nat \cup {-1}

Window == [start : Nat, cur : Stamp, prev : Stamp]

EmptyWindow == [start |-> 0, cur |-> -1, prev |-> -1]

Later(a, b) == IF a > b THEN a ELSE b

\* Fault: rotating never lets a bucket expire.
RotateKeeps(w, step) ==
  IF step - w.start >= LatchBucket
    THEN [start |-> step - (step % LatchBucket), cur |-> -1, prev |-> w.cur] ELSE w

\* The window once the bucket holding step is the current one.
Rotate(w, step) ==
  IF step - w.start >= LatchBucket
    THEN [start |-> step - (step % LatchBucket),
          cur   |-> -1,
          prev  |-> IF step - w.start < 2 * LatchBucket THEN w.cur ELSE -1]
    ELSE w

\* A fresh command latched at step with this age.
Latch(w, step, age) ==
  LET r == Rotate(w, step)
  IN  [r EXCEPT !.cur = Later(age, @)]

\* What the scheduling policies read.
RecentLatchAge(w, step) ==
  CASE step - w.start >= 2 * LatchBucket -> -1
    [] step - w.start < LatchBucket      -> Later(w.cur, w.prev)
    [] OTHER                             -> w.cur
=============================================================================
