---------------------------- MODULE TrackProofs -----------------------------
(***************************************************************************)
(* Theorems about what the simulation step tells the scheduler: the window *)
(* of recent latch ages, the places the cars start from, the zone flag and *)
(* the zones themselves, for every fleet, lap and latch history.           *)
(***************************************************************************)
EXTENDS Instruments, Lemmas, TLAPS

-----------------------------------------------------------------------------
(* The two-bucket window.  What it knows at tick now about the latches in    *)
(* set: the current bucket and the one before it hold the greatest age that  *)
(* was latched in each, as long as that latch is recent.                     *)

WindowKnows(w, set, now) ==
  /\ w \in Window /\ now \in Nat /\ w.start <= now
  /\ \E j \in Nat : w.start = LatchBucket * j
  /\ \A l \in set :
       /\ l \in [at : Nat, age : Nat]
       /\ l.at < now /\ l.at < w.start + LatchBucket
       /\ l.at >= w.start => w.cur >= l.age
       /\ l.at < w.start /\ l.at >= w.start - LatchBucket => w.prev >= l.age
  /\ w.cur # -1 /\ now - w.start < 2 * LatchBucket =>
       \E l \in set : l.age = w.cur /\ l.at >= w.start
  /\ w.prev # -1 /\ now - w.start < LatchBucket =>
       \E l \in set : l.age = w.prev /\ l.at >= w.start - LatchBucket

LEMMA WindowFields ==
  ASSUME NEW w \in Window
  PROVE  w.start \in Nat /\ w.cur \in Int /\ w.prev \in Int /\ w.cur >= -1 /\ w.prev >= -1
BY DEF Window, Stamp

\* The window at the start of a run.
LEMMA EmptyKnows == WindowKnows(EmptyWindow, {}, 0)
<1>1. EmptyWindow \in Window
  BY DEF EmptyWindow, Window, Stamp
<1>2. EmptyWindow.start = 0 /\ EmptyWindow.cur = -1 /\ EmptyWindow.prev = -1
  BY DEF EmptyWindow
<1>3. LatchBucket * 0 = 0
  BY LatchBucketAssumption
<1> QED
  BY <1>1, <1>2, <1>3 DEF WindowKnows

\* A tick without a latch.
LEMMA KnowsUnlatched ==
  ASSUME NEW w, NEW set, NEW now, WindowKnows(w, set, now)
  PROVE  WindowKnows(w, StillRecent(set, now + 1), now + 1)
<1>0. PICK next, left : next = now + 1 /\ left = StillRecent(set, next)
  OBVIOUS
<1>1. /\ w \in Window /\ now \in Nat /\ w.start <= now
      /\ \E j \in Nat : w.start = LatchBucket * j
  BY DEF WindowKnows
<1>2. /\ LatchBucket \in Nat \ {0} /\ w.start \in Nat /\ w.cur \in Int /\ w.prev \in Int
      /\ next = now + 1 /\ next \in Nat
  BY <1>0, <1>1, LatchBucketAssumption, WindowFields
<1>3. \A l \in set : /\ l \in [at : Nat, age : Nat] /\ l.at \in Nat /\ l.age \in Nat
                     /\ l.at < now /\ l.at < w.start + LatchBucket
                     /\ l.at >= w.start => w.cur >= l.age
                     /\ l.at < w.start /\ l.at >= w.start - LatchBucket => w.prev >= l.age
  BY DEF WindowKnows
<1>4. left = {l \in set : next - l.at < 2 * LatchBucket}
  BY <1>0 DEF StillRecent
<1>5. ASSUME w.cur # -1, next - w.start < 2 * LatchBucket
      PROVE  \E l \in left : l.age = w.cur /\ l.at >= w.start
  <2>1. now - w.start < 2 * LatchBucket
    BY <1>0, <1>1, <1>2, <1>5
  <2>2. PICK l \in set : l.age = w.cur /\ l.at >= w.start
    BY <1>5, <2>1 DEF WindowKnows
  <2>3. next - l.at < 2 * LatchBucket
    BY <1>1, <1>2, <1>3, <1>5, <2>2
  <2> QED
    BY <1>4, <2>2, <2>3
<1>6. ASSUME w.prev # -1, next - w.start < LatchBucket
      PROVE  \E l \in left : l.age = w.prev /\ l.at >= w.start - LatchBucket
  <2>1. now - w.start < LatchBucket
    BY <1>0, <1>1, <1>2, <1>6
  <2>2. PICK l \in set : l.age = w.prev /\ l.at >= w.start - LatchBucket
    BY <1>6, <2>1 DEF WindowKnows
  <2>3. next - l.at < 2 * LatchBucket
    BY <1>1, <1>2, <1>3, <1>6, <2>2
  <2> QED
    BY <1>4, <2>2, <2>3
<1>7. next \in Nat /\ w.start <= next
  BY <1>0, <1>1, <1>2
<1>8. \A l \in left :
        /\ l \in [at : Nat, age : Nat] /\ l.at < next /\ l.at < w.start + LatchBucket
        /\ l.at >= w.start => w.cur >= l.age
        /\ l.at < w.start /\ l.at >= w.start - LatchBucket => w.prev >= l.age
  BY <1>0, <1>1, <1>2, <1>3, <1>4
<1>9. WindowKnows(w, left, next)
  BY <1>1, <1>5, <1>6, <1>7, <1>8 DEF WindowKnows
<1> QED
  BY <1>0, <1>9

\* Bringing the window up to date loses nothing that it still has to know.
LEMMA KnowsRotated ==
  ASSUME NEW w, NEW set, NEW now, WindowKnows(w, set, now)
  PROVE  WindowKnows(Rotate(w, now), set, now) /\ now - Rotate(w, now).start < LatchBucket
<1>1. /\ w \in Window /\ now \in Nat /\ w.start <= now
  BY DEF WindowKnows
<1>2. LatchBucket \in Nat \ {0} /\ w.start \in Nat /\ w.cur \in Int /\ w.prev \in Int
  BY <1>1, LatchBucketAssumption, WindowFields
<1>3. \A l \in set : /\ l \in [at : Nat, age : Nat] /\ l.at \in Nat /\ l.age \in Nat
                     /\ l.at < now /\ l.at < w.start + LatchBucket
                     /\ l.at >= w.start => w.cur >= l.age
                     /\ l.at < w.start /\ l.at >= w.start - LatchBucket => w.prev >= l.age
  BY DEF WindowKnows
<1>4. CASE now - w.start < LatchBucket
  <2>1. Rotate(w, now) = w
    BY <1>1, <1>2, <1>4 DEF Rotate
  <2> QED
    BY <1>4, <2>1
<1>5. CASE now - w.start >= LatchBucket
  <2>1. PICK j \in Nat : w.start = LatchBucket * j
    BY DEF WindowKnows
  <2>2. PICK q \in Int, r \in 0 .. LatchBucket - 1 :
          now = LatchBucket * q + r /\ now % LatchBucket = r
    BY <1>1, <1>2, now \in Int, Division
  <2>3. PICK s : s = LatchBucket * q
    OBVIOUS
  <2>4. s \in Int /\ s = now - r /\ s <= now /\ now - s < LatchBucket
    BY <1>1, <1>2, <2>2, <2>3
  <2>5. w.start + LatchBucket <= s
    <3>1. w.start < s
      BY <1>1, <1>2, <1>5, <2>4
    <3>2. LatchBucket * j + LatchBucket <= LatchBucket * q
      BY <1>2, <2>1, <2>3, <3>1, Multiples
    <3> QED
      BY <2>1, <2>3, <3>2
  <2>6. s \in Nat /\ q \in Nat
    <3>1. s \in Nat
      BY <1>1, <1>2, <2>4, <2>5
    <3>2. q >= 0
      BY <1>2, <2>3, <3>1
    <3> QED
      BY <3>1, <3>2
  <2>7. PICK p : p = IF now - w.start < 2 * LatchBucket THEN w.cur ELSE -1
    OBVIOUS
  <2>8. Rotate(w, now) = [start |-> s, cur |-> -1, prev |-> p]
    BY <1>1, <1>2, <1>5, <2>2, <2>4, <2>7 DEF Rotate
  <2>9. Rotate(w, now) \in Window
    BY <1>1, <2>6, <2>7, <2>8 DEF Window, Stamp
  <2>10. \A l \in set : l.at < s
    BY <1>2, <1>3, <2>4, <2>5
  <2>11. ASSUME NEW l \in set, l.at >= s - LatchBucket PROVE p >= l.age
    <3>1. CASE now - w.start < 2 * LatchBucket
      <4>1. l.at >= w.start
        BY <1>2, <1>3, <2>4, <2>5, <2>11
      <4> QED
        BY <1>3, <2>7, <3>1, <4>1
    <3>2. CASE now - w.start >= 2 * LatchBucket
      <4>1. PICK n : n = LatchBucket * (j + 1)
        OBVIOUS
      <4>2. n = w.start + LatchBucket
        BY <1>2, <2>1, <4>1
      <4>3. n < s
        BY <1>1, <1>2, <2>4, <3>2, <4>2
      <4>4. LatchBucket * (j + 1) + LatchBucket <= LatchBucket * q
        <5>1. PICK i \in Int : i = j + 1
          OBVIOUS
        <5>2. LatchBucket * i < LatchBucket * q
          BY <2>3, <4>1, <4>3, <5>1
        <5>3. LatchBucket * i + LatchBucket <= LatchBucket * q
          BY <1>2, <5>2, Multiples
        <5> QED
          BY <5>1, <5>3
      <4>5. w.start + 2 * LatchBucket <= s
        BY <1>2, <2>3, <4>1, <4>2, <4>4
      <4> QED
        BY <1>2, <1>3, <2>4, <2>11, <4>5
    <3> QED
      BY <1>1, <1>2, <3>1, <3>2
  <2>12. ASSUME p # -1 PROVE \E l \in set : l.age = p /\ l.at >= s - LatchBucket
    <3>1. now - w.start < 2 * LatchBucket /\ p = w.cur
      BY <2>7, <2>12
    <3>2. PICK l \in set : l.age = w.cur /\ l.at >= w.start
      BY <2>12, <3>1 DEF WindowKnows
    <3>3. s < w.start + 2 * LatchBucket
      BY <1>1, <1>2, <2>4, <3>1
    <3>4. s - LatchBucket <= w.start
      <4>1. PICK i \in Int : i = j + 2
        OBVIOUS
      <4>2. LatchBucket * i = w.start + 2 * LatchBucket
        BY <1>2, <2>1, <4>1
      <4>3. LatchBucket * q + LatchBucket <= LatchBucket * i
        <5>1. LatchBucket * q < LatchBucket * i
          BY <2>3, <3>3, <4>2
        <5> QED
          BY <1>2, <5>1, Multiples
      <4> QED
        BY <1>2, <2>3, <2>4, <4>2, <4>3
    <3> QED
      BY <1>2, <1>3, <2>4, <3>1, <3>2, <3>4
  <2>13. Rotate(w, now).start = s /\ Rotate(w, now).cur = -1 /\ Rotate(w, now).prev = p
    BY <2>8
  <2>14. \A l \in set :
           /\ l \in [at : Nat, age : Nat] /\ l.at < now /\ l.at < s + LatchBucket
           /\ ~(l.at >= s)
           /\ l.at >= s - LatchBucket => p >= l.age
    BY <1>2, <1>3, <2>4, <2>10, <2>11
  <2> HIDE DEF Rotate
  <2> QED
    BY <1>1, <2>3, <2>4, <2>6, <2>9, <2>12, <2>13, <2>14 DEF WindowKnows
<1> QED
  BY <1>1, <1>2, <1>4, <1>5

\* A tick with a latch.
LEMMA KnowsLatched ==
  ASSUME NEW w, NEW set, NEW now, WindowKnows(w, set, now), NEW age \in Nat
  PROVE  WindowKnows(Latch(w, now, age),
                     StillRecent(set \cup {[at |-> now, age |-> age]}, now + 1), now + 1)
<1>1. PICK r, next, new, all, left : /\ r = Rotate(w, now) /\ next = now + 1
                                     /\ new = [at |-> now, age |-> age] /\ all = set \cup {new}
                                     /\ left = StillRecent(all, next)
  OBVIOUS
<1>2. WindowKnows(r, set, now) /\ now - r.start < LatchBucket
  BY <1>1, KnowsRotated
<1>3. /\ r \in Window /\ now \in Nat /\ r.start <= now
      /\ \E j \in Nat : r.start = LatchBucket * j
  BY <1>2 DEF WindowKnows
<1>4. /\ LatchBucket \in Nat \ {0} /\ r.start \in Nat /\ r.cur \in Int /\ r.prev \in Int
      /\ r.cur >= -1 /\ next = now + 1 /\ next \in Nat /\ r.start <= next
  BY <1>1, <1>3, LatchBucketAssumption, WindowFields
<1>5. PICK c : c = Later(age, r.cur)
  OBVIOUS
<1>6. c \in Nat /\ c >= age /\ c >= r.cur /\ (c = age \/ c = r.cur)
  BY <1>4, <1>5 DEF Later
<1>7. PICK s : s = Latch(w, now, age)
  OBVIOUS
<1>8. s = [r EXCEPT !.cur = c]
  BY <1>1, <1>5, <1>7 DEF Latch
<1>9. s \in Window /\ s.start = r.start /\ s.cur = c /\ s.prev = r.prev
  BY <1>3, <1>6, <1>8 DEF Window, Stamp
<1>10. \A l \in set : /\ l \in [at : Nat, age : Nat] /\ l.at \in Nat /\ l.age \in Nat
                      /\ l.at < now /\ l.at < r.start + LatchBucket
                      /\ l.at >= r.start => r.cur >= l.age
                      /\ l.at < r.start /\ l.at >= r.start - LatchBucket => r.prev >= l.age
  BY <1>2 DEF WindowKnows
<1>11. new \in [at : Nat, age : Nat] /\ new.at = now /\ new.age = age
  BY <1>1, <1>3
<1>12. left = {l \in all : next - l.at < 2 * LatchBucket}
  BY <1>1 DEF StillRecent
<1>13. ASSUME NEW l \in left
       PROVE  /\ l \in [at : Nat, age : Nat] /\ l.at < next /\ l.at < r.start + LatchBucket
              /\ l.at >= r.start => c >= l.age
              /\ l.at < r.start /\ l.at >= r.start - LatchBucket => r.prev >= l.age
  <2>1. CASE l \in set
    <3>1. /\ l \in [at : Nat, age : Nat] /\ l.at \in Nat /\ l.age \in Nat
          /\ l.at < now /\ l.at < r.start + LatchBucket
          /\ l.at >= r.start => r.cur >= l.age
          /\ l.at < r.start /\ l.at >= r.start - LatchBucket => r.prev >= l.age
      BY <1>10, <2>1
    <3> QED
      BY <1>3, <1>4, <1>6, <3>1
  <2>2. CASE l = new
    BY <1>2, <1>3, <1>4, <1>6, <1>11, <2>2
  <2> QED
    BY <1>1, <1>12, <2>1, <2>2
<1>14. \E l \in left : l.age = c /\ l.at >= r.start
  <2>1. CASE c = age
    <3>1. next - new.at < 2 * LatchBucket
      BY <1>3, <1>4, <1>11
    <3> QED
      BY <1>1, <1>3, <1>11, <1>12, <2>1, <3>1
  <2>2. CASE c = r.cur
    <3>1. r.cur # -1 /\ now - r.start < 2 * LatchBucket
      BY <1>2, <1>3, <1>4, <1>6, <2>2
    <3>2. PICK l \in set : l.age = r.cur /\ l.at >= r.start
      BY <1>2, <3>1 DEF WindowKnows
    <3>3. l.at \in Nat
      BY <1>10
    <3>4. next - l.at < 2 * LatchBucket
      BY <1>2, <1>3, <1>4, <3>2, <3>3
    <3> QED
      BY <1>1, <1>12, <2>2, <3>2, <3>4
  <2> QED
    BY <1>6, <2>1, <2>2
<1>15. ASSUME r.prev # -1, next - r.start < LatchBucket
       PROVE  \E l \in left : l.age = r.prev /\ l.at >= r.start - LatchBucket
  <2>1. PICK l \in set : l.age = r.prev /\ l.at >= r.start - LatchBucket
    BY <1>2, <1>15 DEF WindowKnows
  <2>2. l.at \in Nat
    BY <1>10
  <2>3. next - l.at < 2 * LatchBucket
    BY <1>3, <1>4, <1>15, <2>1, <2>2
  <2> QED
    BY <1>1, <1>12, <2>1, <2>3
<1>16. WindowKnows(s, left, next)
  BY <1>3, <1>4, <1>9, <1>13, <1>14, <1>15 DEF WindowKnows
<1> QED
  BY <1>1, <1>7, <1>16

\* What the policies read.
LEMMA KnowsShown ==
  ASSUME NEW w, NEW set, NEW now, WindowKnows(w, set, now)
  PROVE  /\ \A l \in set : now - l.at <= LatchBucket => RecentLatchAge(w, now) >= l.age
         /\ RecentLatchAge(w, now) # -1 => \E l \in set : l.age = RecentLatchAge(w, now)
<1>1. w \in Window /\ now \in Nat /\ w.start <= now
  BY DEF WindowKnows
<1>2. LatchBucket \in Nat \ {0} /\ w.start \in Nat /\ w.cur \in Int /\ w.prev \in Int
  BY <1>1, LatchBucketAssumption, WindowFields
<1>3. \A l \in set : /\ l.at \in Nat /\ l.age \in Nat
                     /\ l.at < now /\ l.at < w.start + LatchBucket
                     /\ l.at >= w.start => w.cur >= l.age
                     /\ l.at < w.start /\ l.at >= w.start - LatchBucket => w.prev >= l.age
  BY DEF WindowKnows
<1>4. PICK shown : shown = RecentLatchAge(w, now)
  OBVIOUS
<1>5. CASE now - w.start >= 2 * LatchBucket
  <2>1. shown = -1
    BY <1>1, <1>2, <1>4, <1>5 DEF RecentLatchAge
  <2>2. ASSUME NEW l \in set PROVE ~(now - l.at <= LatchBucket)
    BY <1>1, <1>2, <1>3, <1>5
  <2> QED
    BY <1>4, <2>1, <2>2
<1>6. CASE now - w.start >= LatchBucket /\ now - w.start < 2 * LatchBucket
  <2>1. shown = w.cur
    BY <1>1, <1>2, <1>4, <1>6 DEF RecentLatchAge
  <2>2. ASSUME NEW l \in set, now - l.at <= LatchBucket PROVE w.cur >= l.age
    <3>1. l.at \in Nat /\ (l.at >= w.start => w.cur >= l.age)
      BY <1>3
    <3>2. l.at >= w.start
      BY <1>1, <1>2, <1>6, <2>2, <3>1
    <3> QED
      BY <3>1, <3>2
  <2>3. w.cur # -1 => \E l \in set : l.age = w.cur
    BY <1>6 DEF WindowKnows
  <2> QED
    BY <1>4, <2>1, <2>2, <2>3
<1>7. CASE now - w.start < LatchBucket
  <2>1. shown = Later(w.cur, w.prev)
    BY <1>1, <1>2, <1>4, <1>7 DEF RecentLatchAge
  <2>2. shown \in Int /\ shown >= w.cur /\ shown >= w.prev /\ (shown = w.cur \/ shown = w.prev)
    BY <1>2, <2>1 DEF Later
  <2>3. ASSUME NEW l \in set, now - l.at <= LatchBucket PROVE shown >= l.age
    <3>1. /\ l.at \in Nat /\ l.age \in Nat /\ (l.at >= w.start => w.cur >= l.age)
          /\ l.at < w.start /\ l.at >= w.start - LatchBucket => w.prev >= l.age
      BY <1>3
    <3>2. l.at >= w.start - LatchBucket
      BY <1>1, <1>2, <2>3, <3>1
    <3> QED
      BY <1>2, <2>2, <3>1, <3>2
  <2>4. w.cur # -1 => \E l \in set : l.age = w.cur
    <3>1. now - w.start < 2 * LatchBucket
      BY <1>1, <1>2, <1>7
    <3> QED
      BY <3>1 DEF WindowKnows
  <2>5. w.prev # -1 => \E l \in set : l.age = w.prev
    BY <1>7 DEF WindowKnows
  <2> QED
    BY <1>4, <2>2, <2>3, <2>4, <2>5
<1> QED
  BY <1>1, <1>2, <1>5, <1>6, <1>7

-----------------------------------------------------------------------------
(* The fleet's windows *)

\* The latches of a tick with one latch.
LEMMA OneLatch ==
  ASSUME NEW a, NEW b
  PROVE  [at : {a}, age : {b}] = {[at |-> a, age |-> b]}
<1>1. ASSUME NEW x \in [at : {a}, age : {b}] PROVE x = [at |-> a, age |-> b]
  <2>1. x = [at |-> x.at, age |-> x.age] /\ x.at \in {a} /\ x.age \in {b}
    OBVIOUS
  <2> QED
    BY <2>1
<1>2. [at |-> a, age |-> b] \in [at : {a}, age : {b}]
  OBVIOUS
<1> QED
  BY <1>1, <1>2

TrackInv ==
  /\ conf \in DOMAIN Config /\ step \in Nat
  /\ \A v \in Car : WindowKnows(window[v], latches[v], step)

LEMMA TrackInvariant == HarnessSpec => []TrackInv
<1>1. HarnessInit => TrackInv
  BY EmptyKnows DEF HarnessInit, Init, TrackInv
<1>2. TrackInv /\ [HarnessTick]_harnessVars => TrackInv'
  <2> SUFFICES ASSUME TrackInv, [HarnessTick]_harnessVars PROVE TrackInv'
    OBVIOUS
  <2>1. CASE HarnessTick
    <3>1. Tick
      BY <2>1 DEF HarnessTick
    <3>2. /\ conf \in DOMAIN Config /\ conf' = conf /\ step \in Nat /\ step' = step + 1
          /\ This' = This /\ Car' = Car
      BY <3>1 DEF TrackInv, Tick, trackVars, This, Car
    <3>3. PICK latched \in [Car -> Latched] :
            /\ window' = [v \in Car |->
                 IF latched[v] = {} THEN window[v]
                 ELSE Latch(window[v], step, CHOOSE age \in latched[v] : TRUE)]
            /\ latches' = [v \in Car |->
                 StillRecent(latches[v] \cup [at : {step}, age : latched[v]], step')]
      BY <3>1 DEF Tick
    <3>4. This.ages \subseteq Nat
      BY <3>2, FleetConfigAssumption DEF This, FleetConfiguration
    <3>5. ASSUME NEW v \in Car PROVE WindowKnows(window'[v], latches'[v], step')
      <4>1. WindowKnows(window[v], latches[v], step)
        BY DEF TrackInv
      <4>2. CASE latched[v] = {}
        <5>1. latches[v] \cup [at : {step}, age : latched[v]] = latches[v]
          BY <4>2
        <5>2. window'[v] = window[v] /\ latches'[v] = StillRecent(latches[v], step + 1)
          BY <3>2, <3>3, <4>2, <5>1
        <5>3. PICK w, set, now : w = window[v] /\ set = latches[v] /\ now = step
          OBVIOUS
        <5>4. WindowKnows(w, StillRecent(set, now + 1), now + 1)
          BY <4>1, <5>3, KnowsUnlatched
        <5> QED
          BY <3>2, <5>2, <5>3, <5>4
      <4>3. CASE latched[v] # {}
        <5>1. PICK age \in Nat : latched[v] = {age}
          BY <3>3, <3>4, <4>3 DEF Latched
        <5>2. (CHOOSE a \in latched[v] : TRUE) = age
          BY <5>1
        <5>3. [at : {step}, age : latched[v]] = {[at |-> step, age |-> age]}
          BY <5>1, OneLatch
        <5>4. PICK w, set, now : w = window[v] /\ set = latches[v] /\ now = step
          OBVIOUS
        <5>5. /\ window'[v] = Latch(w, now, age)
              /\ latches'[v] = StillRecent(set \cup {[at |-> now, age |-> age]}, now + 1)
          BY <3>2, <3>3, <4>3, <5>2, <5>3, <5>4
        <5>6. WindowKnows(Latch(w, now, age),
                          StillRecent(set \cup {[at |-> now, age |-> age]}, now + 1), now + 1)
          BY <4>1, <5>4, KnowsLatched
        <5> QED
          BY <3>2, <5>4, <5>5, <5>6
      <4> QED
        BY <4>2, <4>3
    <3> QED
      BY <3>2, <3>5 DEF TrackInv
  <2>2. CASE UNCHANGED harnessVars
    BY <2>2 DEF harnessVars, fleetTrackVars, trackVars, TrackInv, This, Car
  <2> QED
    BY <2>1, <2>2
<1> QED
  BY <1>1, <1>2, PTL DEF HarnessSpec

\* TaskChainModel::recentLatchAgeTicks, two buckets instead of a queue of latches: whatever a
\* fleet latches and when, the age that a policy adapts to is no less than that of any command
\* latched within the last bucket length, and never that of one older than two.
THEOREM RecentWindowExact == HarnessSpec => []RecentLatchWindow
<1>1. TrackInv => RecentLatchWindow
  <2> SUFFICES ASSUME TrackInv, NEW v \in Car
               PROVE  LET shown == ViewOf(v).ageRecent
                      IN /\ \A l \in latches[v] : step - l.at <= LatchBucket => shown >= l.age
                         /\ shown # -1 => \E l \in latches[v] : l.age = shown
    BY DEF RecentLatchWindow
  <2>1. ViewOf(v).ageRecent = RecentLatchAge(window[v], step)
    BY DEF ViewOf
  <2>2. PICK w, set, now : w = window[v] /\ set = latches[v] /\ now = step
    OBVIOUS
  <2>3. WindowKnows(w, set, now)
    BY <2>2 DEF TrackInv
  <2>4. /\ \A l \in set : now - l.at <= LatchBucket => RecentLatchAge(w, now) >= l.age
        /\ RecentLatchAge(w, now) # -1 => \E l \in set : l.age = RecentLatchAge(w, now)
    BY <2>3, KnowsShown
  <2> QED
    BY <2>1, <2>2, <2>4
<1> QED
  BY <1>1, TrackInvariant, PTL

-----------------------------------------------------------------------------
(* Where the cars start: integer places on the lap *)

\* Every car has a place.
Placed == offsets \in [Car -> Int]

\* Where the cars start.
StartsPlaced == conf \in DOMAIN Config /\ step \in Nat /\ Placed

\* The places of an even spread are integers, however far it is drawn together.
LEMMA SpreadPlaced ==
  ASSUME NEW cars \in Nat \ {0}, NEW n \in Nat, NEW align \in 0 .. 100
  PROVE  AlignedSpread(cars, n, align) \in [1 .. cars -> Int]
<1>1. ASSUME NEW v \in 1 .. cars
      PROVE  ((100 - align) * (v - 1) * n) \div (100 * cars) \in Int
  <2>1. PICK a \in Int, b \in Nat \ {0} :
          a = (100 - align) * (v - 1) * n /\ b = 100 * cars
    <3>1. 100 * cars \in Nat \ {0}
      OBVIOUS
    <3>2. (100 - align) \in Int /\ v - 1 \in Int /\ n \in Int
      OBVIOUS
    <3>3. (100 - align) * (v - 1) * n \in Int
      BY <3>2
    <3> QED
      BY <3>1, <3>3
  <2>2. a \div b \in Int
    OBVIOUS
  <2> QED
    BY <2>1, <2>2
<1> QED
  BY <1>1 DEF AlignedSpread

\* The shorter way round.
LEMMA ApartIs ==
  ASSUME NEW i \in Int, NEW j \in Int, NEW n \in Int
  PROVE  Apart(i, j, n) = LET d == IF i < j THEN j - i ELSE i - j
                          IN IF n - d < d THEN n - d ELSE d
<1> DEFINE d == IF i < j THEN j - i ELSE i - j
<1>1. d \in Int /\ n - d \in Int
  OBVIOUS
<1>2. Magnitude(i - j) = d
  BY DEF Magnitude
<1>3. Apart(i, j, n) = Min({d, n - d})
  BY <1>2 DEF Apart
<1> HIDE DEF d
<1>4. Min({d, n - d}) = IF d < n - d THEN d ELSE n - d
  BY <1>1, MinOfTwo
<1> QED
  BY <1>1, <1>3, <1>4 DEF d

\* Pass 1, some ticks into the lap: cars in the zone and apart; while there are cars left, no
\* zone tick so far is further than the spacing behind one.
ZoneFilled(s, k, ring, target, cars, spacing) ==
  LET placed == s.placed IN
  /\ placed \in Seq(0 .. k - 1) /\ s.sinceZone \in Int
  /\ \A j \in DOMAIN placed : ring[placed[j]] = target
  /\ \A j, l \in DOMAIN placed : j < l => placed[l] - placed[j] >= spacing
  /\ Len(placed) < cars =>
       /\ s.sinceZone >= spacing \/ placed # <<>>
       /\ placed # <<>> => placed[Len(placed)] + s.sinceZone = k - 1
       /\ \A i \in 0 .. k - 1 :
            ring[i] = target => \E j \in DOMAIN placed : i - placed[j] \in 0 .. spacing
  /\ Len(placed) <= cars

LEMMA ZoneFilling ==
  ASSUME NEW k \in Nat, NEW ring, NEW target, NEW cars \in Nat, NEW spacing \in Nat \ {0},
         NEW s, s = [placed |-> s.placed, sinceZone |-> s.sinceZone],
         ZoneFilled(s, k, ring, target, cars, spacing)
  PROVE  ZoneFilled(FillZone(s, k, ring, target, cars, spacing), k + 1, ring, target, cars,
                    spacing)
<1> DEFINE placed == s.placed
           since == s.sinceZone
           s2 == FillZone(s, k, ring, target, cars, spacing)
<1>1. /\ placed \in Seq(0 .. k - 1) /\ since \in Int
      /\ \A j \in DOMAIN placed : ring[placed[j]] = target
      /\ \A j, l \in DOMAIN placed : j < l => placed[l] - placed[j] >= spacing
      /\ Len(placed) <= cars
  BY DEF ZoneFilled
<1>2. Len(placed) < cars =>
       /\ since >= spacing \/ placed # <<>>
       /\ placed # <<>> => placed[Len(placed)] + since = k - 1
       /\ \A i \in 0 .. k - 1 :
            ring[i] = target => \E j \in DOMAIN placed : i - placed[j] \in 0 .. spacing
  BY DEF ZoneFilled
<1>3. placed \in Seq(0 .. (k + 1) - 1)
  <2>1. \A j \in 1 .. Len(placed) : placed[j] \in 0 .. (k + 1) - 1
    BY <1>1
  <2>2. Len(placed) \in Nat /\ placed = [j \in 1 .. Len(placed) |-> placed[j]]
    BY <1>1
  <2> HIDE DEF placed
  <2> QED
    BY <2>1, <2>2
<1>0. since \in Int /\ (placed # <<>> => /\ Len(placed) \in DOMAIN placed
                                         /\ placed[Len(placed)] \in 0 .. k - 1)
  BY <1>1
<1>4. CASE Len(placed) = cars
  BY <1>1, <1>3, <1>4 DEF FillZone, ZoneFilled
<1>5. CASE Len(placed) < cars /\ ring[k] = target /\ since >= spacing
  <2> DEFINE more == Append(placed, k)
  <2>1. s2 = [placed |-> more, sinceZone |-> 0]
    BY <1>5 DEF FillZone
  <2>2. /\ more \in Seq(0 .. (k + 1) - 1) /\ Len(more) = Len(placed) + 1
        /\ DOMAIN more = 1 .. Len(placed) + 1 /\ DOMAIN placed = 1 .. Len(placed)
        /\ \A j \in DOMAIN placed : more[j] = placed[j]
        /\ more[Len(placed) + 1] = k /\ Len(placed) \in Nat
    BY <1>1, <1>3
  <2>3. ASSUME NEW j \in DOMAIN more PROVE ring[more[j]] = target
    <3>1. j \in DOMAIN placed \/ j = Len(placed) + 1
      BY <2>2
    <3> HIDE DEF more, placed
    <3> QED
      BY <1>1, <1>5, <2>2, <3>1
  <2>4. ASSUME NEW j \in DOMAIN placed PROVE k - placed[j] >= spacing
    <3>1. placed[Len(placed)] + since = k - 1 /\ Len(placed) \in DOMAIN placed
      BY <1>2, <1>5, <2>2
    <3>2. placed[j] \in Int /\ placed[Len(placed)] \in Int /\ placed[j] <= placed[Len(placed)]
      <4>1. placed[j] \in Int /\ placed[Len(placed)] \in Int
        <5>1. \A i \in DOMAIN placed : placed[i] \in 0 .. k - 1
          BY <1>1
        <5> HIDE DEF placed
        <5> QED
          BY <3>1, <5>1
      <4>2. j = Len(placed) \/ j < Len(placed)
        BY <2>2
      <4>3. j < Len(placed) => placed[Len(placed)] - placed[j] >= spacing
        BY <1>1, <3>1
      <4> QED
        BY <4>1, <4>2, <4>3
    <3> QED
      BY <1>1, <1>5, <3>1, <3>2
  <2>5. ASSUME NEW j \in DOMAIN more, NEW l \in DOMAIN more, j < l
        PROVE  more[l] - more[j] >= spacing
    <3>1. j \in DOMAIN placed
      BY <2>2, <2>5
    <3>2. CASE l \in DOMAIN placed
      BY <1>1, <2>2, <2>5, <3>1, <3>2
    <3>3. CASE l = Len(placed) + 1
      BY <2>2, <2>4, <3>1, <3>3
    <3> QED
      BY <2>2, <3>2, <3>3
  <2>6. ASSUME NEW i \in 0 .. (k + 1) - 1, ring[i] = target
        PROVE  \E j \in DOMAIN more : i - more[j] \in 0 .. spacing
    <3>1. CASE i = k
      BY <2>2, <3>1
    <3>2. CASE i \in 0 .. k - 1
      <4>1. PICK j \in DOMAIN placed : i - placed[j] \in 0 .. spacing
        BY <1>2, <1>5, <2>6, <3>2
      <4> QED
        BY <2>2, <4>1
    <3> QED
      BY <3>1, <3>2
  <2>7. more # <<>> /\ more[Len(more)] + 0 = (k + 1) - 1 /\ Len(more) <= cars
    BY <1>5, <2>2
  <2> HIDE DEF more
  <2> QED
    BY <2>1, <2>2, <2>3, <2>5, <2>6, <2>7 DEF ZoneFilled
<1>6. CASE Len(placed) < cars /\ ~(ring[k] = target /\ since >= spacing)
  <2>1. s2 = [placed |-> placed, sinceZone |-> since + 1]
    BY <1>6 DEF FillZone
  <2>2. since + 1 \in Int
    BY <1>1
  <2>3. since + 1 >= spacing \/ placed # <<>>
    BY <1>1, <1>2, <1>6
  <2>4. placed # <<>> => placed[Len(placed)] + (since + 1) = (k + 1) - 1
    <3> SUFFICES ASSUME placed # <<>> PROVE placed[Len(placed)] + (since + 1) = (k + 1) - 1
      OBVIOUS
    <3>1. placed[Len(placed)] + since = k - 1
      BY <1>2, <1>6
    <3>2. placed[Len(placed)] \in Int
      BY <1>0
    <3> HIDE DEF placed, since
    <3> QED
      BY <1>0, <3>1, <3>2
  <2>5. ASSUME NEW i \in 0 .. (k + 1) - 1, ring[i] = target
        PROVE  \E j \in DOMAIN placed : i - placed[j] \in 0 .. spacing
    <3>1. CASE i = k
      <4>1. since < spacing
        BY <1>1, <1>6, <2>5, <3>1
      <4>2. placed # <<>> /\ placed[Len(placed)] + since = k - 1
        BY <1>1, <1>2, <1>6, <4>1
      <4>3. Len(placed) \in DOMAIN placed /\ placed[Len(placed)] \in 0 .. k - 1
        BY <1>0, <4>2
      <4>4. k - placed[Len(placed)] \in 0 .. spacing
        <5> HIDE DEF placed, since
        <5> QED
          BY <1>0, <4>1, <4>2, <4>3
      <4> QED
        BY <3>1, <4>3, <4>4
    <3>2. CASE i \in 0 .. k - 1
      BY <1>2, <1>6, <2>5, <3>2
    <3> QED
      BY <3>1, <3>2
  <2> QED
    BY <1>1, <1>3, <2>1, <2>2, <2>3, <2>4, <2>5 DEF ZoneFilled
<1> QED
  BY <1>1, <1>4, <1>5, <1>6

LEMMA InZonePlaces ==
  ASSUME NEW ring, NEW n \in Nat, n = Cardinality(DOMAIN ring),
         NEW target, NEW cars \in Nat, NEW spacing \in Nat \ {0}
  PROVE  \E since : ZoneFilled([placed |-> PlaceInZone(ring, target, cars, spacing),
                               sinceZone |-> since], n, ring, target, cars, spacing)
<1> DEFINE T == [placed : Seq(Int), sinceZone : Int]
           start == [placed |-> <<>>, sinceZone |-> spacing]
           Visit(s, i) == FillZone(s, i, ring, target, cars, spacing)
           Walk(s) == [k \in 0 .. n |-> IF k = 0 THEN start ELSE Visit(s[k - 1], k - 1)]
           F == [k \in Nat |-> [s \in T |-> Visit(s, k - 1)]]
<1>1. PlaceInZone(ring, target, cars, spacing) = (CHOOSE s : s = Walk(s))[n].placed
  BY DEF PlaceInZone
<1>2. ASSUME NEW s \in T, NEW i \in Int PROVE Visit(s, i) \in T
  <2>1. Append(s.placed, i) \in Seq(Int) /\ s.sinceZone + 1 \in Int
    OBVIOUS
  <2> QED
    BY <2>1 DEF FillZone
<1>3. start \in T
  OBVIOUS
<1> HIDE DEF Visit, start, T
<1>4. \A k \in Nat : \A s \in T : F[k][s] = Visit(s, k - 1)
  OBVIOUS
<1> HIDE DEF F
<1>5. StaysIn(F, T)
  <2>1. ASSUME NEW k \in Nat, NEW s \in T PROVE F[k][s] \in T
    BY <1>2, <1>4, k - 1 \in Int
  <2> QED
    BY <2>1 DEF StaysIn
<1>6. PICK s : StepsOf(s, T, start, F, n)
  BY <1>3, <1>5, RecursionDefines
<1>7. s = Walk(s)
  <2>1. s \in [0 .. n -> T] /\ s[0] = start
    BY <1>6 DEF StepsOf
  <2>2. ASSUME NEW k \in 1 .. n PROVE s[k] = Visit(s[k - 1], k - 1)
    <3>1. s[k] = F[k][s[k - 1]] /\ k \in Nat
      BY <1>6 DEF StepsOf
    <3>2. k - 1 \in 0 .. n
      OBVIOUS
    <3>3. s[k - 1] \in T
      BY <2>1, <3>2
    <3> QED
      BY <1>4, <3>1, <3>3
  <2>3. ASSUME NEW k \in 0 .. n
        PROVE  s[k] = IF k = 0 THEN start ELSE Visit(s[k - 1], k - 1)
    BY <2>1, <2>2
  <2> QED
    BY <2>1, <2>3
<1>8. PICK w : w = (CHOOSE r : r = Walk(r))
  OBVIOUS
<1>9. w = Walk(w)
  BY <1>7, <1>8
<1>10. StepsOf(w, T, start, F, n)
  <2>1. w = [k \in 0 .. n |-> w[k]] /\ w[0] = start
    BY <1>9
  <2>2. ASSUME NEW k \in 1 .. n, w[k - 1] \in T PROVE w[k] = F[k][w[k - 1]]
    <3>1. w[k] = Visit(w[k - 1], k - 1) /\ k \in Nat
      BY <1>9
    <3> QED
      BY <1>4, <2>2, <3>1
  <2> HIDE DEF Walk
  <2> QED
    BY <1>3, <1>5, <2>1, <2>2, StepsStay
<1> DEFINE Good == {k \in Nat : k <= n => ZoneFilled(w[k], k, ring, target, cars, spacing)}
<1>11. w[0] = start /\ \A k \in 1 .. n : w[k] = Visit(w[k - 1], k - 1)
  BY <1>9
<1>12. 0 \in Good
  <2>1. /\ start.placed = <<>> /\ start.sinceZone = spacing /\ spacing \in Int
        /\ <<>> \in Seq(0 .. 0 - 1) /\ DOMAIN <<>> = {} /\ Len(<<>>) = 0
        /\ 0 .. 0 - 1 = {}
    BY DEF start
  <2> DEFINE none == start.placed
  <2>2. /\ none \in Seq(0 .. 0 - 1) /\ DOMAIN none = {} /\ Len(none) = 0 /\ none = <<>>
        /\ start.sinceZone \in Int /\ start.sinceZone >= spacing
    BY <2>1
  <2> HIDE DEF none
  <2>3. ZoneFilled(start, 0, ring, target, cars, spacing)
    BY <2>1, <2>2 DEF ZoneFilled, none
  <2> QED
    BY <1>11, <2>3
<1>13. ASSUME NEW k \in Nat, k \in Good PROVE k + 1 \in Good
  <2> SUFFICES ASSUME k + 1 <= n
               PROVE  ZoneFilled(w[k + 1], k + 1, ring, target, cars, spacing)
    OBVIOUS
  <2>1. PICK j \in 1 .. n : j = k + 1
    OBVIOUS
  <2>2. j - 1 = k /\ k \in 0 .. n /\ w[k + 1] = FillZone(w[k], k, ring, target, cars, spacing)
    BY <1>11, <2>1 DEF Visit
  <2>3. w[k] \in T
    BY <1>10, <2>2 DEF StepsOf
  <2>4. w[k] = [placed |-> w[k].placed, sinceZone |-> w[k].sinceZone]
    BY <2>3 DEF T
  <2>5. ZoneFilled(w[k], k, ring, target, cars, spacing)
    BY <1>13, <2>2
  <2> QED
    BY <2>2, <2>4, <2>5, ZoneFilling
<1> HIDE DEF Good
<1>14. n \in Good
  BY <1>12, <1>13, StepByStep
<1>15. ZoneFilled(w[n], n, ring, target, cars, spacing)
  BY <1>14 DEF Good
<1>16. w[n] = [placed |-> w[n].placed, sinceZone |-> w[n].sinceZone]
  <2>1. w[n] \in T
    BY <1>10 DEF StepsOf
  <2> QED
    BY <2>1 DEF T
<1> QED
  BY <1>1, <1>8, <1>15, <1>16

\* Distances on the lap: symmetric, and never more than the plain difference.
LEMMA ApartMeans ==
  ASSUME NEW i \in Int, NEW j \in Int, NEW n \in Nat
  PROVE  /\ Apart(i, j, n) = Apart(j, i, n) /\ Apart(i, j, n) \in Int
         /\ Magnitude(i - j) = Magnitude(j - i) /\ Magnitude(i - j) \in Int
         /\ Apart(i, j, n) <= Magnitude(i - j)
         /\ Apart(i, i, n) = 0
<1>1. /\ Magnitude(i - j) = IF i < j THEN j - i ELSE i - j
      /\ Magnitude(j - i) = IF i < j THEN j - i ELSE i - j
  BY DEF Magnitude
<1>2. Apart(i, j, n) = LET d == IF i < j THEN j - i ELSE i - j
                       IN IF n - d < d THEN n - d ELSE d
  BY ApartIs
<1>3. Apart(j, i, n) = LET d == IF j < i THEN i - j ELSE j - i
                       IN IF n - d < d THEN n - d ELSE d
  BY ApartIs
<1>4. Apart(i, i, n) = LET d == IF i < i THEN i - i ELSE i - i
                       IN IF n - d < d THEN n - d ELSE d
  BY ApartIs
<1> QED
  BY <1>1, <1>2, <1>3, <1>4

\* Pass 2, some ticks into the lap: places apart, the nearer ones in the zone; while there
\* are cars left, no other tick so far is free.
RestFilled(s, k, placed, ring, target, cars, spacing) ==
  LET n == Cardinality(DOMAIN ring) IN
  /\ s \in Seq(0 .. n - 1) /\ Len(placed) <= Len(s)
  /\ \A j \in DOMAIN placed : s[j] = placed[j]
  /\ \A j, l \in DOMAIN s : j # l =>
       /\ Magnitude(s[j] - s[l]) >= spacing
       /\ Apart(s[j], s[l], n) < spacing => ring[s[j]] = target /\ ring[s[l]] = target
  /\ Len(s) < cars => \A i \in 0 .. k - 1 :
       ring[i] # target => \E j \in DOMAIN s : Apart(i, s[j], n) < spacing

LEMMA RestFilling ==
  ASSUME NEW ring, NEW n \in Nat, n = Cardinality(DOMAIN ring), NEW k \in 0 .. n - 1,
         NEW target, NEW cars \in Nat, NEW spacing \in Nat \ {0},
         NEW placed, placed \in Seq(0 .. n - 1),
         NEW s, RestFilled(s, k, placed, ring, target, cars, spacing)
  PROVE  RestFilled(FillRest(s, k, ring, target, cars, spacing), k + 1, placed, ring, target,
                    cars, spacing)
<1> DEFINE s2 == FillRest(s, k, ring, target, cars, spacing)
           free == \A j \in DOMAIN s : Apart(k, s[j], n) >= spacing
<1>1. /\ s \in Seq(0 .. n - 1) /\ Len(placed) <= Len(s)
      /\ \A j \in DOMAIN placed : s[j] = placed[j]
      /\ \A j, l \in DOMAIN s : j # l =>
           /\ Magnitude(s[j] - s[l]) >= spacing
           /\ Apart(s[j], s[l], n) < spacing => ring[s[j]] = target /\ ring[s[l]] = target
  BY DEF RestFilled
<1>2. Len(s) < cars => \A i \in 0 .. k - 1 :
        ring[i] # target => \E j \in DOMAIN s : Apart(i, s[j], n) < spacing
  BY DEF RestFilled
<1>3. \A j \in DOMAIN s : s[j] \in 0 .. n - 1
  BY <1>1
<1>4. CASE ~(Len(s) < cars /\ ring[k] # target /\ free)
  <2>1. s2 = s
    BY <1>4 DEF FillRest
  <2>2. ASSUME Len(s) < cars, NEW i \in 0 .. (k + 1) - 1, ring[i] # target
        PROVE  \E j \in DOMAIN s : Apart(i, s[j], n) < spacing
    <3>1. CASE i = k
      <4>1. PICK j \in DOMAIN s : ~(Apart(k, s[j], n) >= spacing)
        BY <1>4, <2>2, <3>1
      <4>2. PICK p \in Int, t \in Int : p = s[j] /\ t = k
        BY <1>3
      <4>3. Apart(t, p, n) \in Int
        BY ApartMeans
      <4> QED
        BY <3>1, <4>1, <4>2, <4>3
    <3>2. CASE i \in 0 .. k - 1
      BY <1>2, <2>2, <3>2
    <3> QED
      BY <3>1, <3>2
  <2> QED
    BY <1>1, <2>1, <2>2 DEF RestFilled
<1>5. CASE Len(s) < cars /\ ring[k] # target /\ free
  <2> DEFINE more == Append(s, k)
             last == Len(s) + 1
  <2>1. s2 = more
    BY <1>5 DEF FillRest
  <2>2. /\ more \in Seq(0 .. n - 1) /\ Len(more) = last /\ Len(s) \in Nat
        /\ DOMAIN more = 1 .. last /\ DOMAIN s = 1 .. Len(s)
        /\ \A j \in DOMAIN s : more[j] = s[j]
        /\ more[last] = k
    BY <1>1
  <2>3. /\ Len(placed) \in Nat /\ DOMAIN placed = 1 .. Len(placed)
        /\ Len(placed) <= Len(more) /\ \A j \in DOMAIN placed : more[j] = placed[j]
    <3>1. Len(placed) \in Nat /\ DOMAIN placed = 1 .. Len(placed) /\ Len(placed) <= Len(s)
      BY <1>1
    <3>2. Len(placed) <= Len(more) /\ \A j \in DOMAIN placed : j \in DOMAIN s
      BY <2>2, <3>1
    <3> HIDE DEF more, last
    <3> QED
      BY <1>1, <2>2, <3>1, <3>2
  <2>4. ASSUME NEW j \in DOMAIN s
        PROVE  /\ Magnitude(s[j] - k) >= spacing /\ Magnitude(k - s[j]) >= spacing
               /\ ~(Apart(s[j], k, n) < spacing) /\ ~(Apart(k, s[j], n) < spacing)
    <3>1. Apart(k, s[j], n) >= spacing
      BY <1>5
    <3>2. s[j] \in Int /\ k \in Int
      BY <1>3
    <3>3. /\ Apart(k, s[j], n) = Apart(s[j], k, n) /\ Apart(k, s[j], n) \in Int
          /\ Magnitude(k - s[j]) = Magnitude(s[j] - k) /\ Magnitude(k - s[j]) \in Int
          /\ Apart(k, s[j], n) <= Magnitude(k - s[j])
      BY <3>2, ApartMeans
    <3> QED
      BY <3>1, <3>3
  <2>5. ASSUME NEW j \in DOMAIN more, NEW l \in DOMAIN more, j # l
        PROVE  /\ Magnitude(more[j] - more[l]) >= spacing
               /\ Apart(more[j], more[l], n) < spacing
                    => ring[more[j]] = target /\ ring[more[l]] = target
    <3>1. CASE j \in DOMAIN s /\ l \in DOMAIN s
      BY <1>1, <2>2, <2>5, <3>1
    <3>2. CASE j = last /\ l \in DOMAIN s
      BY <2>2, <2>4, <3>2
    <3>3. CASE l = last /\ j \in DOMAIN s
      BY <2>2, <2>4, <3>3
    <3>4. (j \in DOMAIN s \/ j = last) /\ (l \in DOMAIN s \/ l = last)
      BY <2>2
    <3> QED
      BY <2>5, <3>1, <3>2, <3>3, <3>4
  <2>6. ASSUME NEW i \in 0 .. (k + 1) - 1, ring[i] # target
        PROVE  \E j \in DOMAIN more : Apart(i, more[j], n) < spacing
    <3>1. CASE i = k
      <4>1. Apart(k, k, n) = 0
        BY ApartMeans
      <4>2. last \in DOMAIN more
        BY <2>2
      <4>3. Apart(i, more[last], n) < spacing
        BY <2>2, <3>1, <4>1
      <4> QED
        BY <4>2, <4>3
    <3>2. CASE i \in 0 .. k - 1
      <4>1. PICK j \in DOMAIN s : Apart(i, s[j], n) < spacing
        BY <1>2, <1>5, <2>6, <3>2
      <4>2. j \in DOMAIN more /\ more[j] = s[j]
        BY <2>2
      <4> HIDE DEF more
      <4> QED
        BY <4>1, <4>2
    <3> QED
      BY <3>1, <3>2, SMTT(60)
  <2> HIDE DEF more
  <2> QED
    BY <2>1, <2>2, <2>3, <2>5, <2>6 DEF RestFilled
<1> QED
  BY <1>4, <1>5

LEMMA OutsidePlaces ==
  ASSUME NEW ring, NEW n \in Nat, n = Cardinality(DOMAIN ring),
         NEW target, NEW cars \in Nat, NEW spacing \in Nat \ {0},
         NEW placed, NEW since,
         ZoneFilled([placed |-> placed, sinceZone |-> since], n, ring, target, cars, spacing)
  PROVE  RestFilled(PlaceOutside(ring, target, cars, spacing, placed), n, placed, ring,
                    target, cars, spacing)
<1> DEFINE T == Seq(Int)
           Visit(s, i) == FillRest(s, i, ring, target, cars, spacing)
           Walk(s) == [k \in 0 .. n |-> IF k = 0 THEN placed ELSE Visit(s[k - 1], k - 1)]
           F == [k \in Nat |-> [s \in T |-> Visit(s, k - 1)]]
<1>1. PlaceOutside(ring, target, cars, spacing, placed) = (CHOOSE s : s = Walk(s))[n]
  BY DEF PlaceOutside
<1>2. ASSUME NEW s \in T, NEW i \in Int PROVE Visit(s, i) \in T
  BY DEF FillRest
<1>0. /\ placed \in Seq(0 .. n - 1) /\ Len(placed) <= cars
      /\ \A j \in DOMAIN placed : ring[placed[j]] = target
      /\ \A j, l \in DOMAIN placed : j < l => placed[l] - placed[j] >= spacing
  BY DEF ZoneFilled
<1>3. placed \in T
  BY <1>0
<1> HIDE DEF Visit, T
<1>4. \A k \in Nat : \A s \in T : F[k][s] = Visit(s, k - 1)
  OBVIOUS
<1> HIDE DEF F
<1>5. StaysIn(F, T)
  <2>1. ASSUME NEW k \in Nat, NEW s \in T PROVE F[k][s] \in T
    BY <1>2, <1>4, k - 1 \in Int
  <2> QED
    BY <2>1 DEF StaysIn
<1>6. PICK s : StepsOf(s, T, placed, F, n)
  BY <1>3, <1>5, RecursionDefines
<1>7. s = Walk(s)
  <2>1. s \in [0 .. n -> T] /\ s[0] = placed
    BY <1>6 DEF StepsOf
  <2>2. ASSUME NEW k \in 1 .. n PROVE s[k] = Visit(s[k - 1], k - 1)
    <3>1. s[k] = F[k][s[k - 1]] /\ k \in Nat
      BY <1>6 DEF StepsOf
    <3>2. k - 1 \in 0 .. n
      OBVIOUS
    <3>3. s[k - 1] \in T
      BY <2>1, <3>2
    <3> QED
      BY <1>4, <3>1, <3>3
  <2>3. ASSUME NEW k \in 0 .. n
        PROVE  s[k] = IF k = 0 THEN placed ELSE Visit(s[k - 1], k - 1)
    BY <2>1, <2>2
  <2> QED
    BY <2>1, <2>3
<1>8. PICK w : w = (CHOOSE r : r = Walk(r))
  OBVIOUS
<1>9. w = Walk(w)
  BY <1>7, <1>8
<1>10. StepsOf(w, T, placed, F, n)
  <2>1. w = [k \in 0 .. n |-> w[k]] /\ w[0] = placed
    BY <1>9
  <2>2. ASSUME NEW k \in 1 .. n, w[k - 1] \in T PROVE w[k] = F[k][w[k - 1]]
    <3>1. w[k] = Visit(w[k - 1], k - 1) /\ k \in Nat
      BY <1>9
    <3> QED
      BY <1>4, <2>2, <3>1
  <2> HIDE DEF Walk
  <2> QED
    BY <1>3, <1>5, <2>1, <2>2, StepsStay
<1> DEFINE Good == {k \in Nat : k <= n => RestFilled(w[k], k, placed, ring, target, cars, spacing)}
<1>11. w[0] = placed /\ \A k \in 1 .. n : w[k] = Visit(w[k - 1], k - 1)
  BY <1>9
<1>12. 0 \in Good
  <2>1. ASSUME NEW j \in DOMAIN placed, NEW l \in DOMAIN placed, j # l
        PROVE  Magnitude(placed[j] - placed[l]) >= spacing
    <3>1. j \in Int /\ l \in Int /\ placed[j] \in Int /\ placed[l] \in Int
      BY <1>0
    <3>2. placed[l] - placed[j] >= spacing \/ placed[j] - placed[l] >= spacing
      BY <1>0, <2>1, <3>1
    <3> QED
      BY <3>1, <3>2 DEF Magnitude
  <2>2. 0 .. 0 - 1 = {} /\ Len(placed) <= Len(placed)
    BY <1>0
  <2>3. RestFilled(placed, 0, placed, ring, target, cars, spacing)
    BY <1>0, <2>1, <2>2 DEF RestFilled
  <2> QED
    BY <1>11, <2>3
<1>13. ASSUME NEW k \in Nat, k \in Good PROVE k + 1 \in Good
  <2> SUFFICES ASSUME k + 1 <= n
               PROVE  RestFilled(w[k + 1], k + 1, placed, ring, target, cars, spacing)
    OBVIOUS
  <2>1. PICK j \in 1 .. n : j = k + 1
    OBVIOUS
  <2>2. /\ j - 1 = k /\ k \in 0 .. n - 1
        /\ w[k + 1] = FillRest(w[k], k, ring, target, cars, spacing)
    BY <1>11, <2>1 DEF Visit
  <2>3. RestFilled(w[k], k, placed, ring, target, cars, spacing)
    BY <1>13, <2>2
  <2> QED
    BY <1>0, <2>2, <2>3, RestFilling
<1> HIDE DEF Good
<1>14. n \in Good
  BY <1>12, <1>13, StepByStep
<1> QED
  BY <1>1, <1>8, <1>14 DEF Good

\* A tick next to a car: less than the spacing before it, or not more behind.
NextTo(i, p, n, spacing) ==
  \E m \in {-n, 0, n} : i - p + m \in -(spacing - 1) .. spacing

LEMMA NextToBehind ==
  ASSUME NEW n \in Nat, NEW i \in 0 .. n - 1, NEW t \in 0 .. n - 1,
         NEW spacing \in Nat \ {0}, i - t \in 0 .. spacing
  PROVE  NextTo(i, t, n, spacing)
<1>1. i - t + 0 \in -(spacing - 1) .. spacing
  OBVIOUS
<1> QED
  BY <1>1 DEF NextTo

LEMMA NextToNear ==
  ASSUME NEW n \in Nat, NEW i \in 0 .. n - 1, NEW t \in 0 .. n - 1,
         NEW spacing \in Nat \ {0}, Apart(i, t, n) < spacing
  PROVE  NextTo(i, t, n, spacing)
<1>1. PICK e \in Int : e = i - t
  OBVIOUS
<1>2. PICK d \in Int : d = IF i < t THEN t - i ELSE i - t
  <2>1. t - i \in Int /\ i - t \in Int
    OBVIOUS
  <2> QED
    BY <2>1
<1>3. d = e \/ d = -e
  BY <1>1, <1>2
<1>4. d >= 0 /\ d < n
  BY <1>2
<1>5. (IF n - d < d THEN n - d ELSE d) < spacing
  <2>1. i \in Int /\ t \in Int /\ n \in Int
    OBVIOUS
  <2>2. Apart(i, t, n) = LET f == IF i < t THEN t - i ELSE i - t
                         IN IF n - f < f THEN n - f ELSE f
    BY <2>1, ApartIs
  <2> QED
    BY <1>2, <2>2
<1>6. e + 0 \in -(spacing - 1) .. spacing \/ e + n \in -(spacing - 1) .. spacing
        \/ e + (-n) \in -(spacing - 1) .. spacing
  <2>1. CASE d < spacing
    BY <1>3, <1>4, <2>1
  <2>2. CASE n - d < spacing
    BY <1>3, <1>4, <2>2
  <2> QED
    BY <1>5, <2>1, <2>2
<1> QED
  BY <1>1, <1>6 DEF NextTo

\* Fewer cars than there is room for cannot be next to every tick: of the ticks that are
\* twice the spacing apart, two would be next to the same car.
LEMMA RoomLeft ==
  ASSUME NEW n \in Nat, NEW cars \in Nat \ {0}, NEW spacing \in Nat \ {0},
         (2 * spacing) * cars <= n,
         NEW s \in Seq(0 .. n - 1), Len(s) < cars,
         \A i \in 0 .. n - 1 : \E j \in DOMAIN s : NextTo(i, s[j], n, spacing)
  PROVE  FALSE
<1> DEFINE w == 2 * spacing
           S == 0 .. cars - 1
           D == 1 .. Len(s)
           f == [c \in S |-> CHOOSE j \in D : NextTo(w * c, s[j], n, spacing)]
<1>1. w \in Nat \ {0} /\ w * cars <= n /\ DOMAIN s = D /\ Len(s) \in Nat
  OBVIOUS
<1>2. ASSUME NEW c \in S PROVE w * c \in 0 .. n - w
  <2>1. w * c >= 0 /\ w * c \in Int
    BY <1>1
  <2>2. w * c < w * cars
    <3>1. w * (cars - c) > 0
      BY <1>1
    <3>2. w * (cars - c) = w * cars - w * c
      BY <1>1
    <3> QED
      BY <1>1, <2>1, <3>1, <3>2
  <2>3. w * c + w <= w * cars
    BY <1>1, <2>2, Multiples
  <2>4. PICK a \in Int, b \in Int : a = w * c /\ b = w * cars
    BY <1>1, <2>1
  <2>5. a >= 0 /\ a + w <= b /\ b <= n
    BY <1>1, <2>1, <2>3, <2>4
  <2>6. a \in 0 .. n - w
    BY <1>1, <2>5
  <2> QED
    BY <2>4, <2>6
<1>3. ASSUME NEW c \in S PROVE f[c] \in D /\ NextTo(w * c, s[f[c]], n, spacing)
  <2>1. w * c \in 0 .. n - 1
    <3>1. PICK a : a = w * c
      OBVIOUS
    <3>2. a \in 0 .. n - w
      BY <1>2, <3>1
    <3>3. a \in 0 .. n - 1
      BY <1>1, <3>2
    <3> QED
      BY <3>1, <3>3
  <2>2. \E j \in D : NextTo(w * c, s[j], n, spacing)
    BY <1>1, <2>1
  <2> QED
    BY <2>2
<1>4. IsFiniteSet(S) /\ Cardinality(S) = cars
  <2>1. PICK a \in Int, b \in Int : a = 0 /\ b = cars - 1
    OBVIOUS
  <2>2. IsFiniteSet(a .. b) /\ Cardinality(a .. b) = IF a > b THEN 0 ELSE b - a + 1
    BY FS_Interval
  <2> QED
    BY <2>1, <2>2
<1>5. IsFiniteSet(D) /\ Cardinality(D) = Len(s)
  <2>0. Len(s) \in Int
    BY <1>1
  <2>1. PICK a \in Int, b \in Int : a = 1 /\ b = Len(s)
    BY <2>0
  <2>2. IsFiniteSet(a .. b) /\ Cardinality(a .. b) = IF a > b THEN 0 ELSE b - a + 1
    BY FS_Interval
  <2> QED
    BY <1>1, <2>1, <2>2
<1>6. f \in [S -> D]
  BY <1>3
<1> HIDE DEF S, D, f
<1>7. \E c, d \in S : c # d /\ f[c] = f[d]
  BY <1>4, <1>5, <1>6, FS_PigeonHole
<1>8. PICK c \in S, d \in S : c < d /\ f[c] = f[d]
  <2>1. S \subseteq Int
    BY DEF S
  <2> QED
    BY <1>7, <2>1
<1>9. PICK a, b, p : a = w * c /\ b = w * d /\ p = s[f[c]]
  OBVIOUS
<1>10. a \in 0 .. n - w /\ b \in 0 .. n - w /\ a + w <= b
  <2>1. c \in Int /\ d \in Int
    BY DEF S
  <2>2. w * (d - c) > 0 /\ w * (d - c) = w * d - w * c
    BY <1>1, <1>8, <2>1
  <2>3. w * c < w * d
    BY <1>1, <2>1, <2>2
  <2> QED
    BY <1>1, <1>2, <1>9, <2>1, <2>3, Multiples
<1>11. p \in Int
  BY <1>1, <1>3, <1>9
<1>12. NextTo(a, p, n, spacing) /\ NextTo(b, p, n, spacing)
  BY <1>3, <1>8, <1>9
<1>13. PICK x \in {-n, 0, n}, y \in {-n, 0, n} :
         a - p + x \in -(spacing - 1) .. spacing /\ b - p + y \in -(spacing - 1) .. spacing
  BY <1>12 DEF NextTo
<1>14. x \in Int /\ y \in Int /\ y - x \in {-2 * n, -n, 0, n, 2 * n}
  OBVIOUS
<1>15. b - a + (y - x) \in -(w - 1) .. w - 1
  BY <1>10, <1>11, <1>13, <1>14
<1>16. PICK gap \in Int, v \in Int : gap = b - a /\ v = w
  BY <1>1, <1>10
<1>17. gap >= v /\ gap <= n - v /\ v >= 1
  BY <1>1, <1>10, <1>16
<1>18. gap + (y - x) >= -(v - 1) /\ gap + (y - x) <= v - 1
  BY <1>14, <1>15, <1>16
<1> QED
  BY <1>14, <1>17, <1>18


\* The places of an even spread lie on the lap, and are as far apart as there is room.
LEMMA EvenApart ==
  ASSUME NEW n \in Nat, NEW cars \in Nat \ {0}, NEW w \in Nat, w * cars <= n
  PROVE  /\ \A v \in 1 .. cars : EvenSpread(cars, n)[v] \in 0 .. n
         /\ \A u, v \in 1 .. cars : u < v =>
              EvenSpread(cars, n)[v] - EvenSpread(cars, n)[u] \in w .. n - w
<1> DEFINE at(v) == ((v - 1) * n) \div cars
<1>1. ASSUME NEW v \in 1 .. cars
      PROVE  /\ EvenSpread(cars, n)[v] = at(v) /\ at(v) \in Int
             /\ cars * at(v) \in Int
             /\ cars * at(v) <= (v - 1) * n /\ (v - 1) * n < cars * at(v) + cars
             /\ (v - 1) * n \in Int /\ 0 <= (v - 1) * n /\ (v - 1) * n <= cars * n - n
  <2>1. PICK a : a = (v - 1) * n
    OBVIOUS
  <2>2. a \in Int /\ 0 <= a
    <3>1. v - 1 \in Nat
      OBVIOUS
    <3> QED
      BY <2>1, <3>1
  <2>3. a <= cars * n - n
    <3>1. cars - v \in Nat
      OBVIOUS
    <3>2. (cars - v) * n >= 0
      BY <3>1
    <3>3. (cars - v) * n = cars * n - n - (v - 1) * n
      OBVIOUS
    <3>4. cars * n \in Int
      OBVIOUS
    <3> QED
      BY <2>1, <2>2, <3>2, <3>3, <3>4
  <2>4. PICK q \in Int : q = a \div cars
    BY <2>2
  <2>5. cars * q <= a /\ a < cars * q + cars /\ cars * q \in Int
    BY <2>2, <2>4
  <2> QED
    BY <2>1, <2>2, <2>3, <2>4, <2>5 DEF EvenSpread
<1>2. cars * n \in Int /\ cars * w \in Int /\ cars * w <= n
  <2>1. cars * w = w * cars /\ cars * w \in Int
    OBVIOUS
  <2> QED
    BY <2>1
<1> HIDE DEF at
<1>3. ASSUME NEW v \in 1 .. cars PROVE at(v) >= 0 /\ at(v) <= n - w
  <2>1. cars * at(v) + cars = cars * (at(v) + 1) /\ cars * at(v) + cars > 0
    BY <1>1
  <2>2. at(v) >= 0
    BY <1>1, <2>1
  <2>3. cars * at(v) <= cars * n - cars * w
    <3>1. PICK a \in Int, b \in Int, e \in Int, f \in Int :
            a = cars * at(v) /\ b = (v - 1) * n /\ e = cars * n /\ f = cars * w
      BY <1>1, <1>2
    <3>2. a <= b /\ b <= e - n /\ f <= n
      BY <1>1, <1>2, <3>1
    <3> QED
      BY <3>1, <3>2
  <2>4. cars * (n - w) = cars * n - cars * w
    OBVIOUS
  <2>5. at(v) <= n - w
    <3>1. at(v) \in Int /\ n - w \in Int
      BY <1>1
    <3>2. cars * at(v) <= cars * (n - w)
      BY <2>3, <2>4
    <3> QED
      BY <3>1, <3>2, Cancel
  <2> QED
    BY <2>2, <2>5
<1>4. ASSUME NEW u \in 1 .. cars, NEW v \in 1 .. cars, u < v
      PROVE  at(v) - at(u) >= w
  <2>1. (v - 1) * n - (u - 1) * n >= n
    <3>1. (v - u - 1) * n >= 0
      BY <1>4
    <3>2. (v - u - 1) * n = (v - 1) * n - (u - 1) * n - n
      OBVIOUS
    <3> QED
      BY <1>1, <3>1, <3>2
  <2>2. cars * at(v) + cars > cars * at(u) + cars * w
    <3>1. PICK a \in Int, b \in Int, e \in Int, f \in Int, g \in Int :
            /\ a = cars * at(v) /\ b = (v - 1) * n /\ e = cars * at(u)
            /\ f = (u - 1) * n /\ g = cars * w
      BY <1>1, <1>2
    <3>2. b < a + cars /\ e <= f /\ b - f >= n /\ g <= n
      BY <1>1, <1>2, <2>1, <3>1
    <3> QED
      BY <3>1, <3>2
  <2>3. PICK p \in Int, q \in Int : p = at(v) + 1 /\ q = at(u) + w
    BY <1>1
  <2>4. cars * p = cars * at(v) + cars /\ cars * q = cars * at(u) + cars * w
    BY <1>1, <2>3
  <2>5. ~(cars * p <= cars * q)
    <3>1. PICK a \in Int, b \in Int : a = cars * p /\ b = cars * q
      OBVIOUS
    <3>2. a > b
      BY <2>2, <2>4, <3>1
    <3> QED
      BY <3>1, <3>2
  <2>6. q < p
    <3>1. p <= q => cars * p <= cars * q
      <4> SUFFICES ASSUME p <= q PROVE cars * p <= cars * q
        OBVIOUS
      <4>1. cars * (q - p) >= 0 /\ cars * (q - p) = cars * q - cars * p
        OBVIOUS
      <4> QED
        BY <4>1
    <3> QED
      BY <2>5, <3>1
  <2> QED
    BY <1>1, <2>3, <2>6
<1>5. ASSUME NEW v \in 1 .. cars PROVE at(v) \in 0 .. n
  BY <1>1, <1>3
<1>6. ASSUME NEW u \in 1 .. cars, NEW v \in 1 .. cars, u < v
      PROVE  at(v) - at(u) \in w .. n - w
  <2>1. at(u) \in Int /\ at(v) \in Int
    BY <1>1
  <2> QED
    BY <1>3, <1>4, <1>6, <2>1
<1> QED
  BY <1>1, <1>5, <1>6

\* Neither are the points of a spaced draw closer.
LEMMA DrawApart ==
  ASSUME NEW n \in Nat, NEW cars \in Nat \ {0}, NEW ms \in Nat, cars * ms < n,
         NEW pts \in [1 .. cars -> 0 .. n - cars * ms - 1],
         \A v \in 1 .. cars - 1 : pts[v] <= pts[v + 1],
         NEW u \in 1 .. cars, NEW v \in 1 .. cars, u < v
  PROVE  (pts[v] + (v - 1) * ms) - (pts[u] + (u - 1) * ms) \in ms .. n - ms
<1> DEFINE Up == {k \in Nat : u + k <= cars => pts[u] <= pts[u + k]}
<1>0. \A k \in 1 .. cars : pts[k] \in Int
  BY cars * ms \in Int
<1>1. 0 \in Up
  BY <1>0
<1>2. ASSUME NEW k \in Nat, k \in Up PROVE k + 1 \in Up
  <2> SUFFICES ASSUME u + (k + 1) <= cars PROVE pts[u] <= pts[u + (k + 1)]
    OBVIOUS
  <2>1. PICK j \in 1 .. cars - 1 : j = u + k
    OBVIOUS
  <2>2. pts[u] <= pts[j]
    BY <1>2, <2>1
  <2>3. pts[j] <= pts[j + 1] /\ j + 1 = u + (k + 1)
    BY <2>1
  <2>4. pts[j] \in Int /\ pts[j + 1] \in Int /\ pts[u] \in Int
    BY <1>0
  <2>5. pts[u + (k + 1)] = pts[j + 1]
    BY <2>3
  <2> QED
    BY <2>2, <2>3, <2>4, <2>5
<1> HIDE DEF Up
<1>3. v - u \in Up
  <2>1. \A k \in Nat : k \in Up
    BY <1>1, <1>2, StepByStep
  <2>2. v - u \in Nat
    OBVIOUS
  <2> QED
    BY <2>1, <2>2
<1>4. pts[u] <= pts[v]
  <2>1. PICK k \in Nat : k = v - u
    OBVIOUS
  <2>2. u + k = v /\ u + k <= cars
    BY <2>1
  <2> QED
    BY <1>3, <2>1, <2>2 DEF Up
<1>5. PICK x \in Int, y \in Int, z \in Int :
        x = (u - 1) * ms /\ y = (v - 1) * ms /\ z = cars * ms
  OBVIOUS
<1>6. y - x >= ms
  <2>1. (v - u - 1) * ms >= 0
    OBVIOUS
  <2>2. (v - u - 1) * ms = (v - 1) * ms - (u - 1) * ms - ms
    OBVIOUS
  <2> QED
    BY <1>5, <2>1, <2>2
<1>7. x >= 0 /\ y <= z - ms
  <2>1. (u - 1) * ms >= 0
    OBVIOUS
  <2>2. (cars - v) * ms >= 0
    OBVIOUS
  <2>3. (cars - v) * ms = cars * ms - ms - (v - 1) * ms
    OBVIOUS
  <2> QED
    BY <1>5, <2>1, <2>2, <2>3
<1>8. pts[u] \in 0 .. n - z - 1 /\ pts[v] \in 0 .. n - z - 1
  BY <1>5
<1>9. (pts[v] + y) - (pts[u] + x) \in ms .. n - ms
  <2>1. PICK p \in Int, q \in Int : p = pts[u] /\ q = pts[v]
    BY <1>0
  <2>2. p <= q /\ 0 <= p /\ q <= n - z - 1
    BY <1>4, <1>8, <2>1
  <2>3. (q + y) - (p + x) \in ms .. n - ms
    BY <1>6, <1>7, <2>2
  <2> QED
    BY <2>1, <2>3
<1> QED
  BY <1>5, <1>9

\* An even spread over a lap that is not empty lies on the lap.
LEMMA EvenOnLap ==
  ASSUME NEW n \in Nat \ {0}, NEW cars \in Nat \ {0}, NEW v \in 1 .. cars
  PROVE  EvenSpread(cars, n)[v] \in 0 .. n - 1
<1>1. PICK a \in Nat, b \in Nat : a = (v - 1) * n /\ b = cars * n /\ a + n <= b
  <2>1. (cars - v) * n \in Nat /\ (v - 1) * n \in Nat /\ cars * n \in Nat
    <3>1. cars - v \in Nat /\ v - 1 \in Nat
      OBVIOUS
    <3> QED
      BY <3>1
  <2>2. (cars - v) * n = cars * n - n - (v - 1) * n
    OBVIOUS
  <2>3. PICK a \in Nat, b \in Nat, d \in Nat :
          a = (v - 1) * n /\ b = cars * n /\ d = (cars - v) * n
    BY <2>1
  <2> QED
    BY <2>2, <2>3
<1>2. PICK q \in Int, r \in 0 .. cars - 1 : a = cars * q + r /\ EvenSpread(cars, n)[v] = q
  <2>0. a \in Int
    OBVIOUS
  <2>1. PICK q \in Int, r \in 0 .. cars - 1 : a = cars * q + r
    BY <2>0, Division, ZenonT(60)
  <2>2. a \div cars = q
    BY <2>0, <2>1, Quotient
  <2> QED
    BY <1>1, <2>1, <2>2 DEF EvenSpread
<1>3. q >= 0
  <2>1. cars * q + cars = cars * (q + 1) /\ cars * q + cars > 0
    BY <1>2
  <2> QED
    BY <2>1
<1>4. q <= n - 1
  <2>1. cars * (q - n) = cars * q - cars * n
    OBVIOUS
  <2>2. PICK e \in Int, d \in Int : e = cars * q /\ d = cars * (q - n) /\ d = e - b
    BY <1>1, <2>1
  <2>3. d < 0
    BY <1>1, <1>2, <2>2
  <2>4. q - n >= 0 => cars * (q - n) >= 0
    OBVIOUS
  <2> QED
    BY <2>2, <2>3, <2>4
<1> QED
  BY <1>2, <1>3, <1>4

\* A fleet packed into a zone starts on the lap, with room for it or without.
LEMMA PackedPlaced ==
  ASSUME NEW ring, NEW n \in Nat \ {0}, n = Cardinality(DOMAIN ring),
         NEW target, NEW cars \in Nat \ {0}, NEW ms \in Nat
  PROVE  PackZoneOffsets(ring, target, cars, ms) \in [1 .. cars -> 0 .. n - 1]
<1> DEFINE spacing == Max({1, ms})
           inZone == PlaceInZone(ring, target, cars, spacing)
           places == PlaceOutside(ring, target, cars, spacing, inZone)
           even == EvenSpread(cars, n)
<1>1. \A v \in 1 .. cars : even[v] \in 0 .. n - 1
  BY EvenOnLap
<1>2. spacing \in Nat \ {0}
  BY MaxOfTwo
<1>3. PICK since :
        ZoneFilled([placed |-> inZone, sinceZone |-> since], n, ring, target, cars, spacing)
  BY <1>2, InZonePlaces
<1>4. RestFilled(places, n, inZone, ring, target, cars, spacing)
  BY <1>2, <1>3, OutsidePlaces
<1>5. places \in Seq(0 .. n - 1)
  BY <1>4 DEF RestFilled
<1>6. PackZoneOffsets(ring, target, cars, ms)
        \in {even, [v \in 1 .. cars |-> IF v <= Len(places) THEN places[v] ELSE even[v]]}
  BY DEF PackZoneOffsets
<1>7. even \in [1 .. cars -> 0 .. n - 1]
  BY <1>1 DEF EvenSpread
<1> HIDE DEF even, places
<1>8. ASSUME NEW v \in 1 .. cars
      PROVE  (IF v <= Len(places) THEN places[v] ELSE even[v]) \in 0 .. n - 1
  <2>1. v <= Len(places) => places[v] \in 0 .. n - 1
    BY <1>5
  <2> QED
    BY <1>1, <2>1
<1> QED
  BY <1>6, <1>7, <1>8

\* Every tick of the lap has a zone.
LEMMA LapOfZones ==
  ASSUME Init
  PROVE  DOMAIN zones = 0 .. This.lap - 1 /\ Cardinality(DOMAIN zones) = This.lap
<1>1. This.lap \in Nat \ {0}
  BY FleetConfigAssumption DEF Init, This, FleetConfiguration
<1>2. track.lap = This.lap
  BY DEF Init, Track
<1>3. DOMAIN zones = Lap(track.lap)
  <2>1. PICK lane : lane = Bridged(Padded(track, P), P, track.lap)
    OBVIOUS
  <2>2. zones = [i \in Lap(track.lap) |->
                   IF i \in lane THEN 3 ELSE ZoneFromFf0(track.ff0[i], P)]
    BY <2>1 DEF Init, ZonesOf
  <2> QED
    BY <2>2
<1>4. PICK a \in Int, b \in Int : a = 0 /\ b = This.lap - 1
  BY <1>1
<1>5. Cardinality(a .. b) = IF a > b THEN 0 ELSE b - a + 1
  BY FS_Interval
<1> QED
  BY <1>1, <1>2, <1>3, <1>4, <1>5 DEF Lap

LEMMA StartPlaces ==
  ASSUME Init
  PROVE  StartsPlaced
<1>1. /\ conf \in DOMAIN Config /\ step = 0 /\ offsets \in Offsets(This, zones)
      /\ track \in Track(This.lap, This.ff0, This.ff1) /\ zones = ZonesOf(track, P)
  BY DEF Init
<1>2. This \in FleetConfiguration
  BY <1>1, FleetConfigAssumption DEF This
<1>3. PICK cars, ms, align, n : /\ cars = This.cars /\ ms = This.minSpacing
                                /\ align = This.align /\ n = Cardinality(DOMAIN zones)
  OBVIOUS
<1>4. /\ cars \in Nat \ {0} /\ ms \in Nat /\ align \in 0 .. 100 /\ This.lap \in Nat \ {0}
      /\ This.startOffsets \in Seq(Nat) /\ This.packZone \in -1 .. 3
  BY <1>2, <1>3 DEF FleetConfiguration
<1>5. n \in Nat
  BY <1>3, <1>4, LapOfZones
<1>6. Car = 1 .. cars
  BY <1>3 DEF Car
<1>7. offsets \in [1 .. cars -> Int]
  <2>1. CASE Len(This.startOffsets) = cars
    <3>1. offsets = This.startOffsets
      BY <1>1, <1>3, <2>1 DEF Offsets
    <3> QED
      BY <1>4, <2>1, <3>1
  <2>2. CASE Len(This.startOffsets) # cars /\ This.packZone = -1 /\ This.seeded
    <3>1. This.packZone \notin 0 .. 3
      BY <2>2
    <3>2. offsets \in DrawnOffsets(cars, n, ms)
      BY <1>1, <1>3, <2>2, <3>1 DEF Offsets
    <3>3. CASE ms > 0 /\ cars * ms < n
      <4>1. PICK pts \in [1 .. cars -> 0 .. n - cars * ms - 1] :
              offsets = [v \in 1 .. cars |-> pts[v] + (v - 1) * ms]
        BY <3>2, <3>3 DEF DrawnOffsets
      <4>2. ASSUME NEW v \in 1 .. cars PROVE pts[v] + (v - 1) * ms \in Int
        <5>1. PICK d \in Int : d = v - 1
          BY <1>4
        <5>2. pts[v] \in Int /\ d * ms \in Int
          BY <1>4, <4>1
        <5> QED
          BY <5>1, <5>2
      <4> QED
        BY <4>1, <4>2
    <3>4. CASE ~(ms > 0 /\ cars * ms < n)
      <4>1. offsets \in [1 .. cars -> Lap(n)]
        BY <3>2, <3>4 DEF DrawnOffsets
      <4> QED
        BY <1>5, <4>1 DEF Lap
    <3> QED
      BY <3>3, <3>4
  <2>3. CASE Len(This.startOffsets) # cars /\ This.packZone = -1 /\ ~This.seeded
    <3>1. This.packZone \notin 0 .. 3
      BY <2>3
    <3>2. offsets = AlignedSpread(cars, n, align)
      BY <1>1, <1>3, <2>3, <3>1 DEF Offsets
    <3> QED
      BY <1>4, <1>5, <3>2, SpreadPlaced
  <2>4. CASE Len(This.startOffsets) # cars /\ This.packZone \in 0 .. 3
    <3>1. offsets = PackZoneOffsets(zones, This.packZone, cars, ms)
      BY <1>1, <1>3, <2>4 DEF Offsets
    <3>2. n \in Nat \ {0}
      BY <1>3, <1>4, LapOfZones
    <3>3. offsets \in [1 .. cars -> 0 .. n - 1]
      BY <1>3, <1>4, <3>1, <3>2, PackedPlaced
    <3> QED
      BY <1>5, <3>3
  <2> QED
    BY <1>4, <2>1, <2>2, <2>3, <2>4
<1> QED
  BY <1>1, <1>6, <1>7 DEF StartsPlaced, Placed

LEMMA PlacedInvariant == HarnessSpec => []StartsPlaced
<1>1. HarnessInit => StartsPlaced
  BY StartPlaces DEF HarnessInit
<1>2. StartsPlaced /\ [HarnessTick]_harnessVars => StartsPlaced'
  <2> SUFFICES ASSUME StartsPlaced, [HarnessTick]_harnessVars PROVE StartsPlaced'
    OBVIOUS
  <2>1. conf' = conf /\ offsets' = offsets /\ (step' = step + 1 \/ step' = step)
    BY DEF HarnessTick, Tick, trackVars, harnessVars, fleetTrackVars
  <2> QED
    BY <2>1 DEF StartsPlaced, Placed, This, Car
<1> QED
  BY <1>1, <1>2, PTL DEF HarnessSpec

-----------------------------------------------------------------------------
(* The spacing of the starts *)

\* Apart over the seam as well as on the lap.
LEMMA ApartBetween ==
  ASSUME NEW i \in Int, NEW j \in Int, NEW n \in Nat, NEW m \in Nat,
         (j - i \in m .. n - m) \/ (i - j \in m .. n - m)
  PROVE  Magnitude(i - j) >= m /\ Apart(i, j, n) >= m
<1>1. Magnitude(i - j) = IF i < j THEN j - i ELSE i - j
  BY DEF Magnitude
<1>2. Apart(i, j, n) = LET d == IF i < j THEN j - i ELSE i - j
                       IN IF n - d < d THEN n - d ELSE d
  BY ApartIs
<1> QED
  BY <1>1, <1>2

\* Places on the lap with a spacing, over the seam too but for two in the zone.
KeepsApart(places, ring, n, target, cars, ms) ==
  \A u, v \in 1 .. cars : u # v =>
    /\ Magnitude(places[u] - places[v]) >= ms
    /\ Apart(places[u], places[v], n) < ms
         => ring[places[u]] = target /\ ring[places[v]] = target

\* A packed fleet with room to pack: pass 2 leaves no car over, as every free tick is next to
\* a car (RoomLeft), and cars closer than the spacing are two of the zone's.
LEMMA PackedApart ==
  ASSUME NEW ring, NEW n \in Nat \ {0}, n = Cardinality(DOMAIN ring), DOMAIN ring = 0 .. n - 1,
         NEW target, NEW cars \in Nat \ {0}, NEW ms \in Nat, (2 * cars) * ms <= n
  PROVE  KeepsApart(PackZoneOffsets(ring, target, cars, ms), ring, n, target, cars, ms)
<1> SUFFICES ASSUME NEW places, places = PackZoneOffsets(ring, target, cars, ms),
                    NEW u \in 1 .. cars, NEW v \in 1 .. cars, u # v
             PROVE  /\ Magnitude(places[u] - places[v]) >= ms
                    /\ Apart(places[u], places[v], n) < ms
                         => ring[places[u]] = target /\ ring[places[v]] = target
  BY DEF KeepsApart
<1> DEFINE spacing == Max({1, ms})
           inZone == PlaceInZone(ring, target, cars, spacing)
           filled == PlaceOutside(ring, target, cars, spacing, inZone)
           even == EvenSpread(cars, n)
<1>1. PICK w \in Nat : w = 2 * ms
  OBVIOUS
<1>2. w * cars <= n
  BY <1>1
<1>0. PICK p \in 0 .. n, q \in 0 .. n : p = places[u] /\ q = places[v]
  <2>1. places \in [1 .. cars -> 0 .. n - 1]
    BY PackedPlaced
  <2>2. places[u] \in 0 .. n /\ places[v] \in 0 .. n
    BY <2>1
  <2> QED
    BY <2>2
<1> HIDE DEF spacing, inZone, filled, even
<1>7. p \in Int /\ q \in Int /\ Apart(p, q, n) \in Int /\ Magnitude(p - q) \in Int
  <2>1. p \in Int /\ q \in Int /\ n \in Nat
    OBVIOUS
  <2> QED
    BY <2>1, ApartMeans
<1>3. CASE ms = 0
  <2>1. q - p \in 0 .. n - 0 \/ p - q \in 0 .. n - 0
    BY <1>7
  <2>2. PICK zero \in Nat : zero = 0
    OBVIOUS
  <2>3. q - p \in zero .. n - zero \/ p - q \in zero .. n - zero
    BY <2>1, <2>2
  <2>4. Magnitude(p - q) >= zero /\ Apart(p, q, n) >= zero
    BY <1>7, <2>3, ApartBetween
  <2>5. Magnitude(p - q) >= ms /\ ~(Apart(p, q, n) < ms)
    BY <1>3, <1>7, <2>2, <2>4
  <2> QED
    BY <1>0, <2>5
<1>4. CASE ms > 0 /\ \A i \in Lap(n) : ring[i] # target
  <2>1. places = even
    BY <1>4 DEF PackZoneOffsets, even
  <2>2. \A c, d \in 1 .. cars : c < d => even[d] - even[c] \in w .. n - w
    BY <1>2, EvenApart DEF even
  <2>3. u < v \/ v < u
    OBVIOUS
  <2>4. q - p \in w .. n - w \/ p - q \in w .. n - w
    BY <1>0, <2>1, <2>2, <2>3
  <2>5. Magnitude(p - q) >= w /\ Apart(p, q, n) >= w
    BY <1>7, <2>4, ApartBetween
  <2>6. Magnitude(p - q) >= ms /\ ~(Apart(p, q, n) < ms)
    BY <1>1, <1>7, <2>5
  <2> QED
    BY <1>0, <2>6
<1>5. CASE ms > 0 /\ ~\A i \in Lap(n) : ring[i] # target
  <2>1. spacing = ms /\ spacing \in Nat \ {0} /\ (2 * spacing) * cars <= n
    BY <1>1, <1>2, <1>5, MaxOfTwo DEF spacing
  <2>2. PICK since :
          ZoneFilled([placed |-> inZone, sinceZone |-> since], n, ring, target, cars, spacing)
    BY <2>1, InZonePlaces DEF inZone
  <2>3. RestFilled(filled, n, inZone, ring, target, cars, spacing)
    BY <2>1, <2>2, OutsidePlaces DEF filled
  <2>4. places = [c \in 1 .. cars |-> IF c <= Len(filled) THEN filled[c] ELSE even[c]]
    BY <1>5 DEF PackZoneOffsets, filled, inZone, spacing, even
  <2>5. /\ filled \in Seq(0 .. n - 1) /\ Len(inZone) <= Len(filled)
        /\ inZone \in Seq(0 .. n - 1)
        /\ \A j \in DOMAIN inZone : filled[j] = inZone[j]
        /\ \A j, l \in DOMAIN filled : j # l =>
             /\ Magnitude(filled[j] - filled[l]) >= spacing
             /\ Apart(filled[j], filled[l], n) < spacing
                  => ring[filled[j]] = target /\ ring[filled[l]] = target
    BY <2>2, <2>3 DEF RestFilled, ZoneFilled
  <2>6. Len(filled) >= cars
    <3> SUFFICES ASSUME Len(filled) < cars PROVE FALSE
      BY <2>5
    <3>1. ASSUME NEW i \in 0 .. n - 1
          PROVE  \E j \in DOMAIN filled : NextTo(i, filled[j], n, spacing)
      <4>1. CASE ring[i] = target
        <5>1. Len(inZone) < cars
          BY <2>5
        <5>2. PICK j \in DOMAIN inZone : i - inZone[j] \in 0 .. spacing
          BY <2>2, <4>1, <5>1 DEF ZoneFilled
        <5>3. j \in DOMAIN filled /\ filled[j] = inZone[j]
          <6>1. /\ filled \in Seq(0 .. n - 1) /\ inZone \in Seq(0 .. n - 1)
                /\ Len(inZone) <= Len(filled)
            BY <2>5
          <6>2. DOMAIN inZone \subseteq DOMAIN filled
            <7>1. Len(inZone) \in Nat /\ DOMAIN inZone = 1 .. Len(inZone)
              BY <6>1
            <7>2. Len(filled) \in Nat /\ DOMAIN filled = 1 .. Len(filled)
              BY <6>1
            <7> QED
              BY <6>1, <7>1, <7>2
          <6>3. \A l \in DOMAIN inZone : filled[l] = inZone[l]
            BY <2>5
          <6> QED
            BY <5>2, <6>2, <6>3
        <5>4. filled[j] \in 0 .. n - 1
          <6>1. filled \in Seq(0 .. n - 1)
            BY <2>5
          <6> QED
            BY <5>3, <6>1, SMTT(60)
        <5> QED
          BY <2>1, <5>2, <5>3, <5>4, NextToBehind
      <4>2. CASE ring[i] # target
        <5>1. PICK j \in DOMAIN filled : Apart(i, filled[j], n) < spacing
          BY <2>3, <4>2 DEF RestFilled
        <5>2. filled[j] \in 0 .. n - 1
          BY <2>5, SMTT(60)
        <5> QED
          BY <2>1, <5>1, <5>2, NextToNear
      <4> QED
        BY <4>1, <4>2
    <3> QED
      BY <2>1, <2>5, <3>1, RoomLeft
  <2>7. u \in DOMAIN filled /\ v \in DOMAIN filled /\ u <= Len(filled) /\ v <= Len(filled)
    <3>1. Len(filled) \in Nat /\ DOMAIN filled = 1 .. Len(filled)
      BY <2>5
    <3> QED
      BY <2>6, <3>1
  <2>8. places[u] = filled[u] /\ places[v] = filled[v]
    BY <2>4, <2>7
  <2> QED
    BY <2>1, <2>5, <2>7, <2>8
<1> QED
  BY <1>3, <1>4, <1>5

LEMMA StartsSpaced ==
  ASSUME Init
  PROVE  OffsetsSpaced
<1>1. /\ This \in FleetConfiguration /\ offsets \in Offsets(This, zones)
  BY FleetConfigAssumption DEF Init, This
<1>2. PICK cars \in Nat \ {0}, ms \in Nat, n \in Nat \ {0} :
        cars = This.cars /\ ms = This.minSpacing /\ n = This.lap
  BY <1>1 DEF FleetConfiguration
<1>3. DOMAIN zones = 0 .. n - 1 /\ Cardinality(DOMAIN zones) = n /\ Car = 1 .. cars
  BY <1>2, LapOfZones DEF Car
<1>4. ASSUME Drawn, cars * ms < n, NEW u \in Car, NEW v \in Car, u # v
      PROVE  Gap(u, v) >= ms
  <2>1. offsets \in DrawnOffsets(cars, n, ms)
    BY <1>1, <1>2, <1>3, <1>4 DEF Offsets, Drawn
  <2>2. CASE ms > 0
    <3>1. PICK pts \in [1 .. cars -> 0 .. n - cars * ms - 1] :
            /\ \A k \in 1 .. cars - 1 : pts[k] <= pts[k + 1]
            /\ offsets = [k \in 1 .. cars |-> pts[k] + (k - 1) * ms]
      BY <1>4, <2>1, <2>2 DEF DrawnOffsets
    <3>2. u \in 1 .. cars /\ v \in 1 .. cars /\ (u < v \/ v < u)
      BY <1>3, <1>4
    <3>3. offsets[u] \in Int /\ offsets[v] \in Int
      <4>1. \A k \in 1 .. cars : pts[k] \in Int
        BY cars * ms \in Int
      <4>2. ASSUME NEW k \in 1 .. cars PROVE offsets[k] \in Int
        <5>1. k - 1 \in Int /\ pts[k] \in Int
          BY <4>1
        <5>2. (k - 1) * ms \in Int
          BY <5>1
        <5>3. offsets[k] = pts[k] + (k - 1) * ms
          BY <3>1
        <5> QED
          BY <5>1, <5>2, <5>3
      <4> QED
        BY <3>2, <4>2
    <3>4. u < v => offsets[v] - offsets[u] \in ms .. n - ms
      BY <1>4, <3>1, <3>2, DrawApart
    <3>5. v < u => offsets[u] - offsets[v] \in ms .. n - ms
      BY <1>4, <3>1, <3>2, DrawApart
    <3> QED
      BY <1>2, <3>2, <3>3, <3>4, <3>5, ApartBetween DEF Gap
  <2>3. CASE ms = 0
    <3>1. offsets \in [1 .. cars -> Lap(n)]
      BY <2>1, <2>3 DEF DrawnOffsets
    <3>2. offsets[u] \in 0 .. n - 1 /\ offsets[v] \in 0 .. n - 1
      BY <1>3, <3>1 DEF Lap
    <3>3. PICK p \in Int, q \in Int : p = offsets[u] /\ q = offsets[v]
      BY <3>2
    <3>4. q - p \in ms .. n - ms \/ p - q \in ms .. n - ms
      BY <2>3, <3>2, <3>3
    <3>5. Apart(p, q, n) >= ms
      BY <3>4, ApartBetween
    <3> QED
      BY <1>2, <3>3, <3>5 DEF Gap
  <2> QED
    BY <2>2, <2>3
<1>5. ASSUME Packed, RoomToPack, NEW u \in Car, NEW v \in Car, u # v
      PROVE  /\ Magnitude(offsets[u] - offsets[v]) >= ms
             /\ Gap(u, v) < ms => StartsInZone(u) /\ StartsInZone(v)
  <2>1. offsets = PackZoneOffsets(zones, This.packZone, cars, ms)
    <3>1. This.packZone \in 0 .. 3
      BY <1>1, <1>5 DEF FleetConfiguration, Packed
    <3> QED
      BY <1>1, <1>2, <1>5, <3>1 DEF Offsets, Packed
  <2>2. (2 * cars) * ms <= n
    BY <1>2, <1>5 DEF RoomToPack
  <2>0. u \in 1 .. cars /\ v \in 1 .. cars /\ u # v /\ n = Cardinality(DOMAIN zones)
    BY <1>3, <1>5
  <2>3. /\ Magnitude(offsets[u] - offsets[v]) >= ms
        /\ Apart(offsets[u], offsets[v], n) < ms
             => zones[offsets[u]] = This.packZone /\ zones[offsets[v]] = This.packZone
    <3>1. PICK ring, target : ring = zones /\ target = This.packZone
      OBVIOUS
    <3>2. n = Cardinality(DOMAIN ring) /\ DOMAIN ring = 0 .. n - 1
      BY <1>3, <3>1
    <3>3. KeepsApart(PackZoneOffsets(ring, target, cars, ms), ring, n, target, cars, ms)
      BY <2>2, <3>2, PackedApart
    <3>4. KeepsApart(offsets, zones, n, This.packZone, cars, ms)
      BY <2>1, <3>1, <3>3
    <3> QED
      BY <2>0, <3>4 DEF KeepsApart
  <2> QED
    BY <1>2, <2>3 DEF Gap, StartsInZone
<1> QED
  BY <1>2, <1>4, <1>5 DEF OffsetsSpaced

\* Simulation::start and packZoneOffsets: every seeded draw with a spacing keeps it, over the
\* lap seam too; a packed fleet with room for twice the spacing per car keeps it on the lap,
\* and over the seam except between two zone cars.  For every lap, zone, fleet and spacing.
THEOREM SpacedStarts == HarnessSpec => []OffsetsSpaced
<1> DEFINE Inv == step \in Nat /\ OffsetsSpaced
<1>1. HarnessInit => Inv
  BY StartsSpaced DEF HarnessInit, Init
<1>2. Inv /\ [HarnessTick]_harnessVars => Inv'
  <2> SUFFICES ASSUME Inv, [HarnessTick]_harnessVars PROVE Inv'
    OBVIOUS
  <2>1. CASE HarnessTick
    <3>1. step' = step + 1
      BY <2>1 DEF HarnessTick, Tick
    <3>2. step' \in Nat /\ step' # 0
      BY <3>1
    <3> QED
      BY <3>2 DEF OffsetsSpaced
  <2>2. CASE UNCHANGED harnessVars
    BY <2>2 DEF harnessVars, fleetTrackVars, trackVars, OffsetsSpaced, Car, Gap, Drawn, Packed,
                RoomToPack, StartsInZone, This
  <2> QED
    BY <2>1, <2>2
<1> QED
  BY <1>1, <1>2, PTL DEF HarnessSpec

-----------------------------------------------------------------------------
(* The zone flag.  Places are counted on from the start of the lap, round    *)
(* after round.                                                              *)

InLaneChange(x) == Wrap(x, This.lap) \in LaneChange

\* No lane change is shorter than the flag's window.
LongManeuvers == \A i \in ArcStarts(LaneChange) : ArcFrom(i, LaneChange) >= This.flagTicks

LEMMA LapType ==
  ASSUME conf \in DOMAIN Config
  PROVE  This.lap \in Nat \ {0} /\ This.flagTicks \in Nat /\ This.cars \in Nat
<1>1. This \in FleetConfiguration
  BY FleetConfigAssumption DEF This
<1> QED
  BY <1>1 DEF FleetConfiguration

\* Places that differ by a step differ by a step on the lap.
LEMMA WrapStep ==
  ASSUME NEW n \in Nat \ {0}, NEW x \in Int, NEW d \in Int
  PROVE  Wrap(Wrap(x, n) + d, n) = Wrap(x + d, n) /\ Wrap(x, n) \in Lap(n)
<1>1. PICK q \in Int, r \in 0 .. n - 1 : x = n * q + r /\ x % n = r
  BY Division
<1>2. r + d \in Int
  OBVIOUS
<1>3. PICK p \in Int, s \in 0 .. n - 1 : r + d = n * p + s /\ (r + d) % n = s
  BY <1>2, Division
<1>4. PICK t \in Int : t = q + p
  OBVIOUS
<1>5. x + d = n * t + s
  <2>1. n * t = n * q + n * p
    BY <1>4
  <2> QED
    BY <1>1, <1>3, <2>1
<1>6. (n * t + s) % n = s
  OBVIOUS
<1> QED
  BY <1>1, <1>3, <1>5, <1>6 DEF Wrap, Lap

\* A lane change that begins at place m goes on for the window at least.
LEMMA ArcCovers ==
  ASSUME conf \in DOMAIN Config, LongManeuvers,
         NEW m \in Int, InLaneChange(m), ~InLaneChange(m - 1), NEW d \in 0 .. This.flagTicks - 1
  PROVE  InLaneChange(m + d)
<1>1. PICK n, F, i, K : /\ n = This.lap /\ F = This.flagTicks /\ i = Wrap(m, n)
                        /\ K = {k \in 1 .. n : Wrap(i + k, n) \notin LaneChange}
  OBVIOUS
<1>2. n \in Nat \ {0} /\ F \in Nat /\ d \in 0 .. F - 1
  BY <1>1, LapType
<1>3. i \in Lap(n) /\ i \in Int /\ \A x \in Int : Wrap(i + x, n) = Wrap(m + x, n)
  <2>1. ASSUME NEW x \in Int PROVE i \in Lap(n) /\ Wrap(i + x, n) = Wrap(m + x, n)
    BY <1>1, <1>2, WrapStep
  <2>2. 0 \in Int
    OBVIOUS
  <2>3. i \in Lap(n)
    BY <2>1, <2>2
  <2>4. i \in Int
    BY <1>2, <2>3 DEF Lap
  <2> QED
    BY <2>1, <2>3, <2>4
<1>4. i \in LaneChange /\ Wrap(i - 1, n) \notin LaneChange
  <2>1. i + (-1) = i - 1 /\ m + (-1) = m - 1
    BY <1>3
  <2>2. Wrap(i - 1, n) = Wrap(m - 1, n)
    BY <1>3, <2>1
  <2> QED
    BY <1>1, <2>2 DEF InLaneChange
<1>5. ArcFrom(i, LaneChange) >= F /\ ArcFrom(i, LaneChange) = Min(K)
  BY <1>1, <1>4 DEF LongManeuvers, ArcStarts, ArcFrom
<1>6. K \subseteq Nat /\ K \subseteq 1 .. n /\ K # {}
  <2>1. K \subseteq Nat /\ K \subseteq 1 .. n
    BY <1>1, <1>2
  <2>2. Wrap(i + (n - 1), n) \notin LaneChange
    <3>1. PICK q \in Int, r \in 0 .. n - 1 : m - 1 = n * q + r /\ (m - 1) % n = r
      BY <1>2, Division, m - 1 \in Int
    <3>2. PICK t \in Int : t = q + 1
      OBVIOUS
    <3>3. m + (n - 1) = n * t + r
      <4>1. n * t = n * q + n
        BY <1>2, <3>2
      <4> QED
        BY <1>2, <3>1, <4>1
    <3>4. (n * t + r) % n = r
      BY <1>2
    <3>5. Wrap(m + (n - 1), n) = Wrap(m - 1, n)
      BY <3>1, <3>3, <3>4 DEF Wrap
    <3>6. Wrap(m - 1, n) \notin LaneChange
      BY <1>1 DEF InLaneChange
    <3>7. PICK x \in Int : x = n - 1
      BY <1>2
    <3>8. Wrap(i + x, n) = Wrap(m + x, n)
      BY <1>3
    <3> QED
      BY <3>5, <3>6, <3>7, <3>8
  <2>3. CASE n >= 2
    <3>1. n - 1 \in 1 .. n
      BY <1>2, <2>3
    <3> QED
      BY <1>1, <2>1, <2>2, <3>1
  <2>4. CASE n = 1
    <3>1. i + (n - 1) = i + 0 /\ m + 0 = m
      BY <1>3, <2>4
    <3>2. Wrap(i + (n - 1), n) = Wrap(m, n)
      BY <1>3, <3>1
    <3> QED
      BY <1>1, <1>4, <2>2, <3>2
  <2> QED
    BY <1>2, <2>1, <2>3, <2>4
<1>7. Min(K) \in K /\ \A k \in K : Min(K) <= k
  <2>1. \E least \in K : \A k \in K : least <= k
    BY <1>6, LeastExists
  <2>2. Min(K) = CHOOSE x \in K : \A y \in K : x <= y
    BY DEF Min
  <2>3. (CHOOSE x \in K : \A y \in K : x <= y) \in K
    BY <2>1
  <2>4. \A z \in K : (CHOOSE x \in K : \A y \in K : x <= y) <= z
    BY <2>1
  <2> QED
    BY <2>2, <2>3, <2>4
<1>8. F <= n
  <2>1. PICK a \in 1 .. n : a = Min(K)
    BY <1>6, <1>7
  <2>2. F <= a
    BY <1>5, <2>1
  <2> QED
    BY <1>2, <2>1, <2>2
<1> SUFFICES ASSUME ~InLaneChange(m + d) PROVE FALSE
  OBVIOUS
<1>9. d # 0
  <2> SUFFICES ASSUME d = 0 PROVE FALSE
    OBVIOUS
  <2>1. m + d = m
    OBVIOUS
  <2> QED
    BY <2>1
<1>10. d \in 1 .. n /\ Wrap(i + d, n) \notin LaneChange
  <2>1. d \in 1 .. n
    BY <1>2, <1>8, <1>9
  <2>2. Wrap(i + d, n) = Wrap(m + d, n)
    BY <1>3, <2>1
  <2> QED
    BY <1>1, <2>1, <2>2 DEF InLaneChange
<1>11. d \in K
  BY <1>1, <1>10
<1>12. PICK a \in Nat : a = Min(K)
  BY <1>6, <1>7
<1>13. a <= d /\ a >= F /\ d < F
  BY <1>2, <1>5, <1>7, <1>11, <1>12
<1> QED
  BY <1>2, <1>12, <1>13

\* Where one window's length holds a lane change but for its first tick, its end is in it.
LEMMA WindowEnd ==
  ASSUME conf \in DOMAIN Config, LongManeuvers,
         NEW p \in Int, NEW k \in 1 .. This.flagTicks - 1,
         ~InLaneChange(p), InLaneChange(p + k)
  PROVE  InLaneChange(p + This.flagTicks)
<1>1. PICK F, Inside : F = This.flagTicks /\ Inside = {j \in 1 .. k : InLaneChange(p + j)}
  OBVIOUS
<1>2. F \in Nat /\ k \in 1 .. F - 1
  BY <1>1, LapType
<1>3. Inside \subseteq Nat /\ Inside # {}
  <2>1. k \in 1 .. k
    BY <1>2
  <2> QED
    BY <1>1, <1>2, <2>1
<1>4. PICK j \in Inside : \A i \in Inside : j <= i
  BY <1>3, LeastExists
<1>5. j \in 1 .. k /\ InLaneChange(p + j)
  BY <1>1, <1>4
<1>6. ~InLaneChange((p + j) - 1)
  <2>1. CASE j = 1
    <3>1. (p + j) - 1 = p
      BY <2>1
    <3> QED
      BY <3>1
  <2>2. CASE j # 1
    <3>1. PICK h \in 1 .. k : h = j - 1 /\ p + h = (p + j) - 1
      <4>1. j - 1 \in 1 .. k /\ p + (j - 1) = (p + j) - 1
        BY <1>2, <1>5, <2>2
      <4> QED
        BY <4>1
    <3>2. h \notin Inside
      BY <1>4, <1>5, <3>1
    <3> QED
      BY <1>1, <3>1, <3>2
  <2> QED
    BY <2>1, <2>2
<1>7. PICK m \in Int, d \in 0 .. F - 1 : m = p + j /\ d = F - j /\ m + d = p + F
  <2>1. p + j \in Int /\ F - j \in 0 .. F - 1 /\ (p + j) + (F - j) = p + F
    BY <1>2, <1>5
  <2> QED
    BY <2>1
<1>8. InLaneChange(m) /\ ~InLaneChange(m - 1)
  BY <1>5, <1>6, <1>7
<1>9. InLaneChange(m + d)
  BY <1>1, <1>8, ArcCovers
<1> QED
  BY <1>1, <1>7, <1>9

\* A place is flagged by the three-point test if and only if a lane change is within the window.
LEMMA ThreePoints ==
  ASSUME conf \in DOMAIN Config, LongManeuvers, NEW p \in Int
  PROVE  (\E a \in {0, -This.flagTicks, This.flagTicks} : InLaneChange(p + a))
           <=> \E k \in -This.flagTicks .. This.flagTicks : InLaneChange(p + k)
<1>1. PICK F : F = This.flagTicks
  OBVIOUS
<1>2. F \in Nat
  BY <1>1, LapType
<1>3. ASSUME NEW a \in {0, -F, F}, InLaneChange(p + a)
      PROVE  \E k \in -F .. F : InLaneChange(p + k)
  <2>1. a \in -F .. F
    BY <1>2, <1>3
  <2> QED
    BY <1>3, <2>1
<1>4. ASSUME NEW k \in -F .. F, InLaneChange(p + k)
      PROVE  \E a \in {0, -F, F} : InLaneChange(p + a)
  <2>1. CASE k \in {0, -F, F}
    BY <1>4, <2>1
  <2>2. CASE k \notin {0, -F, F} /\ k > 0
    <3> SUFFICES ASSUME ~InLaneChange(p + 0) PROVE InLaneChange(p + F)
      OBVIOUS
    <3>1. p + 0 = p
      OBVIOUS
    <3>2. ~InLaneChange(p)
      BY <3>1
    <3>3. k \in 1 .. This.flagTicks - 1
      BY <1>1, <1>2, <1>4, <2>2
    <3> QED
      BY <1>1, <1>4, <3>2, <3>3, WindowEnd
  <2>3. CASE k \notin {0, -F, F} /\ k < 0
    <3> SUFFICES ASSUME ~InLaneChange(p + (-F)) PROVE InLaneChange(p + 0)
      OBVIOUS
    <3>1. PICK b \in Int, d \in 1 .. F - 1 : b = p + (-F) /\ d = k + F /\ b + d = p + k
      <4>1. p + (-F) \in Int /\ k + F \in 1 .. F - 1 /\ (p + (-F)) + (k + F) = p + k
        BY <1>2, <1>4, <2>3
      <4> QED
        BY <4>1
    <3>2. ~InLaneChange(b) /\ InLaneChange(b + d)
      BY <1>4, <3>1
    <3>3. InLaneChange(b + F)
      BY <1>1, <3>1, <3>2, WindowEnd
    <3>4. b + F = p + 0
      BY <1>2, <3>1
    <3> QED
      BY <3>3, <3>4
  <2> QED
    BY <1>2, <1>4, <2>1, <2>2, <2>3
<1> QED
  BY <1>1, <1>3, <1>4

\* The two forms of the flag, in places.
LEMMA FlagInPlaces ==
  ASSUME conf \in DOMAIN Config, step \in Nat, Placed, NEW v \in Car,
         NEW p, p = step + offsets[v]
  PROVE  /\ p \in Int
         /\ ZoneFlagged(v)
              <=> \E a \in {0, -This.flagTicks, This.flagTicks} : InLaneChange(p + a)
         /\ Around(p, This.flagTicks) \cap LaneChange # {}
              <=> \E k \in -This.flagTicks .. This.flagTicks : InLaneChange(p + k)
<1>1. p \in Int
  BY DEF Placed
<1>2. This.lap \in Nat \ {0} /\ This.flagTicks \in Nat
  BY LapType
<1>3. ASSUME NEW a \in Int PROVE InLaneChange(p + a) <=> ZoneNear(v, a) = 3
  <2>1. Wrap(p + a, This.lap) \in Lap(This.lap)
    <3>1. PICK x \in Int : x = p + a
      BY <1>1
    <3>2. 0 \in Int
      OBVIOUS
    <3> QED
      BY <1>2, <3>1, <3>2, WrapStep
  <2>2. InLaneChange(p + a) <=> zones[Wrap(p + a, This.lap)] = 3
    BY <2>1 DEF InLaneChange, LaneChange
  <2> QED
    BY <2>2 DEF ZoneNear
<1>4. ZoneFlagged(v) <=> \E a \in {0, -This.flagTicks, This.flagTicks} : ZoneNear(v, a) = 3
  BY DEF ZoneFlagged, NearLaneChange
<1>5. {0, -This.flagTicks, This.flagTicks} \subseteq Int
  BY <1>2
<1>6. Around(p, This.flagTicks) \cap LaneChange # {}
        <=> \E k \in -This.flagTicks .. This.flagTicks : InLaneChange(p + k)
  BY DEF Around, InLaneChange
<1> QED
  BY <1>1, <1>3, <1>4, <1>5, <1>6

\* Simulation::buildViews tests the zone of a car at three points only: where it is, and a
\* window behind and ahead.  As long as no lane change is shorter than the window, a car is
\* flagged exactly when a tick of one is within the window, for every lap, window and tick.
THEOREM FlagTestExact == HarnessSpec => []FlagExact
<1>1. StartsPlaced => FlagExact
  <2> SUFFICES ASSUME StartsPlaced, LongManeuvers, NEW v \in Car
               PROVE  ZoneFlagged(v)
                        <=> Around(step + offsets[v], This.flagTicks) \cap LaneChange # {}
    BY DEF StartsPlaced, FlagExact, LongManeuvers
  <2>1. PICK p : p = step + offsets[v]
    OBVIOUS
  <2>2. conf \in DOMAIN Config /\ step \in Nat /\ Placed
    BY DEF StartsPlaced
  <2>3. /\ p \in Int
        /\ ZoneFlagged(v)
             <=> \E a \in {0, -This.flagTicks, This.flagTicks} : InLaneChange(p + a)
        /\ Around(p, This.flagTicks) \cap LaneChange # {}
             <=> \E k \in -This.flagTicks .. This.flagTicks : InLaneChange(p + k)
    BY <2>1, <2>2, FlagInPlaces
  <2>4. (\E a \in {0, -This.flagTicks, This.flagTicks} : InLaneChange(p + a))
          <=> \E k \in -This.flagTicks .. This.flagTicks : InLaneChange(p + k)
    BY <2>2, <2>3, ThreePoints
  <2> QED
    BY <2>1, <2>3, <2>4
<1> QED
  BY <1>1, PlacedInvariant, PTL

-----------------------------------------------------------------------------
(* The sliding window's extremes *)

\* What is in the window of width w that ends at right is in the queue, or beaten by a later
\* place of the queue; e falls along the queue.
QueueHolds(q, e, right, w) ==
  /\ q \in Seq(0 .. right) /\ Len(q) > 0
  /\ \A a \in 1 .. Len(q) : q[a] >= right - w
  /\ \A a, b \in 1 .. Len(q) : a < b => q[a] < q[b] /\ e[q[a]] >= e[q[b]]
  /\ \A i \in 0 .. right : i >= right - w => \E a \in 1 .. Len(q) : q[a] >= i /\ e[q[a]] >= e[i]

\* The queue before the first place is empty.
QueueBefore(q, e, right, w) ==
  IF right = 0 THEN q = <<>> ELSE QueueHolds(q, e, right - 1, w)

\* The places that the new one does not beat, and those that are not too old.
NotBeaten(q, e, right) == {i \in DOMAIN q : e[q[i]] > e[right]}
NotOld(q, first) == {i \in DOMAIN q : q[i] >= first}

\* One more place is pushed.
Pushed(q, e, right, w) ==
  LET p == Append(SubSeq(q, 1, Max({0} \cup NotBeaten(q, e, right))), right)
  IN SubSeq(p, Min({Len(p) + 1} \cup NotOld(p, right - w)), Len(p))

\* An item of a sequence.
LEMMA ItemOf ==
  ASSUME NEW S, NEW q \in Seq(S), NEW i \in DOMAIN q
  PROVE  q[i] \in S
OBVIOUS

\* A push keeps what the queue holds.
LEMMA QueuePushed ==
  ASSUME NEW n \in Nat, NEW e \in [0 .. n -> Int], NEW right \in 0 .. n, NEW w \in Nat,
         NEW q, QueueBefore(q, e, right, w)
  PROVE  QueueHolds(Pushed(q, e, right, w), e, right, w)
<1>1. PICK l \in Nat : l = Len(q) /\ q \in Seq(0 .. n) /\ DOMAIN q = 1 .. l
  <2>1. CASE right = 0
    BY <2>1 DEF QueueBefore
  <2>2. CASE right # 0
    <3>1. q \in Seq(0 .. right - 1)
      BY <2>2 DEF QueueBefore, QueueHolds
    <3>2. q \in Seq(0 .. n)
      BY <3>1
    <3> QED
      BY <3>2
  <2> QED
    BY <2>1, <2>2
<1>2. \A a \in 1 .. l : q[a] \in 0 .. n /\ q[a] < right /\ e[q[a]] \in Int
  <2>1. CASE right = 0
    BY <1>1, <2>1 DEF QueueBefore
  <2>2. CASE right # 0
    <3>1. q \in Seq(0 .. right - 1)
      BY <2>2 DEF QueueBefore, QueueHolds
    <3>2. ASSUME NEW a \in 1 .. l PROVE q[a] \in 0 .. right - 1
      BY <1>1, <3>1, ItemOf
    <3> QED
      BY <3>2
  <2> QED
    BY <2>1, <2>2
<1>3. \A a, b \in 1 .. l : a < b => q[a] < q[b] /\ e[q[a]] >= e[q[b]]
  BY <1>1 DEF QueueBefore, QueueHolds
<1>4. \A i \in 0 .. right - 1 : i >= right - w =>
        \E a \in 1 .. l : q[a] >= i /\ e[q[a]] >= e[i]
  <2> SUFFICES ASSUME NEW i \in 0 .. right - 1, i >= right - w
               PROVE  \E a \in 1 .. l : q[a] >= i /\ e[q[a]] >= e[i]
    OBVIOUS
  <2>1. right # 0 /\ i >= (right - 1) - w
    OBVIOUS
  <2> QED
    BY <1>1, <2>1 DEF QueueBefore, QueueHolds
<1>5. PICK m \in 0 .. l : /\ m = Max({0} \cup NotBeaten(q, e, right))
                          /\ m # 0 => e[q[m]] > e[right]
                          /\ \A a \in 1 .. l : e[q[a]] > e[right] => a <= m
  <2>1. PICK S : S = {0} \cup NotBeaten(q, e, right)
    OBVIOUS
  <2>2. S \subseteq 0 .. l /\ S # {}
    BY <1>1, <2>1 DEF NotBeaten
  <2>3. Max(S) \in S /\ \A y \in S : y <= Max(S)
    BY <2>2, MaxOfNats
  <2> QED
    BY <1>1, <2>1, <2>2, <2>3 DEF NotBeaten
<1>6. PICK p : p = Append(SubSeq(q, 1, m), right)
  OBVIOUS
<1>7. /\ p \in Seq(0 .. right) /\ Len(p) = m + 1 /\ DOMAIN p = 1 .. m + 1
      /\ p[m + 1] = right /\ \A a \in 1 .. m : p[a] = q[a]
  <2>1. PICK s : s = SubSeq(q, 1, m)
    OBVIOUS
  <2>2. Len(s) = m /\ s \in Seq(0 .. n) /\ \A a \in 1 .. m : s[a] = q[a]
    <3>1. SubSeq(q, 1, m) = [a \in 1 .. m |-> q[a]]
      BY <1>1
    <3>2. \A a \in 1 .. m : q[a] \in 0 .. n
      BY <1>2
    <3> QED
      BY <2>1, <3>1, <3>2
  <2>3. s \in Seq(0 .. right)
    <3>1. ASSUME NEW a \in 1 .. m PROVE s[a] \in 0 .. right
      <4>1. PICK x \in 0 .. n : x = q[a] /\ x < right
        BY <1>2
      <4>2. x \in 0 .. right
        BY <4>1
      <4> QED
        BY <2>2, <4>1, <4>2
    <3>2. s \in [1 .. m -> 0 .. right]
      BY <2>2, <3>1
    <3> QED
      BY <3>2
  <2> QED
    BY <1>6, <2>1, <2>2, <2>3
<1>8. \A a \in 1 .. m + 1 : p[a] \in 0 .. right
  BY <1>7
<1>9. ASSUME NEW a \in 1 .. m + 1, NEW b \in 1 .. m + 1, a < b
      PROVE  p[a] < p[b] /\ e[p[a]] >= e[p[b]]
  <2>1. a \in 1 .. m /\ a \in 1 .. l /\ p[a] = q[a]
    BY <1>7, <1>9
  <2>2. CASE b = m + 1
    <3>1. m \in 1 .. l /\ e[q[m]] > e[right]
      BY <1>5, <1>9, <2>2
    <3>2. e[q[a]] >= e[q[m]]
      <4>1. a = m \/ a < m
        BY <1>9, <2>2
      <4>2. a = m => e[q[a]] >= e[q[m]]
        BY <1>2, <3>1
      <4> QED
        BY <1>3, <2>1, <3>1, <4>1, <4>2
    <3>3. PICK x \in Int, y \in Int, z \in Int : x = e[q[a]] /\ y = e[q[m]] /\ z = e[right]
      BY <1>2, <2>1, <3>1
    <3>4. x >= z
      BY <3>1, <3>2, <3>3
    <3> QED
      BY <1>2, <1>7, <2>1, <2>2, <3>3, <3>4
  <2>3. CASE b # m + 1
    <3>1. b \in 1 .. m /\ b \in 1 .. l
      BY <1>9, <2>3
    <3> QED
      BY <1>3, <1>7, <1>9, <2>1, <3>1
  <2> QED
    BY <2>2, <2>3
<1>10. ASSUME NEW i \in 0 .. right, i >= right - w
      PROVE  \E a \in 1 .. m + 1 : p[a] >= i /\ e[p[a]] >= e[i]
  <2>1. e[right] \in Int /\ e[i] \in Int /\ m + 1 \in 1 .. m + 1
    <3>1. i \in 0 .. n /\ m + 1 \in 1 .. m + 1
      OBVIOUS
    <3> QED
      BY <3>1
  <2>2. CASE i = right
    <3>1. PICK y \in Int : y = e[i] /\ y >= y
      BY <2>1
    <3>2. p[m + 1] >= i /\ e[p[m + 1]] >= e[i]
      BY <1>7, <2>2, <3>1
    <3> QED
      BY <2>1, <3>2
  <2>3. CASE i # right
    <3>1. PICK a \in 1 .. l : q[a] >= i /\ e[q[a]] >= e[i]
      BY <1>4, <1>10, <2>3
    <3>2. CASE a <= m
      <4>1. a \in 1 .. m /\ a \in 1 .. m + 1
        BY <3>2
      <4> QED
        BY <1>7, <3>1, <4>1
    <3>3. CASE ~(a <= m)
      <4>1. PICK x \in Int, y \in Int, z \in Int : x = e[q[a]] /\ y = e[right] /\ z = e[i]
        BY <1>2, <2>1
      <4>2. ~(x > y) /\ x >= z
        BY <1>5, <3>1, <3>3, <4>1
      <4>3. y >= z /\ right >= i
        BY <4>2
      <4> QED
        BY <1>7, <2>1, <4>1, <4>3
    <3> QED
      BY <3>2, <3>3
  <2> QED
    BY <2>2, <2>3
<1>11. PICK f \in 1 .. m + 1 : /\ f = Min({Len(p) + 1} \cup NotOld(p, right - w))
                               /\ p[f] >= right - w
                               /\ \A a \in 1 .. m + 1 : p[a] >= right - w => f <= a
  <2>1. PICK S : S = {Len(p) + 1} \cup NotOld(p, right - w)
    OBVIOUS
  <2>2. S \subseteq Nat /\ m + 1 \in S /\ m + 1 \in 1 .. m + 1
    <3>1. right >= right - w
      OBVIOUS
    <3> QED
      BY <1>7, <2>1, <3>1 DEF NotOld
  <2>3. Min(S) \in S /\ \A y \in S : Min(S) <= y
    BY <2>2, MinOfNats
  <2>4. PICK f \in Nat : f = Min(S)
    BY <2>2, <2>3
  <2>5. f <= m + 1 /\ f \in S
    BY <2>2, <2>3, <2>4
  <2>6. f \in NotOld(p, right - w)
    BY <1>7, <2>1, <2>5
  <2> QED
    BY <1>7, <2>1, <2>3, <2>4, <2>6 DEF NotOld
<1>12. PICK r : r = SubSeq(p, f, m + 1)
  OBVIOUS
<1>13. /\ Pushed(q, e, right, w) = r
       /\ r \in Seq(0 .. right) /\ Len(r) = m + 2 - f
       /\ \A a \in 1 .. m + 2 - f : r[a] = p[f + a - 1] /\ f + a - 1 \in 1 .. m + 1
  <2>1. Pushed(q, e, right, w) = r
    BY <1>5, <1>6, <1>7, <1>11, <1>12 DEF Pushed
  <2>2. \A a \in f .. m + 1 : p[a] \in 0 .. right
    BY <1>8
  <2>3. /\ r \in Seq(0 .. right) /\ Len(r) = (m + 1) - f + 1
        /\ \A a \in 1 .. (m + 1) - f + 1 : r[a] = p[f + a - 1]
    BY <1>7, <1>12, <2>2
  <2>4. (m + 1) - f + 1 = m + 2 - f /\ \A a \in 1 .. m + 2 - f : f + a - 1 \in 1 .. m + 1
    OBVIOUS
  <2> QED
    BY <2>1, <2>3, <2>4
<1>14. \A a \in 1 .. m + 2 - f : r[a] >= right - w
  <2> SUFFICES ASSUME NEW a \in 1 .. m + 2 - f PROVE r[a] >= right - w
    OBVIOUS
  <2>1. f + a - 1 \in 1 .. m + 1 /\ r[a] = p[f + a - 1] /\ f + a - 1 >= f
    BY <1>13
  <2>2. PICK b \in 1 .. m + 1 : b = f + a - 1 /\ r[a] = p[b] /\ b >= f
    BY <2>1
  <2>3. p[b] \in 0 .. right /\ p[f] \in 0 .. right
    BY <1>8, <2>2
  <2>4. p[b] >= p[f]
    <3>1. b = f \/ f < b
      BY <2>2
    <3> QED
      BY <1>9, <2>3, <3>1
  <2>5. PICK x \in Int, y \in Int, z \in Int : x = p[b] /\ y = p[f] /\ z = right - w
    BY <2>3
  <2>6. x >= y /\ y >= z
    BY <1>11, <2>4, <2>5
  <2>7. x >= z
    BY <2>6
  <2> QED
    BY <2>2, <2>5, <2>7
<1>15. ASSUME NEW a \in 1 .. m + 2 - f, NEW b \in 1 .. m + 2 - f, a < b
       PROVE  r[a] < r[b] /\ e[r[a]] >= e[r[b]]
  <2>1. PICK c \in 1 .. m + 1, d \in 1 .. m + 1 : c = f + a - 1 /\ d = f + b - 1 /\ c < d
    BY <1>13, <1>15
  <2>2. r[a] = p[c] /\ r[b] = p[d]
    BY <1>13, <2>1
  <2> QED
    BY <1>9, <2>1, <2>2
<1>16. ASSUME NEW i \in 0 .. right, i >= right - w
       PROVE  \E a \in 1 .. m + 2 - f : r[a] >= i /\ e[r[a]] >= e[i]
  <2>1. PICK b \in 1 .. m + 1 : p[b] >= i /\ e[p[b]] >= e[i]
    BY <1>10, <1>16
  <2>2. p[b] >= right - w
    <3>1. p[b] \in Int
      BY <1>7
    <3> QED
      BY <1>16, <2>1, <3>1
  <2>3. PICK a \in 1 .. m + 2 - f : f + a - 1 = b
    <3>1. f <= b
      BY <1>11, <2>2
    <3>2. b - f + 1 \in 1 .. m + 2 - f /\ f + (b - f + 1) - 1 = b
      BY <3>1
    <3> QED
      BY <3>2
  <2> QED
    BY <1>13, <2>1, <2>3
<1>17. m + 2 - f > 0
  OBVIOUS
<1> QED
  BY <1>13, <1>14, <1>15, <1>16, <1>17 DEF QueueHolds

\* What is left of a queue of places at either end.
LEMMA PoppedType ==
  ASSUME NEW q \in Seq(Int), NEW K, K \subseteq DOMAIN q
  PROVE  /\ SubSeq(q, 1, Max({0} \cup K)) \in Seq(Int)
         /\ SubSeq(q, Min({Len(q) + 1} \cup K), Len(q)) \in Seq(Int)
<1>1. PICK l \in Nat : l = Len(q) /\ DOMAIN q = 1 .. l /\ \A i \in 1 .. l : q[i] \in Int
  OBVIOUS
<1>2. PICK m \in 0 .. l : m = Max({0} \cup K)
  <2>1. PICK S : S = {0} \cup K
    OBVIOUS
  <2>2. S \subseteq 0 .. l /\ S # {}
    BY <1>1, <2>1
  <2> QED
    BY <2>1, <2>2, MaxOfNats
<1>3. PICK f \in 1 .. l + 1 : f = Min({l + 1} \cup K)
  <2>1. PICK S : S = {l + 1} \cup K
    OBVIOUS
  <2>2. S \subseteq 1 .. l + 1 /\ S \subseteq Nat /\ S # {}
    BY <1>1, <2>1
  <2> QED
    BY <2>1, <2>2, MinOfNats
<1>4. SubSeq(q, 1, m) \in Seq(Int)
  BY <1>1
<1>5. SubSeq(q, f, l) \in Seq(Int)
  BY <1>1
<1> QED
  BY <1>1, <1>2, <1>3, <1>4, <1>5

\* A push as the code words it: K are the places of the queue that stay.
Staying(K, q, e, right) ==
  K = {i \in DOMAIN q : e[q[i]] > e[right]}

Popped(q, K, right, w) ==
  LET p == Append(SubSeq(q, 1, Max({0} \cup K)), right)
  IN SubSeq(p, Min({Len(p) + 1} \cup {i \in DOMAIN p : ~(p[i] < right - w)}), Len(p))

\* What a push leaves is a queue of places.
LEMMA PoppedIsQueue ==
  ASSUME NEW q \in Seq(Int), NEW K, K \subseteq DOMAIN q, NEW right \in Int, NEW w
  PROVE  Popped(q, K, right, w) \in Seq(Int)
<1>1. PICK a, s : s = SubSeq(q, 1, Max({0} \cup K)) /\ a = Append(s, right)
  OBVIOUS
<1>2. s \in Seq(Int)
  BY <1>1, PoppedType
<1>3. Append(s, right) \in Seq(Int)
  BY <1>2
<1>4. PICK L : L = {i \in DOMAIN a : ~(a[i] < right - w)} /\ L \subseteq DOMAIN a
  OBVIOUS
<1>5. SubSeq(a, Min({Len(a) + 1} \cup L), Len(a)) \in Seq(Int)
  BY <1>1, <1>3, <1>4, PoppedType
<1> QED
  BY <1>1, <1>4, <1>5 DEF Popped

\* The places that are popped are those that are beaten, and those that are too old.
LEMMA PopsPush ==
  ASSUME NEW n \in Nat, NEW e, NEW right \in 0 .. n, NEW w \in Nat, NEW q \in Seq(0 .. n),
         NEW K, Staying(K, q, e, right)
  PROVE  Pushed(q, e, right, w) = Popped(q, K, right, w)
<1>1. K = NotBeaten(q, e, right)
  BY DEF NotBeaten, Staying
<1>2. PICK p : p = Append(SubSeq(q, 1, Max({0} \cup K)), right)
  OBVIOUS
<1>3. \A i \in DOMAIN p : p[i] \in Int
  <2>1. K \subseteq DOMAIN q
    BY DEF Staying
  <2>2. PICK s : s = SubSeq(q, 1, Max({0} \cup K))
    OBVIOUS
  <2>3. q \in Seq(Int) /\ right \in Int
    OBVIOUS
  <2>4. s \in Seq(Int)
    BY <2>1, <2>2, <2>3, PoppedType
  <2>5. Append(s, right) \in Seq(Int)
    BY <2>3, <2>4
  <2>6. p \in Seq(Int)
    BY <1>2, <2>2, <2>5
  <2> QED
    BY <2>6, ItemOf
<1>4. NotOld(p, right - w) = {i \in DOMAIN p : ~(p[i] < right - w)}
  <2>1. \A i \in DOMAIN p : p[i] >= right - w <=> ~(p[i] < right - w)
    BY <1>3
  <2> QED
    BY <2>1 DEF NotOld
<1> QED
  BY <1>1, <1>2, <1>4 DEF Pushed, Popped

\* The curvatures of the lap that is extended by half a window at both ends, and their
\* negations.
ExtendedLap(t, half, ext, high, low) ==
  /\ ext = [i \in Int |-> t.ff0[Wrap(i - half, t.lap)]]
  /\ ext \in [Int -> Int]
  /\ high = [i \in 0 .. t.lap + 2 * half - 1 |-> ext[i]]
  /\ low = [i \in 0 .. t.lap + 2 * half - 1 |-> -ext[i]]

\* The two queues hold the greatest and the least of the window.
LEMMA DeltaOfQueues ==
  ASSUME NEW t, NEW p, NEW n \in Nat \ {0}, n = t.lap, NEW half \in Nat, half = Capped(p.half, n),
         NEW ext, NEW high, NEW low, ExtendedLap(t, half, ext, high, low),
         NEW center \in Lap(n)
  PROVE  \E a, b : /\ CurvatureDelta(t, p)[center] = ext[Head(a)] - ext[Head(b)]
                   /\ QueueHolds(a, high, center + 2 * half, 2 * half)
                   /\ QueueHolds(b, low, center + 2 * half, 2 * half)
<1> DEFINE H == Capped(p.half, t.lap)
           E(i) == t.ff0[Wrap(i - H, t.lap)]
           NewerIn(q, right) == PopFront(q, LAMBDA i : i < right - 2 * H)
           Both(before, right) ==
             [hi |-> NewerIn(Append(PopBack(before.hi, LAMBDA i : E(i) <= E(right)), right), right),
              lo |-> NewerIn(Append(PopBack(before.lo, LAMBDA i : E(i) >= E(right)), right), right)]
           None == [hi |-> <<>>, lo |-> <<>>]
           Queues(q) == [right \in 0 .. t.lap + 2 * H - 1 |->
                           Both(IF right = 0 THEN None ELSE q[right - 1], right)]
           g == CHOOSE q : q = Queues(q)
<1>1. CurvatureDelta(t, p)
        = [c \in Lap(t.lap) |-> E(Head(g[c + 2 * H].hi)) - E(Head(g[c + 2 * H].lo))]
  BY Zenon DEF CurvatureDelta
<1>2. H = half /\ t.lap = n /\ \A i \in Int : E(i) = ext[i] /\ E(i) \in Int
  <2>1. ext = [i \in Int |-> t.ff0[Wrap(i - half, n)]] /\ ext \in [Int -> Int]
    BY DEF ExtendedLap
  <2> QED
    BY <2>1
<1> DEFINE N == n + 2 * half - 1
           T == [hi : Seq(Int), lo : Seq(Int)]
           w == 2 * H
           Above(q, right) == {i \in DOMAIN q : ~(E(q[i]) <= E(right))}
           Below(q, right) == {i \in DOMAIN q : ~(E(q[i]) >= E(right))}
<1>3. N \in Nat /\ w \in Nat /\ None \in T /\ w = 2 * half /\ N = n + w - 1
  <2>1. N \in Nat /\ w \in Nat /\ w = 2 * half /\ N = n + w - 1
    BY <1>2
  <2>2. None \in T
    OBVIOUS
  <2> HIDE DEF N, T, w, None
  <2> QED
    BY <2>1, <2>2
<1>4. \A before, right :
        Both(before, right) =
          [hi |-> Popped(before.hi, Above(before.hi, right), right, w),
           lo |-> Popped(before.lo, Below(before.lo, right), right, w)]
  BY ZenonT(60) DEF PopBack, PopFront, Popped
<1> HIDE DEF E, Both
<1>5. ASSUME NEW before \in T, NEW right \in Int PROVE Both(before, right) \in T
  <2>1. before.hi \in Seq(Int) /\ before.lo \in Seq(Int)
    OBVIOUS
  <2>2. /\ Above(before.hi, right) \subseteq DOMAIN before.hi
        /\ Below(before.lo, right) \subseteq DOMAIN before.lo
    OBVIOUS
  <2> HIDE DEF Above, Below, w
  <2>3. Popped(before.hi, Above(before.hi, right), right, w) \in Seq(Int)
    BY <1>5, <2>1, <2>2, PoppedIsQueue
  <2>4. Popped(before.lo, Below(before.lo, right), right, w) \in Seq(Int)
    BY <1>5, <2>1, <2>2, PoppedIsQueue
  <2> QED
    BY <1>4, <2>3, <2>4
<1>6. g = Queues(g)
  <2>1. PICK F : F = [k \in Nat |-> [y \in T |-> Both(y, k)]]
    OBVIOUS
  <2>2. StaysIn(F, T)
    <3> SUFFICES ASSUME NEW k \in Nat, NEW x \in T PROVE F[k][x] \in T
      BY DEF StaysIn
    <3>1. F[k][x] = Both(x, k)
      BY <2>1
    <3>2. k \in Int
      OBVIOUS
    <3> QED
      BY <1>5, <3>1, <3>2
  <2>3. PICK base : base = Both(None, 0)
    OBVIOUS
  <2>4. base \in T
    BY <1>3, <1>5, <2>3, 0 \in Int
  <2> HIDE DEF T, N, None
  <2>5. PICK s : StepsOf(s, T, base, F, N)
    BY <1>3, <2>2, <2>4, RecursionDefines
  <2>6. s \in [0 .. N -> T] /\ s[0] = base /\ \A k \in 1 .. N : s[k] = F[k][s[k - 1]]
    BY <2>5 DEF StepsOf
  <2>7. ASSUME NEW k \in 0 .. N PROVE s[k] = Both(IF k = 0 THEN None ELSE s[k - 1], k)
    <3>1. CASE k = 0
      BY <2>3, <2>6, <3>1
    <3>2. CASE k # 0
      <4>1. k \in 1 .. N /\ k - 1 \in 0 .. N /\ k \in Nat
        BY <1>3, <3>2
      <4>2. s[k - 1] \in T /\ s[k] = F[k][s[k - 1]]
        BY <2>6, <4>1
      <4>3. s[k] = Both(s[k - 1], k)
        BY <2>1, <4>1, <4>2
      <4> QED
        BY <3>2, <4>3
    <3> QED
      BY <3>1, <3>2
  <2>8. s = Queues(s)
    <3>1. s = [k \in 0 .. N |-> s[k]]
      BY <2>6
    <3>2. 0 .. N = 0 .. t.lap + 2 * H - 1
      BY <1>2 DEF N
    <3> HIDE DEF H
    <3> QED
      BY <2>7, <3>1, <3>2
  <2> HIDE DEF Queues
  <2> QED
    BY <2>8
<1> HIDE DEF g
<1>7. \A k \in 0 .. N : g[k] = Both(IF k = 0 THEN None ELSE g[k - 1], k)
  <2>1. 0 .. N = 0 .. t.lap + 2 * H - 1
    BY <1>2 DEF N
  <2> HIDE DEF N, H
  <2> QED
    BY <1>6, <2>1
<1>8. /\ high \in [0 .. N -> Int] /\ low \in [0 .. N -> Int]
      /\ \A i \in 0 .. N : high[i] = E(i) /\ low[i] = -E(i) /\ E(i) \in Int
  <2>1. high = [i \in 0 .. N |-> ext[i]] /\ low = [i \in 0 .. N |-> -ext[i]]
    BY DEF ExtendedLap
  <2> HIDE DEF N
  <2>2. ASSUME NEW i \in 0 .. N
        PROVE  ext[i] \in Int /\ -ext[i] \in Int /\ E(i) = ext[i]
    <3>1. i \in Int
      BY <1>3
    <3>2. E(i) = ext[i]
      BY <1>2, <3>1
    <3>3. ext[i] \in Int
      BY <1>2, <3>1, <3>2
    <3> QED
      BY <3>2, <3>3
  <2>3. high \in [0 .. N -> Int] /\ low \in [0 .. N -> Int]
    BY <2>1, <2>2
  <2>4. ASSUME NEW i \in 0 .. N PROVE high[i] = E(i) /\ low[i] = -E(i) /\ E(i) \in Int
    <3>1. high[i] = ext[i] /\ low[i] = -ext[i]
      BY <2>1
    <3> QED
      BY <2>2, <3>1
  <2> QED
    BY <2>3, <2>4
<1>9. ASSUME NEW before, NEW right \in 0 .. N,
             QueueBefore(before.hi, high, right, w), QueueBefore(before.lo, low, right, w)
      PROVE  /\ QueueHolds(Both(before, right).hi, high, right, w)
             /\ QueueHolds(Both(before, right).lo, low, right, w)
  <2>1. PICK q, r : q = before.hi /\ r = before.lo
    OBVIOUS
  <2>2. q \in Seq(0 .. N) /\ r \in Seq(0 .. N)
    <3>1. ASSUME NEW a, NEW e, QueueBefore(a, e, right, w) PROVE a \in Seq(0 .. N)
      <4> HIDE DEF N, w
      <4>1. CASE right = 0
        BY <3>1, <4>1 DEF QueueBefore
      <4>2. CASE right # 0
        <5>1. a \in Seq(0 .. right - 1)
          BY <3>1, <4>2 DEF QueueBefore, QueueHolds
        <5>2. right - 1 <= N
          BY <1>3
        <5> QED
          BY <1>3, <5>1, <5>2
      <4> QED
        BY <4>1, <4>2
    <3> QED
      BY <1>9, <2>1, <3>1
  <2>3. PICK K \in SUBSET DOMAIN q, L \in SUBSET DOMAIN r :
          /\ K = Above(q, right) /\ K = {i \in DOMAIN q : ~(E(q[i]) <= E(right))}
          /\ L = Below(r, right) /\ L = {i \in DOMAIN r : ~(E(r[i]) >= E(right))}
    OBVIOUS
  <2> HIDE DEF Above, Below
  <2>4. PICK c, d : c = Popped(q, K, right, w) /\ d = Popped(r, L, right, w)
    OBVIOUS
  <2>5. Both(before, right) = [hi |-> c, lo |-> d]
    <3> HIDE DEF w
    <3> QED
      BY <1>4, <2>1, <2>3, <2>4
  <2> HIDE DEF N, w
  <2>6. Staying(K, q, high, right)
    <3> SUFFICES ASSUME NEW i \in DOMAIN q PROVE i \in K <=> high[q[i]] > high[right]
      BY DEF Staying
    <3>1. PICK x \in 0 .. N : x = q[i]
      <4>1. q[i] \in 0 .. N
        BY <2>2, ItemOf
      <4> QED
        BY <4>1
    <3>2. high[x] = E(x) /\ high[right] = E(right) /\ E(x) \in Int /\ E(right) \in Int
      BY <1>8, <1>9
    <3>3. PICK y \in Int, z \in Int : y = E(x) /\ z = E(right)
      BY <3>2
    <3>4. i \in K <=> ~(y <= z)
      BY <2>3, <3>1, <3>3
    <3>5. ~(y <= z) <=> high[x] > high[right]
      BY <3>2, <3>3
    <3> QED
      BY <3>1, <3>4, <3>5
  <2>7. Staying(L, r, low, right)
    <3> SUFFICES ASSUME NEW i \in DOMAIN r PROVE i \in L <=> low[r[i]] > low[right]
      BY DEF Staying
    <3>1. PICK x \in 0 .. N : x = r[i]
      <4>1. r[i] \in 0 .. N
        BY <2>2, ItemOf
      <4> QED
        BY <4>1
    <3>2. low[x] = -E(x) /\ low[right] = -E(right) /\ E(x) \in Int /\ E(right) \in Int
      BY <1>8, <1>9
    <3>3. PICK y \in Int, z \in Int : y = E(x) /\ z = E(right)
      BY <3>2
    <3>4. i \in L <=> ~(y >= z)
      BY <2>3, <3>1, <3>3
    <3>5. ~(y >= z) <=> low[x] > low[right]
      BY <3>2, <3>3
    <3> QED
      BY <3>1, <3>4, <3>5
  <2>8. PICK m \in Nat : m = N
    BY <1>3
  <2>9. /\ right \in 0 .. m /\ q \in Seq(0 .. m) /\ r \in Seq(0 .. m) /\ w \in Nat
        /\ high \in [0 .. m -> Int] /\ low \in [0 .. m -> Int]
    BY <1>3, <1>8, <1>9, <2>2, <2>8
  <2>10. c = Pushed(q, high, right, w)
    BY <2>4, <2>6, <2>9, PopsPush
  <2>11. d = Pushed(r, low, right, w)
    BY <2>4, <2>7, <2>9, PopsPush
  <2>12. QueueHolds(c, high, right, w)
    BY <1>3, <1>8, <1>9, <2>1, <2>10, QueuePushed
  <2>13. QueueHolds(d, low, right, w)
    BY <1>3, <1>8, <1>9, <2>1, <2>11, QueuePushed
  <2> QED
    BY <2>5, <2>12, <2>13
<1> DEFINE G == {k \in Nat : k \in 0 .. N => /\ QueueHolds(g[k].hi, high, k, w)
                                            /\ QueueHolds(g[k].lo, low, k, w)}
<1> HIDE DEF N, w
<1>10. 0 \in G
  <2>1. 0 \in 0 .. N /\ g[0] = Both(None, 0)
    <3> HIDE DEF None
    <3>1. 0 \in 0 .. N
      BY <1>3
    <3> QED
      BY <1>7, <3>1
  <2>2. QueueBefore(None.hi, high, 0, w) /\ QueueBefore(None.lo, low, 0, w)
    BY DEF QueueBefore
  <2> HIDE DEF None
  <2>3. QueueHolds(g[0].hi, high, 0, w) /\ QueueHolds(g[0].lo, low, 0, w)
    BY <1>9, <2>1, <2>2
  <2> QED
    BY <2>3
<1>11. ASSUME NEW k \in Nat, k \in G PROVE k + 1 \in G
  <2> SUFFICES ASSUME k + 1 \in 0 .. N
               PROVE  /\ QueueHolds(g[k + 1].hi, high, k + 1, w)
                      /\ QueueHolds(g[k + 1].lo, low, k + 1, w)
    OBVIOUS
  <2>1. k \in 0 .. N /\ k + 1 # 0 /\ (k + 1) - 1 = k
    <3>1. PICK m \in Nat : m = N
      BY <1>3
    <3>2. k + 1 \in 0 .. m
      BY <3>1
    <3> QED
      BY <3>1, <3>2
  <2>2. g[k + 1] = Both(g[k], k + 1)
    BY <1>7, <2>1
  <2>3. QueueHolds(g[k].hi, high, k, w) /\ QueueHolds(g[k].lo, low, k, w)
    BY <1>11, <2>1
  <2>4. QueueBefore(g[k].hi, high, k + 1, w) /\ QueueBefore(g[k].lo, low, k + 1, w)
    BY <2>1, <2>3 DEF QueueBefore
  <2> QED
    BY <1>9, <2>2, <2>4
<1> HIDE DEF G
<1>12. \A k \in Nat : k \in G
  BY <1>10, <1>11, StepByStep
<1>13. PICK c \in 0 .. N : c = center + 2 * half
  <2>1. center \in 0 .. n - 1
    BY DEF Lap
  <2>2. PICK m \in Nat, x \in Nat : m = N /\ x = w /\ x = 2 * half /\ m = n + x - 1
    BY <1>3
  <2>3. center + 2 * half \in 0 .. m
    BY <2>1, <2>2
  <2> QED
    BY <2>2, <2>3
<1>14. QueueHolds(g[c].hi, high, c, w) /\ QueueHolds(g[c].lo, low, c, w)
  <2>1. c \in Nat /\ c \in 0 .. N
    BY <1>3
  <2> QED
    BY <1>12, <2>1 DEF G
<1>15. CurvatureDelta(t, p)[center] = ext[Head(g[c].hi)] - ext[Head(g[c].lo)]
  <2>1. CurvatureDelta(t, p)[center] = E(Head(g[c].hi)) - E(Head(g[c].lo))
    BY <1>1, <1>2, <1>13
  <2>2. ASSUME NEW q, NEW e, QueueHolds(q, e, c, w) PROVE Head(q) \in Int
    BY <2>2 DEF QueueHolds
  <2>3. Head(g[c].hi) \in Int /\ Head(g[c].lo) \in Int
    BY <1>14, <2>2
  <2> QED
    BY <1>2, <2>1, <2>3
<1> QED
  BY <1>3, <1>13, <1>14, <1>15

\* The front of a queue is the greatest of its window.
LEMMA FrontIsGreatest ==
  ASSUME NEW n \in Nat, NEW e \in [0 .. n -> Int], NEW right \in 0 .. n, NEW w \in 0 .. right,
         NEW q, QueueHolds(q, e, right, w)
  PROVE  /\ Head(q) \in right - w .. right
         /\ \A i \in right - w .. right : e[i] <= e[Head(q)]
<1>1. PICK l \in Nat \ {0} : /\ l = Len(q) /\ q \in Seq(0 .. right) /\ DOMAIN q = 1 .. l
                             /\ Head(q) = q[1]
  BY DEF QueueHolds
<1>2. \A a \in 1 .. l : q[a] \in 0 .. n /\ q[a] \in right - w .. right /\ e[q[a]] \in Int
  <2> SUFFICES ASSUME NEW a \in 1 .. l
               PROVE  q[a] \in 0 .. n /\ q[a] \in right - w .. right /\ e[q[a]] \in Int
    OBVIOUS
  <2>1. q[a] \in 0 .. right
    BY <1>1, ItemOf
  <2>2. q[a] >= right - w
    BY <1>1 DEF QueueHolds
  <2>3. PICK x \in 0 .. right : x = q[a]
    BY <2>1
  <2>4. x \in 0 .. n /\ x \in right - w .. right
    BY <2>2, <2>3
  <2> QED
    BY <2>3, <2>4
<1>3. 1 \in 1 .. l
  BY <1>1
<1>4. Head(q) \in right - w .. right
  BY <1>1, <1>2, <1>3
<1>5. ASSUME NEW i \in right - w .. right PROVE e[i] <= e[Head(q)]
  <2>1. i \in 0 .. right /\ i >= right - w /\ i \in 0 .. n
    OBVIOUS
  <2>2. PICK a \in 1 .. l : q[a] >= i /\ e[q[a]] >= e[i]
    BY <1>1, <2>1 DEF QueueHolds
  <2>3. a # 1 => e[q[1]] >= e[q[a]]
    <3>1. a # 1 => 1 < a
      BY <1>1
    <3> QED
      BY <1>1, <1>3, <3>1 DEF QueueHolds
  <2>4. PICK x \in Int, y \in Int, z \in Int : x = e[i] /\ y = e[q[a]] /\ z = e[q[1]]
    BY <1>2, <1>3, <2>1
  <2>5. y >= x /\ (a # 1 => z >= y) /\ (a = 1 => z = y)
    BY <2>2, <2>3, <2>4
  <2>6. x <= z
    BY <2>5
  <2> QED
    BY <1>1, <2>4, <2>6
<1> QED
  BY <1>4, <1>5

\* The places around i on a lap of n.
RingAround(i, ticks, n) == {Wrap(i + k, n) : k \in -ticks .. ticks}
ValuesAt(f, s) == {f[i] : i \in s}

\* The sliding window of the code finds how much the curvature varies around a tick.
LEMMA DeltaIsVariation ==
  ASSUME NEW t, NEW p, NEW n \in Nat \ {0}, n = t.lap, t.ff0 \in [Lap(n) -> Int],
         NEW half \in Nat, half = Capped(p.half, n), NEW center \in Lap(n),
         NEW W, W = ValuesAt(t.ff0, RingAround(center, half, n))
  PROVE  CurvatureDelta(t, p)[center] = Max(W) - Min(W)
<1>1. PICK ext, high, low : ExtendedLap(t, half, ext, high, low)
  <2>1. [i \in Int |-> t.ff0[Wrap(i - half, t.lap)]] \in [Int -> Int]
    <3>1. ASSUME NEW i \in Int PROVE t.ff0[Wrap(i - half, t.lap)] \in Int
      <4>1. PICK x \in Int : x = i - half
        OBVIOUS
      <4>2. Wrap(x, n) \in Lap(n)
        BY WrapStep, 0 \in Int
      <4> QED
        BY <4>1, <4>2
    <3> QED
      BY <3>1
  <2> QED
    BY <2>1 DEF ExtendedLap
<1>2. PICK a, b : /\ CurvatureDelta(t, p)[center] = ext[Head(a)] - ext[Head(b)]
                  /\ QueueHolds(a, high, center + 2 * half, 2 * half)
                  /\ QueueHolds(b, low, center + 2 * half, 2 * half)
  BY <1>1, DeltaOfQueues
<1>3. PICK N \in Nat, w \in Nat, right \in Nat :
        /\ right \in 0 .. N /\ N = n + 2 * half - 1 /\ w = 2 * half
        /\ right = center + 2 * half /\ w \in 0 .. right
        /\ right - w = center
  <2>1. center \in 0 .. n - 1
    BY DEF Lap
  <2>2. /\ n + 2 * half - 1 \in Nat /\ center + 2 * half \in 0 .. n + 2 * half - 1
        /\ 2 * half \in 0 .. center + 2 * half /\ (center + 2 * half) - 2 * half = center
        /\ 2 * half \in Nat
    BY <2>1
  <2> QED
    BY <2>2
<1>4. /\ high \in [0 .. N -> Int] /\ low \in [0 .. N -> Int]
      /\ \A i \in 0 .. N : high[i] = ext[i] /\ low[i] = -ext[i] /\ ext[i] \in Int
  <2>1. /\ ext \in [Int -> Int] /\ high = [i \in 0 .. N |-> ext[i]]
        /\ low = [i \in 0 .. N |-> -ext[i]]
    BY <1>1, <1>3 DEF ExtendedLap
  <2>2. ASSUME NEW i \in 0 .. N PROVE ext[i] \in Int /\ -ext[i] \in Int
    <3>1. i \in Int
      OBVIOUS
    <3>2. PICK z \in Int : z = ext[i]
      BY <2>1, <3>1
    <3> QED
      BY <3>2
  <2> QED
    BY <2>1, <2>2
<1>5. \A i \in center .. right : i \in 0 .. N
  <2>1. center \in Nat
    BY DEF Lap
  <2> QED
    BY <1>3, <2>1
<1>6. \A i \in center .. right : ext[i] \in W
  <2> SUFFICES ASSUME NEW i \in center .. right PROVE ext[i] \in W
    OBVIOUS
  <2>1. center \in Nat /\ i \in Int
    BY <1>3 DEF Lap
  <2>2. ext[i] = t.ff0[Wrap(i - half, n)]
    BY <1>1, <2>1 DEF ExtendedLap
  <2>3. PICK k \in -half .. half : k = (i - half) - center /\ center + k = i - half
    <3>1. (i - half) - center \in -half .. half /\ center + ((i - half) - center) = i - half
      BY <1>3, <2>1
    <3> QED
      BY <3>1
  <2> QED
    BY <2>2, <2>3 DEF ValuesAt, RingAround
<1>7. \A x \in W : \E i \in center .. right : x = ext[i]
  <2> SUFFICES ASSUME NEW x \in W PROVE \E i \in center .. right : x = ext[i]
    OBVIOUS
  <2>1. PICK k \in -half .. half : x = t.ff0[Wrap(center + k, n)]
    BY DEF ValuesAt, RingAround
  <2>2. PICK i \in center .. right : i - half = center + k /\ i \in Int
    <3>1. center \in Nat
      BY DEF Lap
    <3>2. /\ center + k + half \in center .. right /\ (center + k + half) - half = center + k
          /\ center + k + half \in Int
      BY <1>3, <3>1
    <3> QED
      BY <3>2
  <2>3. ext[i] = t.ff0[Wrap(i - half, n)]
    BY <1>1, <2>2 DEF ExtendedLap
  <2> QED
    BY <2>1, <2>2, <2>3
<1>8. W \in SUBSET Int
  BY <1>4, <1>5, <1>7
<1>9. Max(W) = ext[Head(a)]
  <2>1. QueueHolds(a, high, right, w)
    BY <1>2, <1>3
  <2>2. /\ Head(a) \in right - w .. right
        /\ \A i \in right - w .. right : high[i] <= high[Head(a)]
    <3>1. right \in 0 .. N /\ w \in 0 .. right /\ high \in [0 .. N -> Int]
      BY <1>3, <1>4
    <3> QED
      BY <2>1, <3>1, FrontIsGreatest
  <2>3. Head(a) \in center .. right /\ \A i \in center .. right : high[i] <= high[Head(a)]
    BY <1>3, <2>2
  <2>4. \A x \in W : x <= ext[Head(a)]
    <3> SUFFICES ASSUME NEW i \in center .. right PROVE ext[i] <= ext[Head(a)]
      BY <1>7
    <3> QED
      BY <1>4, <1>5, <2>3
  <2> QED
    BY <1>6, <1>8, <2>3, <2>4, MaxIs
<1>10. Min(W) = ext[Head(b)]
  <2>1. QueueHolds(b, low, right, w)
    BY <1>2, <1>3
  <2>2. /\ Head(b) \in right - w .. right
        /\ \A i \in right - w .. right : low[i] <= low[Head(b)]
    <3>1. right \in 0 .. N /\ w \in 0 .. right /\ low \in [0 .. N -> Int]
      BY <1>3, <1>4
    <3> QED
      BY <2>1, <3>1, FrontIsGreatest
  <2>3. Head(b) \in center .. right /\ \A i \in center .. right : low[i] <= low[Head(b)]
    BY <1>3, <2>2
  <2>4. \A x \in W : ext[Head(b)] <= x
    <3> SUFFICES ASSUME NEW i \in center .. right PROVE ext[Head(b)] <= ext[i]
      BY <1>7
    <3>1. i \in 0 .. N /\ Head(b) \in 0 .. N /\ low[i] <= low[Head(b)]
      BY <1>5, <2>3
    <3>2. PICK x \in Int, y \in Int : x = ext[i] /\ y = ext[Head(b)] /\ -x <= -y
      BY <1>4, <3>1
    <3>3. y <= x
      BY <3>2
    <3> QED
      BY <3>2, <3>3
  <2> QED
    BY <1>6, <1>8, <2>3, <2>4, MinIs
<1> QED
  BY <1>2, <1>9, <1>10

-----------------------------------------------------------------------------
(* Places of the lap *)

\* Places within a lap of the lap.
LEMMA NearWrap ==
  ASSUME NEW n \in Nat \ {0}, NEW m \in Int
  PROVE  /\ m \in 0 .. n - 1 => Wrap(m, n) = m
         /\ m \in n .. 2 * n - 1 => Wrap(m, n) = m - n
         /\ m \in -n .. -1 => Wrap(m, n) = m + n
<1>1. ASSUME m \in 0 .. n - 1 PROVE Wrap(m, n) = m
  BY <1>1 DEF Wrap
<1>2. ASSUME m \in n .. 2 * n - 1 PROVE Wrap(m, n) = m - n
  <2>1. PICK r \in 0 .. n - 1 : r = m - n /\ m = n * 1 + r
    <3>1. m - n \in 0 .. n - 1 /\ m = n * 1 + (m - n)
      BY <1>2
    <3> QED
      BY <3>1
  <2>2. m % n = r
    BY <2>1, Remainder, 1 \in Int
  <2> QED
    BY <2>1, <2>2 DEF Wrap
<1>3. ASSUME m \in -n .. -1 PROVE Wrap(m, n) = m + n
  <2>1. PICK r \in 0 .. n - 1 : r = m + n /\ m = n * (-1) + r
    <3>1. m + n \in 0 .. n - 1 /\ m = n * (-1) + (m + n)
      BY <1>3
    <3> QED
      BY <3>1
  <2>2. m % n = r
    BY <2>1, Remainder, -1 \in Int
  <2> QED
    BY <2>1, <2>2 DEF Wrap
<1> QED
  BY <1>1, <1>2, <1>3

\* A whole turn changes nothing.
LEMMA WholeTurn ==
  ASSUME NEW n \in Nat \ {0}, NEW x \in Int
  PROVE  Wrap(x + (n - 1), n) = Wrap(x - 1, n)
<1>1. PICK q \in Int, r \in 0 .. n - 1 : x - 1 = n * q + r /\ (x - 1) % n = r
  BY Division, x - 1 \in Int
<1>2. PICK t \in Int : t = q + 1
  OBVIOUS
<1>3. PICK y \in Int : y = x + (n - 1) /\ y = n * t + r
  <2>1. n * t = n * q + n
    BY <1>2
  <2>2. x + (n - 1) \in Int /\ x + (n - 1) = n * t + r
    BY <1>1, <2>1
  <2> QED
    BY <2>2
<1>4. y % n = r
  BY <1>3, Remainder
<1> QED
  BY <1>1, <1>3, <1>4 DEF Wrap

\* Every place of the lap is ahead.
LEMMA AheadOf ==
  ASSUME NEW n \in Nat \ {0}, NEW i \in Lap(n), NEW x \in Lap(n)
  PROVE  \E k \in 1 .. n : Wrap(i + k, n) = x
<1>1. i \in 0 .. n - 1 /\ x \in 0 .. n - 1
  BY DEF Lap
<1>2. CASE i < x
  <2>1. x - i \in 1 .. n /\ i + (x - i) = x /\ x \in Int
    BY <1>1, <1>2
  <2>2. Wrap(x, n) = x
    BY <1>1, <2>1, NearWrap
  <2> QED
    BY <2>1, <2>2
<1>3. CASE x <= i
  <2>1. PICK m \in Int : /\ m = x + n /\ m \in n .. 2 * n - 1 /\ m - n = x /\ m - i \in 1 .. n
                         /\ i + (m - i) = m
    <3>1. /\ x + n \in Int /\ x + n \in n .. 2 * n - 1 /\ (x + n) - n = x
          /\ (x + n) - i \in 1 .. n /\ i + ((x + n) - i) = x + n
      BY <1>1, <1>3
    <3> QED
      BY <3>1
  <2>2. Wrap(m, n) = x
    BY <2>1, NearWrap
  <2> QED
    BY <2>1, <2>2
<1> QED
  BY <1>1, <1>2, <1>3

\* A cap is no more than half a lap.
LEMMA CappedType ==
  ASSUME NEW n \in Nat \ {0}, NEW ticks \in Nat
  PROVE  Capped(ticks, n) \in Nat /\ 2 * Capped(ticks, n) <= n
<1>1. PICK h \in Nat : h = n \div 2 /\ 2 * h <= n
  <2>1. n \div 2 \in Nat /\ 2 * (n \div 2) <= n
    OBVIOUS
  <2> QED
    BY <2>1
<1>2. PICK c : c = Capped(ticks, n) /\ c = Min({ticks, h})
  BY <1>1 DEF Capped
<1>3. {ticks, h} \subseteq Nat /\ {ticks, h} # {}
  OBVIOUS
<1>4. c \in {ticks, h} /\ c <= h
  BY <1>2, <1>3, MinOfNats
<1> QED
  BY <1>1, <1>2, <1>4

\* What is around a place has it around.
LEMMA RingSymmetric ==
  ASSUME NEW n \in Nat \ {0}, NEW i \in Lap(n), NEW j \in Lap(n), NEW pad \in Nat,
         j \in RingAround(i, pad, n)
  PROVE  i \in RingAround(j, pad, n)
<1>1. PICK k \in -pad .. pad : j = Wrap(i + k, n)
  BY DEF RingAround
<1>2. i \in 0 .. n - 1 /\ i \in Int
  BY DEF Lap
<1>3. PICK x \in Int, d \in -pad .. pad : x = i + k /\ d = -k /\ x + d = i
  <2>1. i + k \in Int /\ -k \in -pad .. pad /\ (i + k) + (-k) = i
    BY <1>2
  <2> QED
    BY <2>1
<1>4. Wrap(j + d, n) = Wrap(i, n)
  <2>1. d \in Int
    BY <1>3
  <2>2. Wrap(Wrap(x, n) + d, n) = Wrap(x + d, n)
    BY <2>1, WrapStep
  <2> QED
    BY <1>1, <1>3, <2>2
<1>5. Wrap(i, n) = i
  BY <1>2, NearWrap
<1> QED
  BY <1>3, <1>4, <1>5 DEF RingAround

\* addCircular adds the places around a tick.
LEMMA RangeIsRing ==
  ASSUME NEW n \in Nat \ {0}, NEW i \in Lap(n), NEW pad \in Nat, 2 * pad <= n
  PROVE  CircularRange(i - pad, i + pad, n) = RingAround(i, pad, n)
<1>1. i \in 0 .. n - 1
  BY DEF Lap
<1>2. PICK lo \in Int, hi \in Int : /\ lo = i - pad /\ hi = i + pad /\ hi - lo = 2 * pad
                                    /\ lo \in -n .. n - 1 /\ hi \in 0 .. 2 * n - 1
  <2>1. /\ i - pad \in Int /\ i + pad \in Int /\ (i + pad) - (i - pad) = 2 * pad
        /\ i - pad \in -n .. n - 1 /\ i + pad \in 0 .. 2 * n - 1
    BY <1>1
  <2> QED
    BY <2>1
<1>3. \A x : x \in RingAround(i, pad, n) <=> \E m \in lo .. hi : x = Wrap(m, n)
  <2>1. ASSUME NEW x, x \in RingAround(i, pad, n) PROVE \E m \in lo .. hi : x = Wrap(m, n)
    <3>1. PICK k \in -pad .. pad : x = Wrap(i + k, n)
      BY <2>1 DEF RingAround
    <3>2. i + k \in lo .. hi
      BY <1>1, <1>2
    <3> QED
      BY <3>1, <3>2
  <2>2. ASSUME NEW m \in lo .. hi PROVE Wrap(m, n) \in RingAround(i, pad, n)
    <3>1. m - i \in -pad .. pad /\ i + (m - i) = m
      BY <1>1, <1>2
    <3>2. PICK k \in -pad .. pad : i + k = m
      BY <3>1
    <3> QED
      BY <3>2 DEF RingAround
  <2> QED
    BY <2>1, <2>2
<1>4. PICK l \in 0 .. n - 1, r \in 0 .. n - 1 :
        /\ l = Wrap(lo, n) /\ r = Wrap(hi, n)
        /\ l = IF lo < 0 THEN lo + n ELSE lo
        /\ r = IF hi < n THEN hi ELSE hi - n
  <2>1. Wrap(lo, n) = IF lo < 0 THEN lo + n ELSE lo
    <3>1. CASE lo < 0
      <4>1. lo \in -n .. -1
        BY <1>2, <3>1
      <4> QED
        BY <3>1, <4>1, NearWrap
    <3>2. CASE ~(lo < 0)
      <4>1. lo \in 0 .. n - 1
        BY <1>2, <3>2
      <4> QED
        BY <3>2, <4>1, NearWrap
    <3> QED
      BY <3>1, <3>2
  <2>2. Wrap(hi, n) = IF hi < n THEN hi ELSE hi - n
    <3>1. CASE hi < n
      <4>1. hi \in 0 .. n - 1
        BY <1>2, <3>1
      <4> QED
        BY <3>1, <4>1, NearWrap
    <3>2. CASE ~(hi < n)
      <4>1. hi \in n .. 2 * n - 1
        BY <1>2, <3>2
      <4> QED
        BY <3>2, <4>1, NearWrap
    <3> QED
      BY <3>1, <3>2
  <2>3. (IF lo < 0 THEN lo + n ELSE lo) \in 0 .. n - 1
    BY <1>2
  <2>4. (IF hi < n THEN hi ELSE hi - n) \in 0 .. n - 1
    BY <1>2
  <2> QED
    BY <2>1, <2>2, <2>3, <2>4
<1>5. ASSUME NEW m \in lo .. hi
      PROVE  Wrap(m, n) = IF m < 0 THEN m + n ELSE IF m < n THEN m ELSE m - n
  <2>1. m \in Int
    OBVIOUS
  <2>2. CASE m < 0
    <3>1. m \in -n .. -1
      BY <1>2, <2>2
    <3> QED
      BY <2>1, <2>2, <3>1, NearWrap
  <2>3. CASE m >= 0 /\ m < n
    <3>1. m \in 0 .. n - 1 /\ ~(m < 0)
      BY <2>3
    <3> QED
      BY <2>1, <2>3, <3>1, NearWrap
  <2>4. CASE m >= n
    <3>1. m \in n .. 2 * n - 1 /\ ~(m < 0) /\ ~(m < n)
      BY <1>2, <2>4
    <3> QED
      BY <2>1, <3>1, NearWrap
  <2> QED
    BY <2>1, <2>2, <2>3, <2>4
<1>6. CircularRange(lo, hi, n)
        = IF 2 * pad + 1 >= n THEN 0 .. n - 1
          ELSE IF l <= r THEN l .. r ELSE (l .. n - 1) \cup (0 .. r)
  BY <1>2, <1>4 DEF CircularRange, Lap
<1>7. ASSUME NEW m \in lo .. hi PROVE Wrap(m, n) \in CircularRange(lo, hi, n)
  <2>1. PICK x \in Int : x = Wrap(m, n) /\ x = IF m < 0 THEN m + n ELSE IF m < n THEN m ELSE m - n
    <3>1. (IF m < 0 THEN m + n ELSE IF m < n THEN m ELSE m - n) \in Int
      OBVIOUS
    <3> QED
      BY <1>5, <3>1
  <2>2. CASE 2 * pad + 1 >= n
    <3>1. x \in 0 .. n - 1
      BY <1>2, <2>1
    <3> QED
      BY <1>6, <2>1, <2>2, <3>1
  <2>3. CASE ~(2 * pad + 1 >= n)
    <3>1. x \in IF l <= r THEN l .. r ELSE (l .. n - 1) \cup (0 .. r)
      <4>1. CASE lo < 0
        <5>1. ~(l <= r)
          BY <1>2, <1>4, <2>3, <4>1
        <5>2. x \in (l .. n - 1) \cup (0 .. r)
          BY <1>2, <1>4, <2>1, <2>3, <4>1
        <5> QED
          BY <5>1, <5>2
      <4>2. CASE lo >= 0 /\ hi >= n
        <5>1. ~(l <= r)
          BY <1>2, <1>4, <2>3, <4>2
        <5>2. x \in (l .. n - 1) \cup (0 .. r)
          BY <1>2, <1>4, <2>1, <2>3, <4>2
        <5> QED
          BY <5>1, <5>2
      <4>3. CASE lo >= 0 /\ hi < n
        <5>1. l <= r
          BY <1>2, <1>4, <4>3
        <5>2. x \in l .. r
          BY <1>2, <1>4, <2>1, <4>3
        <5> QED
          BY <5>1, <5>2
      <4> QED
        BY <1>2, <4>1, <4>2, <4>3
    <3> QED
      BY <1>6, <2>1, <2>3, <3>1
  <2> QED
    BY <2>2, <2>3
<1>8. ASSUME NEW x \in CircularRange(lo, hi, n) PROVE \E m \in lo .. hi : x = Wrap(m, n)
  <2>1. x \in 0 .. n - 1
    BY <1>4, <1>6, <1>8
  <2>2. \E m \in lo .. hi : x = IF m < 0 THEN m + n ELSE IF m < n THEN m ELSE m - n
    <3>1. x \in lo .. hi \/ x - n \in lo .. hi \/ x + n \in lo .. hi
      <4>1. CASE 2 * pad + 1 >= n
        BY <1>1, <1>2, <2>1, <4>1
      <4>2. CASE ~(2 * pad + 1 >= n)
        <5>1. x \in IF l <= r THEN l .. r ELSE (l .. n - 1) \cup (0 .. r)
          BY <1>6, <1>8, <4>2
        <5> QED
          BY <1>1, <1>2, <1>4, <2>1, <4>2, <5>1
      <4> QED
        BY <4>1, <4>2
    <3>2. /\ x = IF x < 0 THEN x + n ELSE IF x < n THEN x ELSE x - n
          /\ x = IF x - n < 0 THEN (x - n) + n ELSE IF x - n < n THEN x - n ELSE (x - n) - n
          /\ x = IF x + n < 0 THEN (x + n) + n ELSE IF x + n < n THEN x + n ELSE (x + n) - n
      BY <2>1
    <3> QED
      BY <3>1, <3>2
  <2> QED
    BY <1>5, <2>2
<1>9. CircularRange(lo, hi, n) = RingAround(i, pad, n)
  BY <1>3, <1>7, <1>8
<1> QED
  BY <1>2, <1>9

-----------------------------------------------------------------------------
(* Gaps between lane changes *)

GapLength(i, lane, n) == Min({k \in 1 .. n : Wrap(i + k, n) \in lane})

\* A gap of length len begins at i, after a tick of lane.
IsGap(i, len, lane, n) ==
  /\ i \in Lap(n) /\ len \in 1 .. n
  /\ Wrap(i + len, n) \in lane
  /\ \A k \in 0 .. len - 1 : Wrap(i + k, n) \notin lane

\* QuietFrom is the gap, and its cardinality the gap's length.
LEMMA GapMeasured ==
  ASSUME NEW n \in Nat \ {0}, NEW lane \in SUBSET Lap(n), lane # {},
         NEW i \in Lap(n), i \notin lane, NEW len, len = GapLength(i, lane, n)
  PROVE  /\ IsGap(i, len, lane, n)
         /\ QuietFrom(i, lane, n) = {Wrap(i + k, n) : k \in 0 .. len - 1}
         /\ Cardinality(QuietFrom(i, lane, n)) = len
<1>1. PICK K : K = {k \in 1 .. n : Wrap(i + k, n) \in lane}
  OBVIOUS
<1>2. K \subseteq Nat /\ K # {}
  <2>1. PICK x \in Lap(n) : x \in lane
    OBVIOUS
  <2>2. PICK k \in 1 .. n : Wrap(i + k, n) = x
    BY AheadOf
  <2> QED
    BY <1>1, <2>1, <2>2
<1>3. len \in K /\ \A k \in K : len <= k
  BY <1>1, <1>2, MinOfNats DEF GapLength
<1>4. len \in 1 .. n /\ Wrap(i + len, n) \in lane
  BY <1>1, <1>3
<1>5. i \in 0 .. n - 1
  BY DEF Lap
<1>6. ASSUME NEW k \in 0 .. len - 1 PROVE Wrap(i + k, n) \notin lane
  <2>1. CASE k = 0
    <3>1. i + k = i /\ i \in Int
      BY <1>5, <2>1
    <3>2. Wrap(i, n) = i
      BY <1>5, <3>1, NearWrap
    <3> QED
      BY <3>1, <3>2
  <2>2. CASE k # 0
    <3>1. k \in 1 .. n /\ ~(len <= k)
      BY <1>4, <2>2
    <3> QED
      BY <1>1, <1>3, <3>1
  <2> QED
    BY <2>1, <2>2
<1>7. QuietFrom(i, lane, n) = {Wrap(i + k, n) : k \in 0 .. len - 1}
  BY DEF QuietFrom, GapLength
<1>8. Cardinality(QuietFrom(i, lane, n)) = len
  <2>1. PICK T, f : /\ T = {Wrap(i + k, n) : k \in 0 .. len - 1}
                    /\ f = [k \in 0 .. len - 1 |-> Wrap(i + k, n)]
    OBVIOUS
  <2>2. ASSUME NEW a \in 0 .. len - 1, NEW b \in 0 .. len - 1, a < b PROVE f[a] # f[b]
    <3>1. PICK x \in Nat, y \in Nat : x = i + a /\ y = i + b /\ x < y /\ y - x < n
      <4>1. i + a \in Nat /\ i + b \in Nat /\ i + a < i + b /\ (i + b) - (i + a) < n
        BY <1>4, <1>5, <2>2
      <4> QED
        BY <4>1
    <3>2. x % n # y % n
      BY <3>1, PlacesApart
    <3> QED
      BY <2>1, <3>1, <3>2 DEF Wrap
  <2>3. \A a, b \in 0 .. len - 1 : f[a] = f[b] => a = b
    <3> SUFFICES ASSUME NEW a \in 0 .. len - 1, NEW b \in 0 .. len - 1, f[a] = f[b], a # b
                 PROVE  FALSE
      OBVIOUS
    <3>1. a < b \/ b < a
      BY <1>4
    <3> QED
      BY <2>2, <3>1
  <2>4. f \in [0 .. len - 1 -> T] /\ \A y \in T : \E k \in 0 .. len - 1 : f[k] = y
    BY <2>1
  <2>5. ExistsBijection(0 .. len - 1, T)
    <3>1. f \in Surjection(0 .. len - 1, T)
      BY <2>4 DEF Surjection
    <3>2. DOMAIN f = 0 .. len - 1
      BY <2>1
    <3>3. IsInjective(f)
      BY <2>3, <3>2 DEF IsInjective
    <3>4. f \in Injection(0 .. len - 1, T)
      BY <2>4, <3>3 DEF Injection
    <3> QED
      BY <3>1, <3>4 DEF ExistsBijection, Bijection
  <2>6. IsFiniteSet(0 .. len - 1) /\ Cardinality(0 .. len - 1) = len
    <3>1. PICK l \in Int : l = len - 1 /\ l >= 0 /\ (l - 0) + 1 = len
      <4>1. len - 1 \in Int /\ len - 1 >= 0 /\ ((len - 1) - 0) + 1 = len
        BY <1>4
      <4> QED
        BY <4>1
    <3>2. IsFiniteSet(0 .. l) /\ Cardinality(0 .. l) = IF 0 > l THEN 0 ELSE l - 0 + 1
      BY FS_Interval, 0 \in Int
    <3> QED
      BY <3>1, <3>2
  <2>7. Cardinality(T) = Cardinality(0 .. len - 1)
    BY <2>5, <2>6, FS_Bijection
  <2> QED
    BY <1>7, <2>1, <2>6, <2>7
<1> QED
  BY <1>4, <1>6, <1>7, <1>8 DEF IsGap

\* Further on from a place of a gap.
LEMMA FurtherOn ==
  ASSUME NEW n \in Nat \ {0}, NEW i \in Lap(n), NEW k \in Int, NEW d \in Int
  PROVE  /\ Wrap(Wrap(i + k, n) + d, n) = Wrap(i + (k + d), n)
         /\ Wrap(i + k, n) \in Lap(n)
<1>1. PICK x \in Int : x = i + k /\ x + d = i + (k + d)
  <2>1. i \in Int
    BY DEF Lap
  <2> QED
    BY <2>1
<1>2. Wrap(Wrap(x, n) + d, n) = Wrap(x + d, n) /\ Wrap(x, n) \in Lap(n)
  BY WrapStep
<1> QED
  BY <1>1, <1>2

\* Two gaps that begin after a tick of lane and have a tick in common begin at the same tick.
LEMMA GapsMeet ==
  ASSUME NEW n \in Nat \ {0}, NEW lane, NEW i, NEW j, NEW a, NEW b,
         IsGap(i, a, lane, n), IsGap(j, b, lane, n),
         Wrap(i - 1, n) \in lane, Wrap(j - 1, n) \in lane,
         NEW k \in 0 .. a - 1, NEW m \in 0 .. b - 1, Wrap(i + k, n) = Wrap(j + m, n)
  PROVE  i = j
<1>1. ASSUME NEW x, NEW y, NEW c, NEW d, IsGap(x, c, lane, n), IsGap(y, d, lane, n),
             Wrap(x - 1, n) \in lane,
             NEW u \in 0 .. c - 1, NEW v \in 0 .. d - 1, Wrap(x + u, n) = Wrap(y + v, n), u <= v
      PROVE  x = y
  <2>1. x \in 0 .. n - 1 /\ y \in 0 .. n - 1 /\ c \in 1 .. n /\ d \in 1 .. n
    BY <1>1 DEF IsGap, Lap
  <2>2. PICK e \in 0 .. d - 1, z \in Int : e = v - u /\ z = -u
    <3>1. v - u \in 0 .. d - 1 /\ -u \in Int
      BY <1>1, <2>1
    <3> QED
      BY <3>1
  <2>3. x = Wrap(y + e, n)
    <3>1. x \in Lap(n) /\ y \in Lap(n) /\ u \in Int /\ v \in Int /\ z \in Int
      BY <1>1, <2>2 DEF IsGap
    <3>2. Wrap(Wrap(x + u, n) + z, n) = Wrap(x + (u + z), n)
      BY <3>1, FurtherOn
    <3>3. Wrap(Wrap(y + v, n) + z, n) = Wrap(y + (v + z), n)
      BY <3>1, FurtherOn
    <3>4. x + (u + z) = x /\ v + z = e /\ x \in Int
      BY <2>1, <2>2
    <3>5. Wrap(x, n) = x
      BY <2>1, <3>4, NearWrap
    <3> QED
      BY <1>1, <3>2, <3>3, <3>4, <3>5
  <2>4. e = 0
    <3> SUFFICES ASSUME e # 0 PROVE FALSE
      OBVIOUS
    <3>1. PICK f \in 0 .. d - 1 : f = e + (-1)
      <4>1. e + (-1) \in 0 .. d - 1
        BY <2>1, <2>2
      <4> QED
        BY <4>1
    <3>2. Wrap(Wrap(y + e, n) + (-1), n) = Wrap(y + f, n)
      <4>1. y \in Lap(n) /\ e \in Int
        BY <1>1, <2>2 DEF IsGap
      <4> QED
        BY <3>1, <4>1, FurtherOn, -1 \in Int
    <3>3. Wrap(x - 1, n) = Wrap(y + f, n)
      <4>1. x + (-1) = x - 1
        BY <2>1
      <4> QED
        BY <2>3, <3>2, <4>1
    <3> QED
      BY <1>1, <3>1, <3>3 DEF IsGap
  <2> QED
    <3>1. y + e = y /\ y \in Int
      BY <2>1, <2>4
    <3>2. Wrap(y, n) = y
      BY <2>1, <3>1, NearWrap
    <3> QED
      BY <2>3, <3>1, <3>2
<1>2. a \in Nat /\ b \in Nat
  BY DEF IsGap
<1>3. CASE k <= m
  BY <1>1, <1>3
<1>4. CASE m <= k
  BY <1>1, <1>4
<1> QED
  BY <1>2, <1>3, <1>4

\* The gaps that are filled, by their first ticks.
Filled(lane, cap, n) ==
  {i \in Lap(n) \ lane : /\ Wrap(i - 1, n) \in lane
                         /\ Wrap(i + GapLength(i, lane, n), n) # Min(lane)
                         /\ GapLength(i, lane, n) <= cap}

\* Neither nothing nor the whole lap.
SomeOfLap(lane, n) == lane \in SUBSET Lap(n) /\ lane # {} /\ lane # Lap(n)

\* What is bridged: the lane changes, and the ticks of the filled gaps.
LEMMA BridgedTicks ==
  ASSUME NEW n \in Nat \ {0}, NEW lane, SomeOfLap(lane, n), NEW p,
         NEW cap, cap = Capped(p.bridge, n),
         NEW x
  PROVE  x \in Bridged(lane, p, n)
           <=> x \in lane \/ \E i \in Filled(lane, cap, n) :
                               \E k \in 0 .. GapLength(i, lane, n) - 1 : x = Wrap(i + k, n)
<1>1. lane \in SUBSET Lap(n) /\ lane # {} /\ lane # Lap(n)
  BY DEF SomeOfLap
<1> DEFINE Starts == {i \in Lap(n) \ lane : Wrap(i - 1, n) \in lane}
           Size(i) == Cardinality(QuietFrom(i, lane, n))
           Fills == {i \in Starts : Wrap(i + Size(i), n) # Min(lane) /\ Size(i) <= cap}
<1>2. Bridged(lane, p, n) = lane \cup UNION {QuietFrom(i, lane, n) : i \in Fills}
  BY <1>1, Zenon DEF Bridged
<1>3. ASSUME NEW i \in Lap(n), i \notin lane
      PROVE  /\ Size(i) = GapLength(i, lane, n)
             /\ QuietFrom(i, lane, n) = {Wrap(i + k, n) : k \in 0 .. GapLength(i, lane, n) - 1}
  BY <1>1, <1>3, GapMeasured
<1>4. Fills = Filled(lane, cap, n)
  <2> HIDE DEF Size
  <2>1. \A i \in Starts : Size(i) = GapLength(i, lane, n)
    BY <1>3
  <2>2. \A i : i \in Fills <=> i \in Filled(lane, cap, n)
    BY <2>1, Zenon DEF Filled
  <2> QED
    BY <2>2
<1> HIDE DEF Fills
<1>5. x \in Bridged(lane, p, n)
        <=> x \in lane \/ \E i \in Filled(lane, cap, n) : x \in QuietFrom(i, lane, n)
  BY <1>2, <1>4
<1>6. \A i \in Filled(lane, cap, n) : i \in Lap(n) /\ i \notin lane
  BY DEF Filled
<1>7. \A i \in Filled(lane, cap, n) :
        x \in QuietFrom(i, lane, n) <=> \E k \in 0 .. GapLength(i, lane, n) - 1 : x = Wrap(i + k, n)
  BY <1>3, <1>6
<1> QED
  BY <1>5, <1>7

\* A tick in a filled gap: the gap begins at s after a lane change, and the tick is k on.
InFilled(x, s, len, k, lane, cap, n) ==
  /\ IsGap(s, len, lane, n) /\ len = GapLength(s, lane, n)
  /\ Wrap(s - 1, n) \in lane /\ s \in Filled(lane, cap, n)
  /\ k \in 0 .. len - 1 /\ x = Wrap(s + k, n)
  /\ len <= cap /\ Wrap(s + len, n) # Min(lane)

\* Where a tick that is filled lies.
LEMMA FilledTick ==
  ASSUME NEW n \in Nat \ {0}, NEW lane, SomeOfLap(lane, n), NEW p,
         NEW cap, cap = Capped(p.bridge, n),
         NEW x, x \in Bridged(lane, p, n), x \notin lane
  PROVE  \E s, len, k : InFilled(x, s, len, k, lane, cap, n)
<1>1. PICK s \in Filled(lane, cap, n) : \E k \in 0 .. GapLength(s, lane, n) - 1 : x = Wrap(s + k, n)
  BY BridgedTicks
<1>2. PICK len : len = GapLength(s, lane, n)
  OBVIOUS
<1>3. PICK k \in 0 .. len - 1 : x = Wrap(s + k, n)
  BY <1>1, <1>2
<1>4. /\ s \in Lap(n) /\ s \notin lane /\ Wrap(s - 1, n) \in lane
      /\ Wrap(s + len, n) # Min(lane) /\ len <= cap
  BY <1>2 DEF Filled
<1>5. IsGap(s, len, lane, n)
  <2>1. lane \in SUBSET Lap(n) /\ lane # {}
    BY DEF SomeOfLap
  <2> QED
    BY <1>2, <1>4, <2>1, GapMeasured
<1> QED
  BY <1>2, <1>3, <1>4, <1>5 DEF InFilled

\* Bridging only adds to the lane changes.
LEMMA BridgedOnLap ==
  ASSUME NEW n \in Nat \ {0}, NEW lane \in SUBSET Lap(n), NEW p
  PROVE  lane \subseteq Bridged(lane, p, n) /\ Bridged(lane, p, n) \subseteq Lap(n)
<1>1. CASE lane = {} \/ lane = Lap(n)
  BY <1>1 DEF Bridged
<1>2. CASE ~(lane = {} \/ lane = Lap(n))
  <2>1. SomeOfLap(lane, n)
    BY <1>2 DEF SomeOfLap
  <2>2. PICK cap : cap = Capped(p.bridge, n)
    OBVIOUS
  <2>3. lane \subseteq Bridged(lane, p, n)
    BY <2>1, <2>2, BridgedTicks
  <2>4. ASSUME NEW x \in Bridged(lane, p, n), x \notin lane PROVE x \in Lap(n)
    <3>1. PICK s, len, k : InFilled(x, s, len, k, lane, cap, n)
      BY <2>1, <2>2, <2>4, FilledTick
    <3>2. s \in Lap(n) /\ len \in 1 .. n /\ k \in 0 .. len - 1 /\ x = Wrap(s + k, n)
      BY <3>1 DEF InFilled, IsGap
    <3>3. k \in Int /\ 0 \in Int
      BY <3>2
    <3> QED
      BY <3>2, <3>3, FurtherOn
  <2> QED
    BY <2>3, <2>4
<1> QED
  BY <1>1, <1>2

\* A run of bridged ticks begins with a lane change.
LEMMA RunBegins ==
  ASSUME NEW n \in Nat \ {0}, NEW lane, SomeOfLap(lane, n), NEW p,
         NEW i \in Bridged(lane, p, n), Wrap(i - 1, n) \notin Bridged(lane, p, n)
  PROVE  i \in lane
<1> SUFFICES ASSUME i \notin lane PROVE FALSE
  OBVIOUS
<1>1. PICK cap : cap = Capped(p.bridge, n)
  OBVIOUS
<1>2. PICK s, len, k : InFilled(i, s, len, k, lane, cap, n)
  BY <1>1, FilledTick
<1>3. /\ s \in Lap(n) /\ len \in 1 .. n /\ k \in 0 .. len - 1 /\ i = Wrap(s + k, n)
      /\ Wrap(s - 1, n) \in lane /\ s \in Filled(lane, cap, n)
  BY <1>2 DEF InFilled, IsGap
<1>4. PICK x \in Int : x = k + (-1) /\ (k # 0 => x \in 0 .. len - 1)
  <2>1. k + (-1) \in Int /\ (k # 0 => k + (-1) \in 0 .. len - 1)
    BY <1>3
  <2> QED
    BY <2>1
<1>5. Wrap(i - 1, n) = Wrap(s + x, n)
  <2>1. k \in Int /\ -1 \in Int
    BY <1>3
  <2>2. Wrap(Wrap(s + k, n) + (-1), n) = Wrap(s + (k + (-1)), n) /\ Wrap(s + k, n) \in Lap(n)
    BY <1>3, <2>1, FurtherOn
  <2>3. i + (-1) = i - 1
    BY <1>3, <2>2 DEF Lap
  <2> QED
    BY <1>3, <1>4, <2>2, <2>3
<1>6. CASE k = 0
  <2>1. s + x = s - 1
    BY <1>3, <1>4, <1>6 DEF Lap
  <2>2. Wrap(i - 1, n) \in lane
    BY <1>3, <1>5, <2>1
  <2>3. lane \subseteq Bridged(lane, p, n)
    BY BridgedOnLap DEF SomeOfLap
  <2> QED
    BY <2>2, <2>3
<1>7. CASE k # 0
  <2>1. x \in 0 .. GapLength(s, lane, n) - 1
    <3>1. len = GapLength(s, lane, n)
      BY <1>2 DEF InFilled
    <3> QED
      BY <1>4, <1>7, <3>1
  <2> QED
    BY <1>1, <1>3, <1>5, <2>1, BridgedTicks
<1> QED
  BY <1>6, <1>7

\* What is bridged but no lane change ends at a lane change, within the bridge.
LEMMA FillerEnds ==
  ASSUME NEW n \in Nat \ {0}, NEW lane, SomeOfLap(lane, n), NEW p, NEW cap \in Nat,
         cap = Capped(p.bridge, n), NEW i \in Bridged(lane, p, n), i \notin lane
  PROVE  \E d \in 1 .. n : d <= cap /\ Wrap(i + d, n) \in lane
<1>1. PICK s, len, k : InFilled(i, s, len, k, lane, cap, n)
  BY FilledTick
<1>2. /\ s \in Lap(n) /\ len \in 1 .. n /\ k \in 0 .. len - 1 /\ i = Wrap(s + k, n)
      /\ len <= cap /\ Wrap(s + len, n) \in lane
  BY <1>1 DEF InFilled, IsGap
<1>3. PICK d \in 1 .. n : d <= cap /\ k + d = len
  <2>1. len - k \in 1 .. n /\ len - k <= cap /\ k + (len - k) = len
    BY <1>2
  <2> QED
    BY <2>1
<1>4. Wrap(i + d, n) = Wrap(s + (k + d), n)
  <2>1. k \in Int /\ d \in Int
    BY <1>2
  <2> QED
    BY <1>2, <2>1, FurtherOn
<1> QED
  BY <1>2, <1>3, <1>4

\* What is not bridged begins after a lane change, and goes on for a whole gap, which is too
\* long or runs into the first lane change.
LEMMA QuietRun ==
  ASSUME NEW n \in Nat \ {0}, NEW lane, SomeOfLap(lane, n), NEW p, NEW cap \in Nat,
         cap = Capped(p.bridge, n),
         NEW i \in Lap(n), i \notin Bridged(lane, p, n), Wrap(i - 1, n) \in Bridged(lane, p, n),
         NEW len, len = GapLength(i, lane, n)
  PROVE  /\ IsGap(i, len, lane, n)
         /\ \A k \in 0 .. len - 1 : Wrap(i + k, n) \notin Bridged(lane, p, n)
         /\ len > cap \/ Wrap(i + len, n) = Min(lane)
<1>1. lane \in SUBSET Lap(n) /\ lane # {} /\ lane \subseteq Bridged(lane, p, n)
  BY BridgedOnLap DEF SomeOfLap
<1>2. i \notin lane /\ IsGap(i, len, lane, n)
  BY <1>1, GapMeasured
<1>3. i \in 0 .. n - 1 /\ i \in Int /\ len \in 1 .. n
  BY <1>2 DEF IsGap, Lap
<1>4. Wrap(i - 1, n) \in lane
  <2> SUFFICES ASSUME Wrap(i - 1, n) \notin lane PROVE FALSE
    OBVIOUS
  <2>1. PICK s, l, k : InFilled(Wrap(i - 1, n), s, l, k, lane, cap, n)
    BY FilledTick
  <2>2. /\ s \in Lap(n) /\ l \in 1 .. n /\ k \in 0 .. l - 1 /\ Wrap(i - 1, n) = Wrap(s + k, n)
        /\ Wrap(s + l, n) \in lane /\ s \in Filled(lane, cap, n) /\ l = GapLength(s, lane, n)
    BY <2>1 DEF InFilled, IsGap
  <2>3. i = Wrap(s + (k + 1), n)
    <3>1. Wrap(Wrap(s + k, n) + 1, n) = Wrap(s + (k + 1), n)
      <4>1. k \in Int /\ 1 \in Int
        BY <2>2
      <4> QED
        BY <2>2, <4>1, FurtherOn
    <3>2. Wrap(Wrap(i + (-1), n) + 1, n) = Wrap(i + ((-1) + 1), n)
      BY FurtherOn, -1 \in Int, 1 \in Int
    <3>3. i + (-1) = i - 1 /\ i + ((-1) + 1) = i
      BY <1>3
    <3>4. Wrap(i, n) = i
      BY <1>3, NearWrap
    <3> QED
      BY <2>2, <3>1, <3>2, <3>3, <3>4
  <2>4. CASE k + 1 = l
    BY <1>2, <2>2, <2>3, <2>4
  <2>5. CASE k + 1 # l
    <3>1. k + 1 \in 0 .. GapLength(s, lane, n) - 1
      BY <2>2, <2>5
    <3> QED
      BY <2>2, <2>3, <3>1, BridgedTicks
  <2> QED
    BY <2>4, <2>5
<1>5. i \notin Filled(lane, cap, n)
  <2> SUFFICES ASSUME i \in Filled(lane, cap, n) PROVE FALSE
    OBVIOUS
  <2>1. 0 \in 0 .. GapLength(i, lane, n) - 1
    BY <1>3
  <2>2. Wrap(i + 0, n) = i
    <3>1. i + 0 = i
      BY <1>3
    <3> QED
      BY <1>3, <3>1, NearWrap
  <2> QED
    BY <2>1, <2>2, BridgedTicks
<1>6. ASSUME NEW k \in 0 .. len - 1, Wrap(i + k, n) \in Bridged(lane, p, n) PROVE FALSE
  <2>1. Wrap(i + k, n) \notin lane
    BY <1>2 DEF IsGap
  <2>2. PICK s, l, m : InFilled(Wrap(i + k, n), s, l, m, lane, cap, n)
    BY <1>6, <2>1, FilledTick
  <2>3. /\ IsGap(s, l, lane, n) /\ Wrap(s - 1, n) \in lane /\ m \in 0 .. l - 1
        /\ Wrap(i + k, n) = Wrap(s + m, n) /\ s \in Filled(lane, cap, n)
    BY <2>2 DEF InFilled
  <2>4. i = s
    BY <1>2, <1>4, <2>3, GapsMeet
  <2> QED
    BY <1>5, <2>3, <2>4
<1>7. len > cap \/ Wrap(i + len, n) = Min(lane)
  <2>1. ~(len <= cap) \/ Wrap(i + len, n) = Min(lane)
    BY <1>2, <1>4, <1>5 DEF Filled
  <2> QED
    BY <1>3, <2>1
<1> QED
  BY <1>2, <1>6, <1>7

\* The first bridged tick of the lap is a lane change.
LEMMA FirstBridged ==
  ASSUME NEW n \in Nat \ {0}, NEW lane, SomeOfLap(lane, n), NEW p, p.bridge \in Nat
  PROVE  Min(Bridged(lane, p, n)) = Min(lane)
<1>1. PICK cap \in Nat : cap = Capped(p.bridge, n)
  BY CappedType
<1>2. /\ lane \in SUBSET Lap(n) /\ lane # {} /\ lane \subseteq Bridged(lane, p, n)
      /\ Bridged(lane, p, n) \subseteq Lap(n)
  BY BridgedOnLap DEF SomeOfLap
<1>3. PICK first : first = Min(lane)
  OBVIOUS
<1>4. first \in lane /\ \A y \in lane : first <= y
  <2>1. lane \subseteq Nat
    BY <1>2 DEF Lap
  <2> QED
    BY <1>2, <1>3, <2>1, MinOfNats
<1>5. first \in 0 .. n - 1
  BY <1>2, <1>4 DEF Lap
<1>6. ASSUME NEW x \in Bridged(lane, p, n), ~(first <= x) PROVE FALSE
  <2>1. x \in 0 .. n - 1
    BY <1>2 DEF Lap
  <2>2. x \notin lane
    BY <1>4, <1>6
  <2>3. PICK s, len, k : InFilled(x, s, len, k, lane, cap, n)
    BY <1>1, <2>2, FilledTick
  <2>4. /\ IsGap(s, len, lane, n) /\ s \in Lap(n) /\ len \in 1 .. n /\ k \in 0 .. len - 1
        /\ x = Wrap(s + k, n) /\ Wrap(s + len, n) # first /\ Wrap(s + len, n) \in lane
    BY <1>3, <2>3 DEF InFilled, IsGap
  <2>5. ASSUME NEW d \in Nat, x + d <= first PROVE Wrap(s + (k + d), n) = x + d
    <3>1. k \in Int /\ d \in Int
      BY <2>4
    <3>2. Wrap(x + d, n) = Wrap(s + (k + d), n)
      BY <2>4, <3>1, FurtherOn
    <3>3. x + d \in 0 .. n - 1 /\ x + d \in Int
      BY <1>5, <2>1, <2>5
    <3> QED
      BY <3>2, <3>3, NearWrap
  <2>6. PICK d \in Nat : x + d = first
    <3>1. first - x \in Nat /\ x + (first - x) = first
      BY <1>5, <1>6, <2>1
    <3> QED
      BY <3>1
  <2>7. CASE len <= k + d
    <3>1. PICK e \in Nat : k + e = len /\ e <= d
      <4>1. len - k \in Nat /\ k + (len - k) = len /\ len - k <= d
        BY <2>4, <2>7
      <4> QED
        BY <4>1
    <3>2. x + e <= first /\ x + e \in Int
      BY <2>1, <2>6, <3>1
    <3>3. Wrap(s + len, n) = x + e
      BY <2>5, <3>1, <3>2
    <3>4. first <= x + e
      BY <1>4, <2>4, <3>3
    <3>5. x + e = first
      BY <1>5, <3>2, <3>4
    <3> QED
      BY <2>4, <3>3, <3>5
  <2>8. CASE ~(len <= k + d)
    <3>1. PICK y \in 0 .. len - 1 : y = k + d
      <4>1. k + d \in 0 .. len - 1
        BY <2>4, <2>8
      <4> QED
        BY <4>1
    <3>2. Wrap(s + y, n) = first
      <4>1. x + d <= first
        BY <1>5, <2>6
      <4> QED
        BY <2>5, <2>6, <3>1, <4>1
    <3> QED
      BY <1>4, <2>4, <3>2 DEF IsGap
  <2> QED
    BY <2>7, <2>8
<1>7. Bridged(lane, p, n) \in SUBSET Int
  BY <1>2 DEF Lap
<1>8. first \in Bridged(lane, p, n) /\ \A x \in Bridged(lane, p, n) : first <= x
  BY <1>2, <1>4, <1>6
<1> QED
  BY <1>3, <1>7, <1>8, MinIs

-----------------------------------------------------------------------------
(* The lane changes of a lap, from their seeds *)

ArcLength(i, set, n) == Min({k \in 1 .. n : Wrap(i + k, n) \notin set})

\* The ticks within pad of a seed.
Widened(seeds, pad, n) == UNION {RingAround(j, pad, n) : j \in seeds}

\* Widening stays on the lap.
LEMMA WidenedOnLap ==
  ASSUME NEW n \in Nat \ {0}, NEW seeds \in SUBSET Lap(n), NEW pad \in Nat
  PROVE  Widened(seeds, pad, n) \in SUBSET Lap(n)
<1> SUFFICES ASSUME NEW j \in seeds, NEW k \in -pad .. pad PROVE Wrap(j + k, n) \in Lap(n)
  BY DEF Widened, RingAround
<1> QED
  BY FurtherOn, k \in Int, 0 \in Int

\* Every lane change is as long as the padding on both sides of a seed.
LEMMA LongArcs ==
  ASSUME NEW n \in Nat \ {0}, NEW seeds \in SUBSET Lap(n), NEW pad \in Nat,
         NEW lane, lane = Widened(seeds, pad, n), NEW p, NEW B, B = Bridged(lane, p, n),
         NEW i \in B, Wrap(i - 1, n) \notin B
  PROVE  ArcLength(i, B, n) >= 2 * pad + 1
<1>1. lane \in SUBSET Lap(n) /\ lane \subseteq B /\ B \subseteq Lap(n)
  BY WidenedOnLap, BridgedOnLap
<1>2. i \in Lap(n) /\ i \in 0 .. n - 1 /\ i \in Int
  BY <1>1 DEF Lap
<1>3. i \in lane
  <2>1. Wrap(i - 1, n) \in Lap(n)
    <3>1. i + (-1) = i - 1
      BY <1>2
    <3> QED
      BY <1>2, <3>1, FurtherOn, -1 \in Int, 0 \in Int
  <2>2. CASE SomeOfLap(lane, n)
    BY <2>2, RunBegins
  <2>3. CASE ~SomeOfLap(lane, n)
    <3>1. B = lane
      BY <1>1, <2>3 DEF SomeOfLap, Bridged
    <3> QED
      BY <3>1
  <2> QED
    BY <2>2, <2>3
<1>4. PICK j \in seeds : i \in RingAround(j, pad, n)
  BY <1>3 DEF Widened
<1>5. PICK k \in -pad .. pad : i = Wrap(j + k, n)
  BY <1>4 DEF RingAround
<1>6. ASSUME NEW d \in Int, k + d \in -pad .. pad PROVE Wrap(i + d, n) \in B
  <2>1. Wrap(i + d, n) = Wrap(j + (k + d), n)
    <3>1. j \in Lap(n) /\ k \in Int
      OBVIOUS
    <3> QED
      BY <1>5, <3>1, FurtherOn
  <2>2. Wrap(i + d, n) \in lane
    BY <1>6, <2>1 DEF Widened, RingAround
  <2> QED
    BY <1>1, <2>2
<1>7. k = -pad
  <2> SUFFICES ASSUME k # -pad PROVE FALSE
    OBVIOUS
  <2>1. k + (-1) \in -pad .. pad /\ i + (-1) = i - 1
    BY <1>2
  <2>2. Wrap(i + (-1), n) \in B
    BY <1>6, <2>1, -1 \in Int
  <2> QED
    BY <2>1, <2>2
<1>8. PICK K : K = {m \in 1 .. n : Wrap(i + m, n) \notin B}
  OBVIOUS
<1>9. K \subseteq Nat /\ K # {}
  <2>1. Wrap(i + (n - 1), n) = Wrap(i - 1, n)
    BY <1>2, WholeTurn
  <2>2. n # 1
    <3> SUFFICES ASSUME n = 1 PROVE FALSE
      OBVIOUS
    <3>1. i + (n - 1) = i
      BY <1>2
    <3>2. Wrap(i, n) = i
      BY <1>2, NearWrap
    <3> QED
      BY <2>1, <3>1, <3>2
  <2>3. n - 1 \in 1 .. n
    BY <2>2
  <2> QED
    BY <1>8, <2>1, <2>3
<1>10. PICK m \in K : m = Min(K)
  BY <1>9, MinOfNats
<1>11. m \in 1 .. n /\ Wrap(i + m, n) \notin B
  BY <1>8, <1>10
<1>12. ~(k + m \in -pad .. pad)
  BY <1>6, <1>11
<1>13. m >= 2 * pad + 1
  BY <1>7, <1>11, <1>12
<1> QED
  BY <1>8, <1>10, <1>13 DEF ArcLength

\* What is no lane change by its seeds fills a gap within the bridge.
LEMMA ShortFillers ==
  ASSUME NEW n \in Nat \ {0}, NEW seeds \in SUBSET Lap(n), NEW pad \in Nat,
         NEW lane, lane = Widened(seeds, pad, n), NEW p, NEW B, B = Bridged(lane, p, n),
         NEW cap \in Nat, cap = Capped(p.bridge, n),
         NEW F, F = {x \in B : ~ \E j \in RingAround(x, pad, n) : j \in seeds},
         NEW i \in F
  PROVE  ArcLength(i, F, n) <= cap
<1>1. lane \in SUBSET Lap(n) /\ lane \subseteq B /\ B \subseteq Lap(n)
  BY WidenedOnLap, BridgedOnLap
<1>2. F = B \ lane
  <2>1. ASSUME NEW x \in B PROVE x \in lane <=> \E j \in RingAround(x, pad, n) : j \in seeds
    <3>1. x \in Lap(n)
      BY <1>1
    <3>2. ASSUME NEW j \in seeds PROVE x \in RingAround(j, pad, n) <=> j \in RingAround(x, pad, n)
      <4>1. j \in Lap(n)
        OBVIOUS
      <4> QED
        BY <3>1, <4>1, RingSymmetric
    <3>3. x \in lane <=> \E j \in seeds : x \in RingAround(j, pad, n)
      BY DEF Widened
    <3> QED
      BY <3>2, <3>3
  <2> QED
    BY <1>1, <2>1
<1>3. SomeOfLap(lane, n)
  <2> SUFFICES ASSUME ~SomeOfLap(lane, n) PROVE FALSE
    OBVIOUS
  <2>1. B = lane
    BY <1>1 DEF SomeOfLap, Bridged
  <2> QED
    BY <1>2, <2>1
<1>4. PICK d \in 1 .. n : d <= cap /\ Wrap(i + d, n) \in lane
  BY <1>2, <1>3, FillerEnds
<1>5. PICK K : K = {k \in 1 .. n : Wrap(i + k, n) \notin F}
  OBVIOUS
<1>6. d \in K /\ K \subseteq Nat
  BY <1>2, <1>4, <1>5
<1>7. PICK m \in K : m = Min(K) /\ m <= d
  BY <1>6, MinOfNats
<1>8. m \in 1 .. n /\ m <= cap
  BY <1>4, <1>5, <1>7
<1> QED
  BY <1>5, <1>7, <1>8 DEF ArcLength

\* A quiet stretch is too long to be bridged, or runs into the first lane change of the lap.
LEMMA LongQuiet ==
  ASSUME NEW n \in Nat \ {0}, NEW lane \in SUBSET Lap(n), NEW p, p.bridge \in Nat,
         NEW B, B = Bridged(lane, p, n), NEW cap \in Nat, cap = Capped(p.bridge, n),
         NEW quiet, quiet = Lap(n) \ B, NEW i \in quiet, Wrap(i - 1, n) \notin quiet,
         NEW len, len = ArcLength(i, quiet, n)
  PROVE  len > cap \/ Wrap(i + len, n) = Min(B)
<1>1. lane \subseteq B /\ B \subseteq Lap(n)
  BY BridgedOnLap
<1>2. i \in Lap(n) /\ i \notin B /\ i \in 0 .. n - 1
  BY DEF Lap
<1>3. Wrap(i - 1, n) \in B
  <2>1. i + (-1) = i - 1
    BY <1>2
  <2>2. Wrap(i - 1, n) \in Lap(n)
    BY <1>2, <2>1, FurtherOn, -1 \in Int, 0 \in Int
  <2> QED
    BY <2>2
<1>4. SomeOfLap(lane, n)
  <2> SUFFICES ASSUME ~SomeOfLap(lane, n) PROVE FALSE
    OBVIOUS
  <2>1. B = lane /\ (lane = {} \/ lane = Lap(n))
    BY DEF SomeOfLap, Bridged
  <2> QED
    BY <1>2, <1>3, <2>1
<1>5. PICK g : g = GapLength(i, lane, n)
  OBVIOUS
<1>6. /\ IsGap(i, g, lane, n)
      /\ \A k \in 0 .. g - 1 : Wrap(i + k, n) \notin B
      /\ g > cap \/ Wrap(i + g, n) = Min(lane)
  BY <1>2, <1>3, <1>4, <1>5, QuietRun
<1>7. g \in 1 .. n /\ Wrap(i + g, n) \in B
  BY <1>1, <1>6 DEF IsGap
<1>8. PICK K : K = {k \in 1 .. n : Wrap(i + k, n) \notin quiet}
  OBVIOUS
<1>9. g \in K /\ K \in SUBSET Int
  BY <1>7, <1>8
<1>10. ASSUME NEW k \in K PROVE g <= k
  <2> SUFFICES ASSUME ~(g <= k) PROVE FALSE
    OBVIOUS
  <2>1. k \in 1 .. n /\ Wrap(i + k, n) \notin quiet
    BY <1>8
  <2>2. k \in 0 .. g - 1
    BY <1>7, <2>1
  <2>3. Wrap(i + k, n) \in Lap(n)
    BY <1>2, <2>1, FurtherOn, 0 \in Int, k \in Int
  <2> QED
    BY <1>6, <2>1, <2>2, <2>3
<1>11. len = g
  <2>1. Min(K) = g
    BY <1>9, <1>10, MinIs
  <2> QED
    BY <1>8, <2>1 DEF ArcLength
<1>12. Min(B) = Min(lane)
  BY <1>4, FirstBridged
<1> QED
  BY <1>6, <1>11, <1>12

\* The seeds of a lap, as Trajectory::computeTrackZones finds them.
SeedsOf(t, p) == {j \in Lap(t.lap) : IsLaneSeed(t.ff1[j], CurvatureDelta(t, p)[j], p)}

\* The padded lane changes are the ticks within the padding of a seed.
LEMMA PaddedIsWidened ==
  ASSUME NEW t, NEW p, p.pad \in Nat, t.lap \in Nat \ {0}
  PROVE  Padded(t, p) = Widened(SeedsOf(t, p), Capped(p.pad, t.lap), t.lap)
<1>1. PICK pad \in Nat : pad = Capped(p.pad, t.lap) /\ 2 * pad <= t.lap
  BY CappedType
<1>2. Padded(t, p) = UNION {CircularRange(i - pad, i + pad, t.lap) : i \in SeedsOf(t, p)}
  BY <1>1, Zenon DEF Padded, SeedsOf
<1>3. \A i \in SeedsOf(t, p) :
        CircularRange(i - pad, i + pad, t.lap) = RingAround(i, pad, t.lap)
  BY <1>1, RangeIsRing DEF SeedsOf
<1>4. {CircularRange(i - pad, i + pad, t.lap) : i \in SeedsOf(t, p)}
        = {RingAround(i, pad, t.lap) : i \in SeedsOf(t, p)}
  BY <1>3
<1> QED
  BY <1>1, <1>2, <1>4 DEF Widened

\* The lane changes that a run starts with, and where they come from.
LEMMA StartingZones ==
  ASSUME Init
  PROVE  /\ This.lap \in Nat \ {0} /\ P.bridge \in Nat /\ P.pad \in Nat
         /\ LaneChange = Bridged(Padded(track, P), P, This.lap)
         /\ Padded(track, P) = Widened(SeedsOf(track, P), Capped(P.pad, This.lap), This.lap)
         /\ SeedsOf(track, P) \in SUBSET Lap(This.lap)
         /\ \A i \in Lap(This.lap) : Seed(i) <=> i \in SeedsOf(track, P)
<1>1. /\ conf \in DOMAIN Config /\ track \in Track(This.lap, This.ff0, This.ff1)
      /\ zones = ZonesOf(track, P)
  BY DEF Init
<1>2. This \in FleetConfiguration
  BY <1>1, FleetConfigAssumption DEF This
<1>3. /\ This.lap \in Nat \ {0} /\ This.ff0 \subseteq Int /\ This.zoneParams \in ZoneParams
  BY <1>2 DEF FleetConfiguration
<1>4. P.bridge \in Nat /\ P.pad \in Nat /\ P.half \in Nat /\ P.sharp \in Nat
  BY <1>3 DEF P, ZoneParams
<1>5. track.lap = This.lap /\ track.ff0 \in [Lap(This.lap) -> Int]
  <2>1. track.lap = This.lap /\ track.ff0 \in [Lap(This.lap) -> This.ff0]
    BY <1>1 DEF Track
  <2> QED
    BY <1>3, <2>1
<1>6. Padded(track, P) = Widened(SeedsOf(track, P), Capped(P.pad, This.lap), This.lap)
  BY <1>3, <1>4, <1>5, PaddedIsWidened
<1>7. SeedsOf(track, P) \in SUBSET Lap(This.lap)
  BY <1>5 DEF SeedsOf
<1>8. PICK B : B = Bridged(Padded(track, P), P, This.lap)
  OBVIOUS
<1>9. B \subseteq Lap(This.lap)
  <2>1. PICK pad \in Nat : pad = Capped(P.pad, This.lap)
    BY <1>3, <1>4, CappedType
  <2>2. Padded(track, P) \in SUBSET Lap(This.lap)
    BY <1>3, <1>6, <1>7, <2>1, WidenedOnLap
  <2> QED
    BY <1>3, <1>8, <2>2, BridgedOnLap
<1>10. LaneChange = B
  <2>1. zones = [i \in Lap(This.lap) |-> IF i \in B THEN 3 ELSE ZoneFromFf0(track.ff0[i], P)]
    BY <1>1, <1>5, <1>8 DEF ZonesOf
  <2>2. \A i : ZoneFromFf0(track.ff0[i], P) # 3
    BY DEF ZoneFromFf0
  <2>3. \A i \in Lap(This.lap) : zones[i] = 3 <=> i \in B
    BY <2>1, <2>2
  <2> QED
    BY <1>9, <2>3 DEF LaneChange
<1>11. ASSUME NEW i \in Lap(This.lap) PROVE Seed(i) <=> i \in SeedsOf(track, P)
  <2>1. PICK half \in Nat : half = Capped(P.half, This.lap)
    BY <1>3, <1>4, CappedType
  <2>2. PICK W : W = ValuesAt(track.ff0, RingAround(i, half, This.lap))
    OBVIOUS
  <2>3. CurvatureDelta(track, P)[i] = Max(W) - Min(W)
    BY <1>3, <1>5, <2>1, <2>2, DeltaIsVariation
  <2>4. Variation(Around(i, half)) = Max(W) - Min(W)
    BY <2>2 DEF Variation, Around, ValuesAt, RingAround
  <2> QED
    BY <1>5, <2>1, <2>3, <2>4 DEF Seed, SeedsOf, IsLaneSeed
<1> QED
  BY <1>3, <1>4, <1>6, <1>7, <1>8, <1>10, <1>11

\* A run starts with zones that cover its manoeuvres.
LEMMA StartingCover ==
  ASSUME Init
  PROVE  ZonesCoverManeuvers
<1>1. PICK n \in Nat \ {0}, pad \in Nat, cap \in Nat :
        n = This.lap /\ pad = Capped(P.pad, n) /\ cap = Capped(P.bridge, n)
  BY StartingZones, CappedType
<1>2. PICK seeds, lane, B : /\ seeds = SeedsOf(track, P) /\ lane = Widened(seeds, pad, n)
                            /\ B = Bridged(lane, P, n)
  OBVIOUS
<1>3. /\ LaneChange = B /\ seeds \in SUBSET Lap(n) /\ P.bridge \in Nat
      /\ \A i \in Lap(n) : Seed(i) <=> i \in seeds
  BY <1>1, <1>2, StartingZones
<1>4. lane \in SUBSET Lap(n) /\ lane \subseteq B
  BY <1>2, <1>3, WidenedOnLap, BridgedOnLap
<1>5. \A i, set : ArcFrom(i, set) = ArcLength(i, set, n)
  BY <1>1 DEF ArcFrom, ArcLength
<1>6. \A i : Around(i, pad) = RingAround(i, pad, n)
  BY <1>1 DEF Around, RingAround
<1>7. \A i \in Lap(n) : Seed(i) => Around(i, pad) \subseteq LaneChange
  BY <1>2, <1>3, <1>4, <1>6 DEF Widened
<1>8. ASSUME NEW i \in ArcStarts(LaneChange) PROVE ArcFrom(i, LaneChange) >= 2 * pad + 1
  <2>1. i \in B /\ Wrap(i - 1, n) \notin B
    BY <1>1, <1>3 DEF ArcStarts
  <2>2. ArcLength(i, B, n) >= 2 * pad + 1
    BY <1>2, <1>3, <2>1, LongArcs
  <2> QED
    BY <1>3, <1>5, <2>2
<1>9. PICK F : F = {i \in LaneChange : ~ \E j \in Around(i, pad) : Seed(j)}
  OBVIOUS
<1>10. ASSUME NEW i \in ArcStarts(F) PROVE ArcFrom(i, F) <= cap
  <2>1. ASSUME NEW x \in B, NEW j \in RingAround(x, pad, n) PROVE Seed(j) <=> j \in seeds
    <3>1. PICK k \in -pad .. pad : j = Wrap(x + k, n)
      BY DEF RingAround
    <3>2. j \in Lap(n)
      <4>1. x \in Lap(n) /\ k \in Int /\ 0 \in Int
        BY <1>2, <1>4, BridgedOnLap
      <4> QED
        BY <3>1, <4>1, FurtherOn
    <3> QED
      BY <1>3, <3>2
  <2>2. F = {x \in B : ~ \E j \in RingAround(x, pad, n) : j \in seeds}
    BY <1>3, <1>6, <1>9, <2>1
  <2>3. i \in F
    BY DEF ArcStarts
  <2>4. ArcLength(i, F, n) <= cap
    BY <1>1, <1>2, <1>3, <2>2, <2>3, ShortFillers
  <2> QED
    BY <1>5, <2>4
<1>11. PICK quiet : quiet = Lap(n) \ LaneChange
  OBVIOUS
<1>12. ASSUME NEW i \in ArcStarts(quiet)
       PROVE  \/ ArcFrom(i, quiet) > cap
              \/ Wrap(i + ArcFrom(i, quiet), n) = Min(LaneChange)
  <2>1. i \in quiet /\ Wrap(i - 1, n) \notin quiet
    BY <1>1 DEF ArcStarts
  <2>2. quiet = Lap(n) \ B
    BY <1>3, <1>11
  <2>3. \/ ArcLength(i, quiet, n) > cap
        \/ Wrap(i + ArcLength(i, quiet, n), n) = Min(B)
    BY <1>1, <1>2, <1>3, <1>4, <2>1, <2>2, LongQuiet
  <2> QED
    BY <1>3, <1>5, <2>3
<1> QED
  BY <1>1, <1>7, <1>8, <1>9, <1>10, <1>11, <1>12 DEF ZonesCoverManeuvers

\* Trajectory::computeTrackZones, its sliding window, its ranges over the lap's seam and its
\* bridging walk: every tick within the padding of a lane-change seed is z3, no z3 arc is
\* shorter than the padding on both sides of a seed, what else is z3 fills gaps no longer
\* than the bridge, and a gap that short is left only where it runs into the first z3 tick.
\* For every lap, curvature and parameters.
THEOREM ManeuversCovered == HarnessSpec => []ZonesCoverManeuvers
<1> DEFINE Inv == step \in Nat /\ ZonesCoverManeuvers
<1>1. HarnessInit => Inv
  BY StartingCover DEF HarnessInit, Init
<1>2. Inv /\ [HarnessTick]_harnessVars => Inv'
  <2> SUFFICES ASSUME Inv, [HarnessTick]_harnessVars PROVE Inv'
    OBVIOUS
  <2>1. CASE HarnessTick
    <3>1. step' = step + 1
      BY <2>1 DEF HarnessTick, Tick
    <3>2. step' \in Nat /\ step' # 0
      BY <3>1
    <3> QED
      BY <3>2 DEF ZonesCoverManeuvers
  <2>2. CASE UNCHANGED harnessVars
    <3>1. conf' = conf /\ track' = track /\ zones' = zones /\ step' = step
      BY <2>2 DEF harnessVars, fleetTrackVars, trackVars
    <3>2. This' = This /\ P' = P
      BY <3>1 DEF This, P
    <3>3. LaneChange' = LaneChange
      BY <3>1, <3>2 DEF LaneChange
    <3>4. \A i, set : ArcFrom(i, set)' = ArcFrom(i, set)
      BY <3>2 DEF ArcFrom
    <3>5. \A set : ArcStarts(set)' = ArcStarts(set)
      BY <3>2 DEF ArcStarts
    <3>6. \A i, ticks : Around(i, ticks)' = Around(i, ticks)
      BY <3>2 DEF Around
    <3>7. \A set : Variation(set)' = Variation(set)
      BY <3>1 DEF Variation
    <3>8. \A i : Seed(i)' <=> Seed(i)
      BY <3>1, <3>2, <3>6, <3>7 DEF Seed
    <3> QED
      BY <3>1, <3>2, <3>3, <3>4, <3>5, <3>6, <3>8 DEF ZonesCoverManeuvers
  <2> QED
    BY <2>1, <2>2
<1> QED
  BY <1>1, <1>2, PTL DEF HarnessSpec
=============================================================================
