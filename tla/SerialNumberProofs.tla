------------------------- MODULE SerialNumberProofs -------------------------
(***************************************************************************)
(* What sna.h promises, for a circle of every size.  Laps(t) is the        *)
(* rollover count that belongs to the true time t.                         *)
(***************************************************************************)
EXTENDS SerialNumber, TLAPS

Laps(t) == t \div divisor

(* The divisor, 2 to the number of bits, is a positive number. *)
LEMMA DivisorType == divisor \in Nat /\ divisor > 0
  BY HalfDivisorAssumption DEF divisor

(***************************************************************************)
(* A time is its laps and its point on the circle,                         *)
(***************************************************************************)
LEMMA LapsAndPoint ==
    ASSUME NEW t \in Nat
    PROVE  /\ serialnumber(t) \in Nat /\ serialnumber(t) < divisor
           /\ Laps(t) \in Nat
           /\ t = divisor * Laps(t) + serialnumber(t)
<1>1. ASSUME NEW d \in Nat, d > 0
      PROVE  t % d \in Nat /\ t % d < d /\ t \div d \in Nat
  BY <1>1
<1>2. ASSUME NEW d \in Nat, d > 0
      PROVE  t = (t \div d) * d + (t % d)
  BY <1>2
<1>3. ASSUME NEW d \in Nat, NEW q \in Nat
      PROVE  q * d = d * q
  BY <1>3
<1> QED
  BY <1>1, <1>2, <1>3, DivisorType DEF serialnumber, Laps

(***************************************************************************)
(* and they determine each other.                                          *)
(***************************************************************************)
LEMMA UniqueLaps ==
    ASSUME NEW t \in Nat, NEW q \in Nat, NEW r \in Nat, r < divisor,
           t = divisor * q + r
    PROVE  serialnumber(t) = r /\ Laps(t) = q
<1>1. ASSUME NEW d \in Nat, d > 0, NEW x \in Nat, x < d
      PROVE  (d * q + x) % d = x /\ (d * q + x) \div d = q
  BY <1>1
<1> QED
  BY <1>1, DivisorType DEF serialnumber, Laps

(***************************************************************************)
(* One lap more is one divisor more.                                       *)
(***************************************************************************)
LEMMA NextLap ==
    ASSUME NEW q \in Nat
    PROVE  divisor * (q + 1) = divisor * q + divisor
<1>1. ASSUME NEW d \in Nat
      PROVE  d * (q + 1) = d * q + d
  BY <1>1
<1> QED
  BY <1>1, DivisorType

(***************************************************************************)
(* A step of less than half the circle forward stays in its lap or enters  *)
(* the next one, and is_rolled_over tells which.                           *)
(***************************************************************************)
LEMMA ForwardStep ==
    ASSUME NEW t \in Nat, NEW u \in Nat, t <= u, u - t < HalfDivisor
    PROVE  counted(serialnumber(t), serialnumber(u), Laps(t)) = Laps(u)
<1>1. PICK q \in Nat : q = Laps(t)
  BY LapsAndPoint
<1>2. PICK r \in Nat : r = serialnumber(t) /\ r < divisor
  BY LapsAndPoint
<1>3. PICK base \in Nat : base = divisor * q
  <2>1. divisor * q \in Nat
    BY DivisorType
  <2> QED
    BY <2>1
<1>4. t = base + r
  BY <1>1, <1>2, <1>3, LapsAndPoint
<1>5. divisor = HalfDivisor + HalfDivisor /\ HalfDivisor \in Nat
  BY HalfDivisorAssumption DEF divisor
<1>6. CASE u < base + divisor
  <2>1. u - base \in Nat /\ u - base < divisor /\ u = base + (u - base)
    BY <1>4, <1>5, <1>6
  <2>2. serialnumber(u) = u - base /\ Laps(u) = q
    BY <2>1, <1>3, UniqueLaps
  <2>3. ~ (u - base < r)
    BY <1>4
  <2> QED
    BY <2>2, <2>3, <1>1, <1>2 DEF counted, is_rolled_over
<1>7. CASE u >= base + divisor
  <2>1. /\ u - (base + divisor) \in Nat
        /\ u - (base + divisor) < divisor
        /\ u = (base + divisor) + (u - (base + divisor))
    BY <1>2, <1>4, <1>5, <1>7
  <2>2. divisor * (q + 1) = base + divisor
    BY <1>3, NextLap
  <2>3. serialnumber(u) = u - (base + divisor) /\ Laps(u) = q + 1
    BY <2>1, <2>2, UniqueLaps
  <2>4. /\ u - (base + divisor) < r
        /\ r - (u - (base + divisor)) > HalfDivisor
    BY <1>2, <1>4, <1>5, <1>7
  <2>5. is_rolled_over(r, u - (base + divisor))
    BY <2>4 DEF is_rolled_over, gt
  <2> QED
    BY <2>3, <2>5, <1>1, <1>2 DEF counted
<1> QED
  BY <1>3, <1>5, <1>6, <1>7

(***************************************************************************)
(* unroll is the inverse of taking laps and point.                         *)
(***************************************************************************)
LEMMA UnrollLaps ==
    ASSUME NEW t \in Nat
    PROVE  unroll(serialnumber(t), Laps(t)) = t
  BY LapsAndPoint DEF unroll

(***************************************************************************)
(* unroll (a type 0 chunk): from a preceding time, a time less than half   *)
(* the circle ahead is recovered exactly from its 32 bits, across any      *)
(* number of rollovers so far.                                             *)
(***************************************************************************)
THEOREM UnrollIsExact ==
    ASSUME NEW t \in Nat, NEW u \in Nat, t <= u, u - t < HalfDivisor
    PROVE  unroll(serialnumber(u),
                  counted(serialnumber(t), serialnumber(u), Laps(t))) = u
  BY ForwardStep, UnrollLaps

(***************************************************************************)
(* add (a type 1, 2 or 3 chunk): for every delta it accepts, it arrives at *)
(* the point of the true sum and leaves the count that unrolls to it.      *)
(***************************************************************************)
THEOREM AddIsExact ==
    ASSUME NEW t \in Nat, NEW delta, addable(delta)
    PROVE  LET n == add(serialnumber(t), delta)
           IN  /\ n = serialnumber(t + delta)
               /\ unroll(n, counted(serialnumber(t), n, Laps(t))) = t + delta
<1>1. HalfDivisor \in Nat /\ divisor = HalfDivisor + HalfDivisor
  BY HalfDivisorAssumption DEF divisor
<1>2. delta \in Nat /\ delta < HalfDivisor
  BY <1>1 DEF addable, max_add_number
<1>3. t + delta \in Nat /\ t <= t + delta /\ (t + delta) - t < HalfDivisor
  BY <1>1, <1>2
<1>4. add(serialnumber(t), delta) = serialnumber(t + delta)
  <2>1. PICK s \in Nat : s = serialnumber(t) /\ s + delta \in Nat
    BY LapsAndPoint, <1>2
  <2>2. PICK q \in Nat : q = Laps(t)
    BY LapsAndPoint
  <2>3. PICK p \in Nat, r \in Nat :
            p = Laps(s + delta) /\ r = serialnumber(s + delta) /\ r < divisor
    BY <2>1, LapsAndPoint
  <2>4. /\ t = divisor * q + s
        /\ s + delta = divisor * p + r
    BY <2>1, <2>2, <2>3, LapsAndPoint
  <2>5. t + delta = divisor * (q + p) + r /\ q + p \in Nat
    <3>1. ASSUME NEW d \in Nat
          PROVE  d * (q + p) = d * q + d * p /\ d * q \in Nat /\ d * p \in Nat
      BY <3>1
    <3> QED
      BY <2>4, <3>1, <1>2, DivisorType
  <2>6. serialnumber(t + delta) = r
    BY <2>3, <2>5, <1>3, UniqueLaps
  <2> QED
    BY <2>1, <2>3, <2>6 DEF add
<1> QED
  BY <1>3, <1>4, UnrollIsExact

(***************************************************************************)
(* A time in the same lap that lies at most half the circle back is        *)
(* recovered exactly as well (video frames out of presentation order).     *)
(***************************************************************************)
THEOREM SmallStepBack ==
    ASSUME NEW t \in Nat, NEW u \in Nat, Laps(u) = Laps(t),
           serialnumber(t) - serialnumber(u) <= HalfDivisor
    PROVE  unroll(serialnumber(u),
                  counted(serialnumber(t), serialnumber(u), Laps(t))) = u
<1>1. serialnumber(t) \in Nat /\ serialnumber(u) \in Nat
  BY LapsAndPoint
<1>2. HalfDivisor \in Nat
  BY HalfDivisorAssumption
<1>3. ~ is_rolled_over(serialnumber(t), serialnumber(u))
  BY <1>1, <1>2 DEF is_rolled_over, gt
<1> QED
  BY <1>3, UnrollLaps DEF counted

(***************************************************************************)
(* A step further back counts a rollover that did not happen: a message    *)
(* with timestamp 0 after 2^31 milliseconds of a stream.                   *)
(***************************************************************************)
THEOREM LargeStepBackCounts ==
    ASSUME NEW t \in Nat, NEW u \in Nat, Laps(u) = Laps(t),
           serialnumber(t) - serialnumber(u) > HalfDivisor
    PROVE  counted(serialnumber(t), serialnumber(u), Laps(t)) = Laps(u) + 1
<1>1. serialnumber(t) \in Nat /\ serialnumber(u) \in Nat
  BY LapsAndPoint
<1>2. HalfDivisor \in Nat
  BY HalfDivisorAssumption
<1> QED
  BY <1>1, <1>2 DEF counted, is_rolled_over, gt

(***************************************************************************)
(* The comparisons: each is the other reversed, they exclude each other,   *)
(* and two different numbers compare exactly when they are not half the    *)
(* circle apart.                                                           *)
(***************************************************************************)
THEOREM Comparison ==
    ASSUME NEW a \in Numbers, NEW b \in Numbers
    PROVE  /\ lt(a, b) <=> gt(b, a)
           /\ ~ (lt(a, b) /\ gt(a, b))
           /\ lt(a, b) \/ gt(a, b) <=>
                /\ a # b
                /\ a - b # HalfDivisor
                /\ b - a # HalfDivisor
  BY HalfDivisorAssumption DEF lt, gt, Numbers, divisor

=============================================================================
