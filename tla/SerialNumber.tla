---------------------------- MODULE SerialNumber ----------------------------
(***************************************************************************)
(* Serial number arithmetic (sna.h, after RFC 1982): a 32-bit RTMP         *)
(* timestamp is a number on a circle, and with the count of rollovers the  *)
(* original number can be found again.  The circle has divisor points; the *)
(* program's has 2^32, which HalfDivisor = 2^31 gives.  The C++ computes   *)
(* with 64-bit numbers that stay below 2^33, so nothing else wraps; the    *)
(* rollover count is 32 bits wide and would wrap after 2^32 laps, which is *)
(* left out.                                                               *)
(***************************************************************************)
EXTENDS Integers

CONSTANT HalfDivisor     \* half_divisor

ASSUME HalfDivisorAssumption == HalfDivisor \in Nat \ {0}

divisor == 2 * HalfDivisor

max_add_number == HalfDivisor - 1

Numbers == 0 .. divisor - 1

\* The constructor: the point of the circle on which a value falls.
serialnumber(value) == value % divisor

\* a comes before b: b is less than half the circle ahead.
lt(a, b) ==
    \/ a < b /\ b - a < HalfDivisor
    \/ a > b /\ a - b > HalfDivisor

\* a comes after b.
gt(a, b) ==
    \/ a < b /\ b - a > HalfDivisor
    \/ a > b /\ a - b < HalfDivisor

is_rolled_over(pre, next) == next < pre /\ gt(next, pre)

\* unroll with a known count.
unroll(number, count) == divisor * count + number

\* The count after a step from pre to number: unroll with a preceding number
\* and add both advance it in place.
counted(pre, number, count) ==
    IF is_rolled_over(pre, number) THEN count + 1 ELSE count

\* add throws std::overflow_error unless the delta is below half the circle.
addable(delta) == delta \in 0 .. max_add_number

\* add: the number reached (the count that goes with it is counted of it).
add(number, delta) == serialnumber(number + delta)

=============================================================================
