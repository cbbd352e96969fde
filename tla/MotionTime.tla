----------------------------- MODULE MotionTime -----------------------------
(***************************************************************************)
(* Time as the libraries keep it: seconds in a double.  An integer stands  *)
(* for a double on a fixed grid; the grid step is well below the sampling  *)
(* tolerance, so both sides of every tolerance comparison exist.  Doubles  *)
(* run out at DBL_MAX: TimeLimit is the largest finite value, and the      *)
(* result of an operation that leaves the range, a NaN or an infinity, is  *)
(* the one value NonFinite.  The code never compares a non-finite time: it *)
(* asks std::isfinite first, on the operands and on the result.            *)
(***************************************************************************)
EXTENDS Integers

CONSTANTS
  TimeLimit,   \* the largest finite double, in grid steps
  Tolerance    \* PoseSampleTimeTolerance, in grid steps

ASSUME TimeAssumption ==
  /\ TimeLimit \in Nat
  /\ Tolerance \in Nat

Time      == -TimeLimit .. TimeLimit
NonFinite == TimeLimit + 1
Instant   == Time \cup {NonFinite}

IsFinite(t) == t \in Time

Finite(t) == IF IsFinite(t) THEN t ELSE NonFinite

(* Addition and subtraction of doubles: a non-finite operand stays         *)
(* non-finite, and finite operands may overflow.                           *)
Plus(a, b)  == IF IsFinite(a) /\ IsFinite(b) THEN Finite(a + b) ELSE NonFinite
Minus(a, b) == IF IsFinite(a) /\ IsFinite(b) THEN Finite(a - b) ELSE NonFinite

Larger(a, b)  == IF a >= b THEN a ELSE b
Smaller(a, b) == IF a <= b THEN a ELSE b
=============================================================================
