------------------------------- MODULE Floats -------------------------------
(***************************************************************************)
(* Floating point numbers as internal/floats.py and rust/src/internal/     *)
(* floats.rs see them: signed magnitudes in the order of the numbers, so   *)
(* that the next one up or down is a step of one.                          *)
(*                                                                         *)
(* A float is an integer: the positive ones are their bits 0 .. Infinity,  *)
(* and -1 - m is the negative one with the bits m, so that -1 is -0.0.     *)
(* NaN comes after them; -NaN - 1, which has its sign bit set, matters     *)
(* only where bits do (module Choices).  A width is a set of magnitudes.  A real number   *)
(* is counted in thirds of the distance between two floats: 3 * m is a     *)
(* float, and the two reals between it and the next round to either side.  *)
(***************************************************************************)
EXTENDS Integers, FiniteSets

CONSTANTS Infinity,    \* the magnitude of the infinities
          Narrow,      \* the magnitudes that narrow floats can represent
          Normal       \* for either width, the smallest magnitude of a normal number

Widths == {"narrow", "wide"}

NaN == Infinity + 1
Floats == -Infinity - 1 .. NaN
Negative(x) == x < 0
Negated(x) == IF x = NaN THEN x ELSE -x - 1
Magnitude(x) == IF x < 0 THEN -x - 1 ELSE x
OfWidth(w) == IF w = "wide" THEN Floats \ {NaN} ELSE {x \in Floats \ {NaN} : Magnitude(x) \in Narrow}

\* The number that a float is, and what == makes of it.
Number(x) == IF x < 0 THEN 3 * (x + 1) ELSE 3 * x
Infinite(x) == x # NaN /\ Magnitude(x) = Infinity

\* sign_aware_lte, which tells the zeros apart.
SignAwareLte(x, y) == x # NaN /\ y # NaN /\ x <= y

\* next_up, next_down
NextUp(x, w) ==
  IF x \in {NaN, Infinity} THEN x ELSE IF w = "wide" THEN x + 1
  ELSE CHOOSE y \in OfWidth(w) : y > x /\ \A z \in OfWidth(w) : z > x => y <= z
NextDown(x, w) == Negated(NextUp(Negated(x), w))

\* next_down_normal, next_up_normal: the same, past the subnormal numbers.
NextDownNormal(x, w, subnormal) ==
  LET y == NextDown(x, w)
  IN  IF ~subnormal /\ Magnitude(y) \in 1 .. Normal[w] - 1
      THEN (IF y > 0 THEN 0 ELSE Negated(Normal[w])) ELSE y
NextUpNormal(x, w, subnormal) == Negated(NextDownNormal(Negated(x), w, subnormal))

\* float_of, and float() of a real number: the nearest float, with the sign of the
\* real number if it is a zero.
Rounded(real, w) ==
  LET size == IF real < 0 THEN -real ELSE real
      Far(m) == IF 3 * m < size THEN size - 3 * m ELSE 3 * m - size
      M == {Magnitude(x) : x \in OfWidth(w)}
      nearest == CHOOSE m \in M : \A n \in M : Far(m) < Far(n) \/ (Far(m) = Far(n) /\ m <= n)
  IN  IF real < 0 THEN Negated(nearest) ELSE nearest

-----------------------------------------------------------------------------
(***************************************************************************)
(* The constraints of a choice of a float: [min, max, nan, smallest].      *)
(***************************************************************************)

\* choice_permitted
FloatPermitted(x, con) ==
  IF Magnitude(x) = NaN THEN con.nan
  ELSE ~(Magnitude(x) \in 1 .. con.smallest - 1) /\ con.min <= x /\ x <= con.max

Clamp(lower, x, upper) ==
  IF ~SignAwareLte(lower, x) THEN lower ELSE IF ~SignAwareLte(x, upper) THEN upper ELSE x

\* make_float_clamper: a float that is not permitted is replaced by one resampled
\* from the bounds; its arithmetic may round up, or to zero, past the upper one.
Resampled(con) == con.min .. (IF con.max < 0 THEN 0 ELSE NextUp(con.max, "wide"))
Clamped(x, resampled, con) ==
  LET tiny == Magnitude(resampled) \in 1 .. con.smallest - 1
      away == IF con.smallest > con.max THEN Negated(con.smallest) ELSE con.smallest
  IN  IF FloatPermitted(x, con) THEN x
      ELSE Clamp(con.min, IF tiny THEN away ELSE resampled, con.max)
=============================================================================
