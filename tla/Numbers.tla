------------------------------- MODULE Numbers -------------------------------
(***************************************************************************)
(* integers() and floats() of strategies/_internal/numbers.py, and how     *)
(* internal/filtering.py turns the conditions they are filtered by into    *)
(* bounds: a strategy is made, filtered a few times, and stands for the    *)
(* values it can draw.                                                     *)
(*                                                                         *)
(* A real number that somebody wrote is [at, minus, as]: at in thirds (see *)
(* Floats), minus for -0.0, and its type in as.  A condition is a sequence *)
(* of comparisons of the argument with such numbers, as the body of a      *)
(* lambda (a chain or a conjunction) or as one functools.partial; or one   *)
(* of math.isfinite, isinf and isnan.                                      *)
(***************************************************************************)
EXTENDS Floats, SequencesExt

CONSTANTS Conditions,   \* what strategies are filtered by
          Calls,        \* the arguments integers() and floats() are called with
          MaxFilters    \* bound: how often a strategy is filtered

VARIABLES number,       \* the strategy
          promised,     \* the values that it should be able to draw
          filters

vars == <<number, promised, filters>>

Float(x) == [at |-> Number(x), minus |-> x = -1, as |-> "float"]
MinusInf == Float(Negated(Infinity))
PlusInf == Float(Infinity)
FloatOf(real, w) == IF real.minus THEN -1 ELSE Rounded(real.at, w)

-----------------------------------------------------------------------------
(***************************************************************************)
(* internal/filtering.py.  Constraints hold a bound or none in min and     *)
(* max; kept says that the condition still has to be asked.                *)
(***************************************************************************)
Unchanged == [min |-> {}, max |-> {}, exmin |-> FALSE, exmax |-> FALSE, kept |-> TRUE]

\* comp_to_constraints, and the options of get_numeric_predicate_bounds.
Constraint(op, real) ==
  [min |-> IF op \in {">=", ">", "=="} THEN {real} ELSE {},
   max |-> IF op \in {"<=", "<", "=="} THEN {real} ELSE {},
   exmin |-> op = ">", exmax |-> op = "<", kept |-> FALSE]

\* Mutant: a tighter bound keeps the exclusion of the looser one.
MergeLoosely(cs) ==
  LET Tighter(acc, c) ==
        LET below == \E b \in c.min : \A a \in acc.min : b.at > a.at
            above == \E b \in c.max : \A a \in acc.max : b.at < a.at
        IN  [kept |-> acc.kept \/ c.kept,
             min |-> IF below THEN c.min ELSE acc.min, exmin |-> acc.exmin \/ c.exmin,
             max |-> IF above THEN c.max ELSE acc.max, exmax |-> acc.exmax \/ c.exmax]
      all == FoldLeft(Tighter, [Unchanged EXCEPT !.min = {MinusInf}, !.max = {PlusInf},
                                                 !.kept = FALSE], cs)
  IN  [all EXCEPT !.min = IF ~all.exmin /\ @ = {MinusInf} THEN {} ELSE @,
                  !.max = IF ~all.exmax /\ @ = {PlusInf} THEN {} ELSE @]

\* merge_preds: of two bounds the tighter one, and of equal ones the first, excluded
\* if either is; the infinite bounds are dropped unless they are excluded.
Merge(cs) ==
  LET Tighter(acc, c) ==
        LET below == \E b \in c.min : \A a \in acc.min : b.at > a.at
            level == \E b \in c.min : \A a \in acc.min : b.at = a.at
            above == \E b \in c.max : \A a \in acc.max : b.at < a.at
            even  == \E b \in c.max : \A a \in acc.max : b.at = a.at
        IN  [kept |-> acc.kept \/ c.kept,
             min |-> IF below THEN c.min ELSE acc.min,
             exmin |-> IF below THEN c.exmin ELSE acc.exmin \/ (level /\ c.exmin),
             max |-> IF above THEN c.max ELSE acc.max,
             exmax |-> IF above THEN c.exmax ELSE acc.exmax \/ (even /\ c.exmax)]
      all == FoldLeft(Tighter, [Unchanged EXCEPT !.min = {MinusInf}, !.max = {PlusInf},
                                                 !.kept = FALSE], cs)
  IN  [all EXCEPT !.min = IF ~all.exmin /\ @ = {MinusInf} THEN {} ELSE @,
                  !.max = IF ~all.exmax /\ @ = {PlusInf} THEN {} ELSE @]

\* get_numeric_predicate_bounds, numeric_bounds_from_ast: what cannot be analysed is
\* asked as it is.
NumericBounds(condition) ==
  LET Of(c) == IF c.op = "opaque" THEN Unchanged ELSE Constraint(c.op, c.real)
  IN  IF condition.form = "partial" THEN Of(condition.of[1])
      ELSE Merge([i \in DOMAIN condition.of |-> Of(condition.of[i])])

Floor(real) == real.at \div 3
Ceil(real) == -((-real.at) \div 3)
Whole(real) == real.at % 3 = 0
TheOne(S) == CHOOSE x \in S : TRUE

\* get_integer_predicate_bounds: a bound that is no integer is rounded inwards; one
\* that is, is left as it was written unless it is excluded.
IntegerBounds(c) ==
  LET Lowest(b) == IF ~Whole(b) THEN [at |-> 3 * Ceil(b), minus |-> FALSE, as |-> "int"]
                ELSE IF c.exmin THEN [at |-> b.at + 3, minus |-> FALSE, as |-> "int"] ELSE b
      Highest(b) == IF ~Whole(b) THEN [at |-> 3 * Floor(b), minus |-> FALSE, as |-> "int"]
                ELSE IF c.exmax THEN [at |-> b.at - 3, minus |-> FALSE, as |-> "int"] ELSE b
      One(n) == [at |-> n, minus |-> FALSE, as |-> "int"]
  IN  IF PlusInf.at \in {b.at : b \in c.min} \/ MinusInf.at \in {b.at : b \in c.max}
      THEN [Unchanged EXCEPT !.min = {One(3)}, !.max = {One(-3)}, !.kept = FALSE]
      ELSE [c EXCEPT !.min = {Lowest(b) : b \in {b \in @ : b.at # MinusInf.at}},
                     !.max = {Highest(b) : b \in {b \in @ : b.at # PlusInf.at}}]

\* get_float_predicate_bounds: the first float that satisfies a bound.
FloatBounds(c) ==
  LET Lowest(b) == LET x == FloatOf(b, "wide")
                IN  IF b.at < Number(x) \/ (b.at = Number(x) /\ c.exmin) THEN NextUp(x, "wide") ELSE x
      Highest(b) == LET x == FloatOf(b, "wide")
                IN  IF b.at > Number(x) \/ (b.at = Number(x) /\ c.exmax) THEN NextDown(x, "wide") ELSE x
  IN  [min |-> {Lowest(b) : b \in c.min}, max |-> {Highest(b) : b \in c.max}, kept |-> c.kept]

-----------------------------------------------------------------------------
(***************************************************************************)
(* The strategies.  A value of integers() is an integer, one of floats() a *)
(* float; rejected are the values that a condition that is asked refuses.  *)
(***************************************************************************)
IntegerValues == -5 .. 5
Values(is) == IF is = "integers" THEN IntegerValues ELSE Floats

Holds(op, at, bound) ==
  CASE op = "<" -> at < bound [] op = "<=" -> at <= bound [] op = "==" -> at = bound
    [] op = ">=" -> at >= bound [] op = ">" -> at > bound

\* Whether a value satisfies a condition; no comparison holds for NaN.
Satisfies(condition, is, v) ==
  LET nan == is = "floats" /\ v = NaN
      at == IF is = "integers" THEN 3 * v ELSE Number(v)
      Comparison(c) == IF c.op = "opaque" THEN at % 2 = 0 ELSE Holds(c.op, at, c.real.at)
  IN  CASE condition.form = "isfinite" -> ~nan /\ (is = "integers" \/ ~Infinite(v))
        [] condition.form = "isinf" -> ~nan /\ is = "floats" /\ Infinite(v)
        [] condition.form = "isnan" -> nan
        [] OTHER -> ~nan /\ \A i \in DOMAIN condition.of : Comparison(condition.of[i])

Refused(condition, is) == {v \in Values(is) : ~Satisfies(condition, is, v)}
Ended(how) == [is |-> how]

\* SearchStrategy.filter: ask the condition of every value.
Asked(s, condition) == [s EXCEPT !.rejected = @ \cup Refused(condition, s.is)]

\* IntegersStrategy.filter; the constructor asserts that its bounds are of type int.
Differ(S, T) == {b.at : b \in S} # {b.at : b \in T}
Rebound(s, condition, kept, lo, hi) ==
  IF Differ(lo, s.lo) \/ Differ(hi, s.hi)
  THEN IF \E a \in lo, b \in hi : a.at > b.at THEN Ended("nothing")
       ELSE IF \E b \in lo \cup hi : b.as # "int" THEN Ended("AssertionError")
       ELSE [s EXCEPT !.lo = lo, !.hi = hi,
                      !.rejected = @ \cup IF kept THEN Refused(condition, s.is) ELSE {}]
  ELSE IF kept THEN Asked(s, condition) ELSE s

FilterIntegers(s, condition, c) ==
  CASE condition.form = "isfinite" -> s
    [] condition.form \in {"isinf", "isnan"} -> Ended("nothing")
    [] OTHER ->
         Rebound(s, condition, c.kept,
                 IF \E a \in c.min : \A b \in s.lo : a.at >= b.at THEN c.min ELSE s.lo,
                 IF \E a \in c.max : \A b \in s.hi : a.at <= b.at THEN c.max ELSE s.hi)

\* max and min of two floats: the first, if they are equal.
MaxOf(x, y) == IF Number(y) > Number(x) THEN y ELSE x
MinOf(x, y) == IF Number(y) < Number(x) THEN y ELSE x

\* What a bound becomes when the subnormal numbers next to zero cannot be drawn.
UpToNormal(x, smallest) ==
  IF Magnitude(x) \in 1 .. smallest - 1 THEN (IF Negative(x) THEN -1 ELSE smallest) ELSE x
DownToNormal(x, smallest) ==
  IF Magnitude(x) \in 1 .. smallest - 1 THEN (IF Negative(x) THEN Negated(smallest) ELSE 0) ELSE x

\* FloatStrategy.filter; without constraints the condition that is still to be asked
\* may be None, which fails when it is called.
Tightened(s, min, max) ==
  IF \/ Number(min) > Number(s.min) \/ Number(max) < Number(s.max)
     \/ s.nan /\ (min # Negated(Infinity) \/ max # Infinity)
  THEN [s EXCEPT !.min = min, !.max = max, !.nan = FALSE] ELSE s
Within(s, condition, kept, min, max) ==
  IF Number(min) > Number(max) THEN Ended("nothing")
  ELSE IF kept THEN Asked(Tightened(s, min, max), condition) ELSE Tightened(s, min, max)

FilterFloats(s, condition, c, infinities) ==
  CASE condition.form = "isfinite" ->
         [s EXCEPT !.min = MaxOf(@, NextUp(Negated(Infinity), "wide")),
                   !.max = MinOf(@, NextDown(Infinity, "wide")), !.nan = FALSE]
    [] condition.form = "isinf" ->
         IF infinities = {} THEN Ended("nothing") ELSE [s EXCEPT !.only = infinities]
    [] condition.form = "isnan" -> IF s.nan THEN [s EXCEPT !.only = {NaN}] ELSE Ended("nothing")
    [] OTHER ->
         IF c.min = {} /\ c.max = {}
         THEN IF c.kept THEN Asked(s, condition) ELSE Ended("TypeError")
         ELSE Within(s, condition, c.kept,
                UpToNormal(MaxOf(IF c.min = {} THEN Negated(Infinity) ELSE TheOne(c.min), s.min), s.smallest),
                DownToNormal(MinOf(IF c.max = {} THEN Infinity ELSE TheOne(c.max), s.max), s.smallest))

\* FilteredStrategy.filter hands the condition to the strategy it filters; the values
\* of a MappedStrategy and of SampledFromStrategy are asked.
Filtered(s, condition) ==
  CASE s.is = "integers" -> FilterIntegers(s, condition, IntegerBounds(NumericBounds(condition)))
    [] s.is = "floats" /\ s.width = "wide" /\ s.only = {} ->
         FilterFloats(s, condition, FloatBounds(NumericBounds(condition)),
                      {x \in {Negated(Infinity), Infinity} : s.min <= x /\ x <= s.max})
    [] s.is = "floats" -> Asked(s, condition)
    [] OTHER -> s

-----------------------------------------------------------------------------
(***************************************************************************)
(* integers() and floats(): what they make of their arguments, and what    *)
(* their documentation says of the values.                                 *)
(***************************************************************************)
Bounded(at, call) ==
  /\ \A b \in call.min : IF call.exmin THEN at > b.at ELSE at >= b.at
  /\ \A b \in call.max : IF call.exmax THEN at < b.at ELSE at <= b.at

Made(of) == [is |-> "integers", lo |-> of.min, hi |-> of.max, rejected |-> {}]

MakeIntegers(call) ==
  IF \/ \E b \in call.min \cup call.max : ~Whole(b)
     \/ \E a \in call.min, b \in call.max : a.at > b.at
  THEN Ended("InvalidArgument")
  ELSE LET AsInt(S) == {[at |-> b.at, minus |-> FALSE, as |-> "int"] : b \in S}
       IN  Made([min |-> AsInt(call.min), max |-> AsInt(call.max)])

\* Mutant: of two zeros only the one that was given is excluded.
AboveOnce(call, b) ==
  LET x == FloatOf(b, call.width)
  IN  IF call.exmin THEN NextUpNormal(x, call.width, call.subnormal # "no") ELSE x

\* The bounds as floats of the width, and past them if they are excluded: with a zero
\* both zeros are.
Above(call, b) ==
  LET Up(x) == NextUpNormal(x, call.width, call.subnormal # "no")
      Past(y) == IF Number(y) = b.at THEN Up(y) ELSE y
  IN  IF call.exmin THEN Past(Up(FloatOf(b, call.width))) ELSE FloatOf(b, call.width)
Below(call, b) ==
  LET Down(x) == NextDownNormal(x, call.width, call.subnormal # "no")
      Past(y) == IF Number(y) = b.at THEN Down(y) ELSE y
  IN  IF call.exmax THEN Past(Down(FloatOf(b, call.width))) ELSE FloatOf(b, call.width)

\* Whether a strategy may draw subnormal numbers, normal being the smallest other one.
Tiny(call, min, max, normal) ==
  CASE call.subnormal # "unset" -> call.subnormal = "yes"
    [] min # {} /\ min = max -> \A x \in min : -normal < Number(x) /\ Number(x) < normal
    [] OTHER -> (\A x \in min : Number(x) < normal) /\ (\A x \in max : Number(x) > -normal)

Invalid(call, min, max, tiny, normal) ==
  \/ call.nan = "yes" /\ call.min \cup call.max # {}
  \/ \E b \in call.min \cup call.max : Number(FloatOf(b, call.width)) # b.at
  \/ call.exmin /\ (call.min = {} \/ PlusInf \in call.min)
  \/ call.exmax /\ (call.max = {} \/ MinusInf \in call.max)
  \/ \E x \in min, y \in max : Number(x) > Number(y) \/ (x = 0 /\ y = -1)
  \/ call.infinity = "yes" /\ min # {} /\ max # {}
  \/ call.infinity = "no" /\ (Infinity \in min \/ Negated(Infinity) \in max)
  \/ tiny /\ ((\E x \in min : Number(x) >= normal) \/ (\E x \in max : Number(x) <= -normal))

FloatStrategy(call, min, max, tiny) ==
  LET infinity == IF call.infinity = "unset" THEN min = {} \/ max = {} ELSE call.infinity = "yes"
  IN  IF Invalid(call, min, max, tiny, Number(Normal[call.width])) THEN Ended("InvalidArgument")
      ELSE [is |-> "floats", width |-> call.width, only |-> {}, rejected |-> {},
            nan |-> call.nan = "yes" \/ (call.nan = "unset" /\ call.min \cup call.max = {}),
            min |-> IF min = {} THEN (IF infinity THEN Negated(Infinity) ELSE NextUp(Negated(Infinity), "wide"))
                    ELSE TheOne(min),
            max |-> IF max = {} THEN (IF infinity THEN Infinity ELSE NextDown(Infinity, "wide"))
                    ELSE TheOne(max),
            smallest |-> IF tiny THEN 1 ELSE Normal[call.width]]

Floaty(call, min, max) ==
  FloatStrategy(call, min, max, Tiny(call, min, max, Number(Normal[call.width])))

MakeFloats(call) ==
  Floaty(call, {Above(call, b) : b \in call.min} \ {Negated(Infinity)},
               {Below(call, b) : b \in call.max} \ {Infinity})

Documented(call) ==
  IF call.of = "integers" THEN {n \in IntegerValues : Bounded(3 * n, call)}
  ELSE {x \in OfWidth(call.width) :
          /\ Bounded(Number(x), call)
          /\ Infinite(x) => call.infinity # "no"
          /\ Magnitude(x) \in 1 .. Normal[call.width] - 1 => call.subnormal # "no"}
       \cup {NaN : c \in {c \in {call} : c.nan = "yes" \/ (c.nan = "unset" /\ c.min \cup c.max = {})}}

\* What a strategy can draw: whatever the clamper makes of a float, which a narrow
\* strategy rounds to its width, or rejects if it is too large.
Downcast(x, w) ==
  IF w = "wide" \/ x = NaN \/ Infinite(x) THEN {x}
  ELSE {y \in {IF Negative(x) THEN Negated(Rounded(Number(Negated(x)), w)) ELSE Rounded(Number(x), w)} :
          ~Infinite(y)}

\* No strategy at all, or one of which every draw is an error: make_float_clamper
\* asserts that its bounds are in order, which tells the zeros apart.
Fails(s) ==
  \/ s.is \in {"AssertionError", "TypeError"}
  \/ s.is = "floats" /\ s.only = {} /\ ~SignAwareLte(s.min, s.max)

Drawable(s) ==
  CASE s.is = "integers" -> {n \in IntegerValues : /\ \A b \in s.lo : 3 * n >= b.at
                                             /\ \A b \in s.hi : 3 * n <= b.at} \ s.rejected
    [] s.is = "floats" ->
         (IF s.only # {} THEN s.only
          ELSE IF Fails(s) THEN {}
          ELSE UNION {Downcast(z, s.width) : z \in {Clamped(x, y, s) : x \in Floats, y \in Resampled(s)}}) \ s.rejected
    [] OTHER -> {}

-----------------------------------------------------------------------------
Init == number = Ended("unmade") /\ promised = {} /\ filters = 0

Make == /\ number.is = "unmade"
        /\ \E call \in Calls :
             /\ number' = IF call.of = "integers" THEN MakeIntegers(call) ELSE MakeFloats(call)
             /\ promised' = IF number'.is = "InvalidArgument" THEN {} ELSE Documented(call)
        /\ UNCHANGED filters

Filter == /\ number.is \in {"integers", "floats"} /\ filters < MaxFilters
          /\ \E condition \in Conditions[number.is] :
               /\ number' = Filtered(number, condition)
               /\ promised' = promised \ Refused(condition, number.is)
          /\ filters' = filters + 1

Next == Make \/ Filter

Spec == Init /\ [][Next]_vars

-----------------------------------------------------------------------------
(***************************************************************************)
(* Properties.                                                             *)
(***************************************************************************)

\* The two ways to an error at every draw.  FloatStrategy.filter compares its bounds as
\* numbers, so that x >= 0.0 and x <= -0.0 leave a strategy from 0.0 to -0.0; and
\* math.isfinite moves the bound of one that has only an infinity past the other one.
Crossed(s, from, to) == s.is = "floats" /\ s.only = {} /\ s.min = from /\ s.max = to
ZerosCrossed(s) == Crossed(s, 0, -1)
InfinitiesCrossed(s) ==
  \/ Crossed(s, Infinity, NextDown(Infinity, "wide"))
  \/ Crossed(s, NextUp(Negated(Infinity), "wide"), Negated(Infinity))

\* The bounds that are subnormal where subnormal numbers are excluded: the clamper
\* falls back on them.
SubnormalBounds(s) ==
  IF s.is = "floats" THEN {x \in {s.min, s.max} : Magnitude(x) \in 1 .. s.smallest - 1} ELSE {}

\* Every value that a strategy can draw is one that its arguments and all the
\* conditions it was filtered by allow, but for a subnormal bound; and neither making
\* nor filtering a strategy leaves an error in place of values, but for crossed bounds.
DrawsWhatIsAsked ==
  /\ Fails(number) => ZerosCrossed(number) \/ InfinitiesCrossed(number)
  /\ Drawable(number) \ promised \subseteq SubnormalBounds(number)

\* What the documentation of filter() says, of every condition: a filtered strategy
\* generates values "which satisfy the provided condition".
FilteredAsDocumented == filters > 0 => Drawable(number) \subseteq promised

\* Rewriting a condition into bounds loses no value that satisfies it; of the two
\* zeros, which no condition can tell apart, one may go when the other can be drawn, and
\* both only where the bounds are crossed between them.
NothingIsFilteredAway ==
  \A v \in promised \ Drawable(number) :
    /\ v \in {-1, 0}
    /\ Negated(v) \in Drawable(number) \/ ZerosCrossed(number)
=============================================================================
