--------------------------------- MODULE Text ---------------------------------
(***************************************************************************)
(* Characters and text: the interval sets of internal/intervalsets.py, the *)
(* characters that characters() finds with charmap.query and its cache,    *)
(* the alphabets and the sizes of text(), and what filter() makes of them  *)
(* (strategies/_internal/strings.py).                                      *)
(*                                                                         *)
(* A code point is a number below Points; an interval set is the sequence  *)
(* of its intervals.  A string is a sequence of code points, of at most    *)
(* Longest: what text() draws when it is given no max_size.                *)
(***************************************************************************)
EXTENDS Integers, SequencesExt

CONSTANTS Points,           \* how many code points there are
          Zero, Z,          \* the code points of "0" and "Z"
          Category,         \* the general category of each code point
          Major,            \* the major class of each category
          Encodable,        \* for each codec, the characters it encodes
          RoundTrips,       \* and of those the ones that it decodes again
          IdStart, IdContinue, \* what str.isidentifier accepts
          Longest,
          Calls,            \* the arguments characters() is called with
          Alphabets,        \* what text() is called with
          Sizes,            \* the sizes it is called with
          Conditions,       \* the conditions text is filtered by
          MaxCalls          \* bound: calls of characters(), and filters

VARIABLES query,      \* limited_category_index_cache
          made,       \* the last call of characters(), and what it made
          text,       \* a strategy made by text()
          wanted,     \* the strings that it should draw
          steps

vars == <<query, made, text, wanted, steps>>

-----------------------------------------------------------------------------
(***************************************************************************)
(* class IntervalSet                                                       *)
(***************************************************************************)
Elements(x) == UNION {x[i][1] .. x[i][2] : i \in DOMAIN x}

\* offsets, with the size as the last.
Offsets(x) == [j \in 1 .. Len(x) + 1 |-> FoldLeft(LAMBDA n, p : n + p[2] - p[1] + 1, 0, SubSeq(x, 1, j - 1))]
Size(x) == Offsets(x)[Len(x) + 1]

\* __getitem__: the binary search finds the last offset that is not above i.
ItemAt(x, i) ==
  LET j == CHOOSE j \in DOMAIN x : Offsets(x)[j] <= i /\ (j = Len(x) \/ i < Offsets(x)[j + 1])
  IN  x[j][1] + i - Offsets(x)[j]

\* index
IndexOf(x, value) ==
  LET j == CHOOSE j \in DOMAIN x : x[j][1] <= value /\ value <= x[j][2]
  IN  Offsets(x)[j] + value - x[j][1]

\* index_above: the first interval that does not end before the value.
IndexAbove(x, value) ==
  LET J == {j \in DOMAIN x : value <= x[j][2]}
      j == CHOOSE j \in J : \A k \in J : j <= k
  IN  IF J = {} THEN Size(x)
      ELSE Offsets(x)[j] + IF x[j][1] >= value THEN 0 ELSE value - x[j][1]

Lower(p, q) == p[1] < q[1] \/ (p[1] = q[1] /\ p[2] < q[2])
Bigger(a, b) == IF a < b THEN b ELSE a
Smaller(a, b) == IF a < b THEN a ELSE b

\* Mutant: intervals that only touch stay apart.
JoinsOverlapping(p, q) == p[1] <= q[2]

\* union: an interval joins one before it that it overlaps or touches.
Joins(p, q) == p[1] <= q[2] + 1
Union(x, y) ==
  LET Add(result, p) ==
        IF result # <<>> /\ Joins(p, Last(result))
        THEN Front(result) \o <<<<Last(result)[1], Bigger(p[2], Last(result)[2])>>>>
        ELSE Append(result, p)
  IN  IF x = <<>> THEN y ELSE IF y = <<>> THEN x
      ELSE FoldLeft(Add, <<>>, SortSeq(x \o y, Lower))

\* difference: in parallel over x and y; lo is where what is left of x[i] begins.
Difference(x, y) ==
  LET From[i \in 1 .. Len(x) + 1, j \in 1 .. Len(y) + 1, lo \in 0 .. Points] ==
        IF i > Len(x) THEN <<>>
        ELSE LET hi == x[i][2]
                 next == IF i = Len(x) THEN 0 ELSE x[i + 1][1]
             IN  IF j > Len(y) THEN <<<<lo, hi>>>> \o From[i + 1, j, next]
                 ELSE IF y[j][2] < lo THEN From[i, j + 1, lo]
                 ELSE IF y[j][1] > hi THEN <<<<lo, hi>>>> \o From[i + 1, j, next]
                 ELSE (IF y[j][1] <= lo THEN <<>> ELSE <<<<lo, y[j][1] - 1>>>>)
                      \o (IF y[j][2] >= hi THEN From[i + 1, j, next]
                          ELSE From[i, j + 1, y[j][2] + 1])
  IN  IF y = <<>> \/ x = <<>> THEN x ELSE From[1, 1, x[1][1]]

\* intersection
Intersection(x, y) ==
  LET From[i \in 1 .. Len(x) + 1, j \in 1 .. Len(y) + 1] ==
        IF i > Len(x) \/ j > Len(y) THEN <<>>
        ELSE IF x[i][1] > y[j][2] THEN From[i, j + 1]
        ELSE IF y[j][1] > x[i][2] THEN From[i + 1, j]
        ELSE <<<<Bigger(x[i][1], y[j][1]), Smaller(x[i][2], y[j][2])>>>>
             \o IF x[i][2] < y[j][2] THEN From[i + 1, j] ELSE From[i, j + 1]
  IN  From[1, 1]

\* from_string
FromString(chars) ==
  LET sorted == SelectSeq([i \in 1 .. Points |-> i - 1], LAMBDA c : c \in chars)
      x == FoldLeft(LAMBDA acc, c : Append(acc, <<c, c>>), <<>>, sorted)
  IN  Union(x, x)

IdxOfZero(x) == IndexAbove(x, Zero)
IdxOfZ(x) == Smaller(IndexAbove(x, Z), Size(x) - 1)

\* char_in_shrink_order and its inverse: "0" to "Z" first, then what is below "0"
\* downwards, then the rest.
CharInShrinkOrder(x, i) ==
  LET n == IdxOfZ(x) - IdxOfZero(x)
  IN  ItemAt(x, IF i > IdxOfZ(x) THEN i ELSE IF i <= n THEN i + IdxOfZero(x)
                ELSE IdxOfZero(x) - (i - n))
IndexInShrinkOrder(x, c) ==
  LET i == IndexOf(x, c)
  IN  IF i > IdxOfZ(x) THEN i ELSE IF i >= IdxOfZero(x) THEN i - IdxOfZero(x)
      ELSE IdxOfZero(x) - i + IdxOfZ(x) - IdxOfZero(x)

-----------------------------------------------------------------------------
(***************************************************************************)
(* characters(), on a call [codec, min, max, categories, without, include, *)
(* exclude]: categories and without (exclude_categories) are sets of at    *)
(* most one set, the bounds sets of at most one number.                    *)
(***************************************************************************)
Categories == {Category[p] : p \in DOMAIN Category}
Invalid == [of |-> "InvalidArgument", chars |-> <<>>, quiet |-> TRUE]
TheOne(S) == CHOOSE x \in S : TRUE

\* as_general_categories
General(cats) == {c \in Categories : c \in cats \/ Major[c] \in cats}

\* charmap, _query_for_key
ForCategories(cats) == FromString({p \in 0 .. Points - 1 : Category[p] \in cats})

\* charmap.query, without its cache.
Queried(cats, lo, hi, exclude) ==
  LET limited == SelectSeq(ForCategories(cats), LAMBDA p : p[2] >= lo /\ p[1] <= hi)
  IN  Difference([i \in DOMAIN limited |->
                    <<Bigger(limited[i][1], lo), Smaller(limited[i][2], hi)>>], exclude)

\* OneCharStringStrategy.from_characters_args, with what charmap.query returned.
FromQuery(found, codec, include) ==
  LET encoded == IF codec = "none" THEN found ELSE Intersection(found, FromString(Encodable[codec]))
      lossy == IF codec = "none" THEN {} ELSE Encodable[codec] \ RoundTrips[codec]
      undecided == Difference(Intersection(encoded, FromString(lossy)), FromString(include))
  IN  IF Union(encoded, FromString(include)) = <<>> THEN Invalid
      ELSE [of |-> "characters", chars |-> Union(encoded, FromString(include)), quiet |-> undecided = <<>>]

\* characters(): what is refused, and what is asked of charmap.query.
Refusable(call) ==
  \/ call.categories # {} /\ call.without # {}
  \/ /\ call.min = {} /\ call.max = {} /\ call.categories = {} /\ call.without = {}
     /\ call.include # {} /\ call.codec = "none"
  \/ call.include \cap call.exclude # {}
  \/ call.include = {} /\ \E cats \in call.categories : General(cats) = {}
  \/ call.codec # "none" /\ ~(call.include \subseteq Encodable[call.codec])

Wanted(call) ==
  IF call.categories # {} THEN General(TheOne(call.categories))
  ELSE Categories \ UNION {General(cats) : cats \in call.without}

KeyWith(call, exclude) ==
  [cats |-> Wanted(call) \ (IF call.codec = "utf-8" THEN {"Cs"} ELSE {}),
   lo |-> IF call.min = {} THEN 0 ELSE TheOne(call.min),
   hi |-> Smaller(IF call.max = {} THEN Points - 1 ELSE TheOne(call.max),
                  IF call.codec = "ascii" THEN Cardinality(Encodable["ascii"]) - 1 ELSE Points - 1),
   exclude |-> exclude]

\* Mutant: the cache forgets which characters are excluded.
KeyWithoutExcluded(call) == KeyWith(call, <<>>)

\* The key of limited_category_index_cache.
Key(call) == KeyWith(call, FromString(call.exclude))

-----------------------------------------------------------------------------
\* What the cache says of a key, and otherwise what is computed.
Lookup(key, computed) ==
  IF \E e \in query : e.key = key THEN (CHOOSE e \in query : e.key = key).value ELSE computed

Characters(call, key) ==
  IF Refusable(call) \/ key.lo > key.hi
  THEN made' = [call |-> call, result |-> Invalid] /\ UNCHANGED query
  ELSE \E found \in {Lookup(key, Queried(key.cats, key.lo, key.hi, FromString(call.exclude)))} :
         /\ query' = query \cup {[key |-> key, value |-> found]}
         /\ made' = [call |-> call,
                     result |-> FromQuery(found, IF call.codec = "ascii" THEN "none" ELSE call.codec,
                                          call.include)]

CallCharacters ==
  /\ text.of = "unmade" /\ steps < MaxCalls
  /\ \E call \in Calls : Characters(call, Key(call))
  /\ steps' = steps + 1 /\ UNCHANGED <<text, wanted>>

-----------------------------------------------------------------------------
(***************************************************************************)
(* text().  An alphabet is [kind, chars, of]: a collection or characters() *)
(* ("chars"), sampled_from() with or without a map or a filter ("sampled", *)
(* "mapped"), any other strategy of characters ("other"), or a one_of().   *)
(***************************************************************************)
\* OneCharStringStrategy.from_alphabet: the intervals, or none if they are not known.
Resolved(alphabet) ==
  LET Known(a) == a.kind \in {"chars", "sampled"}
  IN  CASE Known(alphabet) -> {FromString(alphabet.chars)}
        [] alphabet.kind = "one_of" ->
             {FoldLeft(LAMBDA x, a : Union(x, FromString(a.chars)), <<>>, alphabet.of) :
                known \in {TRUE} \cap {\A i \in DOMAIN alphabet.of : Known(alphabet.of[i])}}
        [] OTHER -> {}

CharsOf(alphabet) ==
  IF alphabet.kind = "one_of" THEN UNION {alphabet.of[i].chars : i \in DOMAIN alphabet.of}
  ELSE alphabet.chars

Strings(chars, min, max) == UNION {[1 .. n -> chars] : n \in min .. max}
Values(S) == [of |-> "values", values |-> S]

\* text(): draw_string knows the intervals, a list draws its elements from the strategy.
MakeText ==
  /\ text.of = "unmade" /\ steps = 0
  /\ \E alphabet \in Alphabets, size \in Sizes :
       \E intervals \in IF Resolved(alphabet) = {} THEN {{}} ELSE {{x} : x \in Resolved(alphabet)} :
         /\ text' = IF (size.max = 0 \/ CharsOf(alphabet) = {}) /\ size.min = 0 THEN Values({<<>>})
                    ELSE [of |-> "text", fixed |-> intervals # {}, min |-> size.min, max |-> size.max,
                          chars |-> IF intervals = {} THEN CharsOf(alphabet)
                                    ELSE Elements(TheOne(intervals)),
                          refused |-> {}]
         /\ wanted' = Strings(CharsOf(alphabet), size.min, size.max)
  /\ UNCHANGED <<query, made, steps>>

\* A condition is [is, min, max, kept]: on the length if is is "size".
IsIdentifier(s) == s # <<>> /\ s[1] \in IdStart /\ \A i \in 2 .. Len(s) : s[i] \in IdContinue
Satisfies(condition, s) ==
  CASE condition.is = "nonempty" -> s # <<>>
    [] condition.is = "content" -> s # <<>> /\ \A i \in DOMAIN s : s[i] \in IdStart
    [] condition.is = "isidentifier" -> IsIdentifier(s)
    [] condition.is = "size" ->
         /\ condition.min <= Len(s) /\ Len(s) <= condition.max
         /\ condition.kept => s # <<Zero>>

Refused(condition) == {s \in Strings(0 .. Points - 1, 0, Longest) : ~Satisfies(condition, s)}
Asked(t, condition) == [t EXCEPT !.refused = @ \cup Refused(condition)]

\* ListStrategy.filter, which TextStrategy and BytesStrategy end in.
ListFilter(t, condition) ==
  CASE condition.is = "nonempty" ->
         IF t.max < 1 THEN [of |-> "AssertionError"] ELSE [t EXCEPT !.min = Bigger(1, @)]
    [] condition.is = "size" /\ Bigger(t.min, condition.min) <= Smaller(t.max, condition.max) ->
         LET new == [t EXCEPT !.min = Bigger(@, condition.min), !.max = Smaller(@, condition.max)]
         IN  IF condition.kept THEN Asked(new, condition) ELSE new
    [] OTHER -> Asked(t, condition)

\* Mutant: the rest of an identifier may be as long as the whole.
IdentifiersTooLong(t) ==
  Values({s \in {<<a>> \o r : a \in t.chars \cap IdStart, r \in Strings(t.chars \cap IdContinue, t.min, t.max - 1)} :
            IsIdentifier(s) /\ s \notin t.refused})

\* TextStrategy.filter(str.isidentifier): the first character, and a text of the others.
Identifiers(t) ==
  Values({s \in {<<a>> \o r : a \in t.chars \cap IdStart,
                              r \in Strings(t.chars \cap IdContinue, Bigger(0, t.min - 1), t.max - 1)} :
            IsIdentifier(s) /\ s \notin t.refused})

\* TextStrategy.filter, _string_filter_rewrite
Filtered(t, condition) ==
  CASE t.of = "values" -> Values(t.values \ Refused(condition))
    [] condition.is = "isidentifier" /\ t.max >= 1 /\ t.fixed -> Identifiers(t)
    [] condition.is = "content" /\ t.max >= 1 -> ListFilter([t EXCEPT !.min = Bigger(1, @)], condition)
    [] OTHER -> ListFilter(t, condition)

Filter ==
  /\ text.of \in {"text", "values"} /\ steps < MaxCalls
  /\ \E condition \in Conditions :
       /\ text' = Filtered(text, condition)
       /\ wanted' = wanted \ Refused(condition)
  /\ steps' = steps + 1 /\ UNCHANGED <<query, made>>

-----------------------------------------------------------------------------
Init == /\ query = {} /\ made = [call |-> "none", result |-> Invalid]
        /\ text = [of |-> "unmade"] /\ wanted = {} /\ steps = 0

Next == CallCharacters \/ MakeText \/ Filter

Spec == Init /\ [][Next]_vars

-----------------------------------------------------------------------------
(***************************************************************************)
(* Properties.                                                             *)
(***************************************************************************)

\* Every interval set is in the one form its elements have, so that sets can be compared
\* and counted by their intervals, and its order of the characters numbers each once.
Canonical(x) ==
  /\ \A i \in DOMAIN x : x[i][1] <= x[i][2] /\ (i > 1 => x[i - 1][2] + 1 < x[i][1])
  /\ {CharInShrinkOrder(x, i) : i \in 0 .. Size(x) - 1} = Elements(x)
  /\ \A c \in Elements(x) : CharInShrinkOrder(x, IndexInShrinkOrder(x, c)) = c
IntervalsAreCanonical == Canonical(made.result.chars) /\ \A e \in query : Canonical(e.value)

\* characters() draws what its documentation says, whatever was asked of the cache
\* before: what is included, and what satisfies all the other arguments; and unless it
\* warns, what was not included survives the codec.
Allowed(call, p) ==
  /\ \A m \in call.min : p >= m
  /\ \A m \in call.max : p <= m
  /\ \A cats \in call.categories : Category[p] \in General(cats)
  /\ \A cats \in call.without : Category[p] \notin General(cats)
  /\ p \notin call.exclude
  /\ call.codec # "none" => p \in Encodable[call.codec]
CharactersAsDocumented ==
  made.result.of = "characters" =>
    /\ Elements(made.result.chars)
         = made.call.include \cup {p \in 0 .. Points - 1 : Allowed(made.call, p)}
    /\ made.result.quiet /\ made.call.codec # "none" =>
         Elements(made.result.chars) \subseteq made.call.include \cup RoundTrips[made.call.codec]

\* However text is filtered, what it draws is what satisfies the conditions: no string
\* is lost by rewriting a condition, and none slips through.  (It may also fail: see
\* NeverAlwaysEmpty.)
Drawable(t) == IF t.of = "values" THEN t.values
               ELSE Strings(t.chars, t.min, Smaller(t.max, Longest)) \ t.refused
FilteredTextIsExact == text.of \in {"text", "values"} => Drawable(text) = wanted

\* collections.py asserts of a list that is filtered by bool that it may be non-empty.
NeverAlwaysEmpty == text.of # "AssertionError"
=============================================================================
