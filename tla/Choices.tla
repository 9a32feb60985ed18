------------------------------- MODULE Choices -------------------------------
(***************************************************************************)
(* The values of single choices: how complex each is among those that its  *)
(* constraints permit (internal/conjecture/choice.py), how many there are  *)
(* (datatree.py), how floats are ordered (conjecture/floats.py), and the   *)
(* bytes that a sequence of choices is stored as (database.py).            *)
(*                                                                         *)
(* A choice is [type, value].  Characters are named by their place in the  *)
(* shrink order of their alphabet (module Text has the order), and floats  *)
(* by their magnitude as in module Floats: an exponent of ExponentBits and *)
(* a mantissa of MantissaBits.  A byte of the store is a number below 32:  *)
(* three bits of tag and two of size, so that sizes from 3 on spill into   *)
(* the bytes that follow, where the code has five bits of size.            *)
(***************************************************************************)
EXTENDS Floats, Sequences, SequencesExt

CONSTANTS ExponentBits, MantissaBits,
          SimpleBits,    \* integers of so many bits are floats in simple form
          Many,          \* MAX_CHILDREN_EFFECTIVELY_INFINITE
          Constraints,   \* what choices are asked for
          Values(_),     \* some values for either of them
          Serial,        \* bound: the constraints of test cases of several choices
          MaxNodes       \* bound: the choices of a test case

VARIABLES nodes,   \* the choices made so far, and what was asked of each
          stored   \* the entry of the database: {} or one sequence of bytes

vars == <<nodes, stored>>

The(S) == CHOOSE x \in S : TRUE
Distance(a, b) == IF a < b THEN b - a ELSE a - b

-----------------------------------------------------------------------------
(***************************************************************************)
(* Integers: con.min and con.max hold at most one bound.                   *)
(***************************************************************************)
Towards(con) ==
  LET above == IF con.min # {} /\ The(con.min) > con.towards THEN The(con.min) ELSE con.towards
  IN  IF con.max # {} /\ The(con.max) < above THEN The(con.max) ELSE above

ZigzagIndex(v, towards) == 2 * Distance(v, towards) - (IF v > towards THEN 1 ELSE 0)
ZigzagValue(i, towards) ==
  IF i % 2 = 0 THEN towards - (i + 1) \div 2 ELSE towards + (i + 1) \div 2

\* Which bound the zigzag around towards meets first, if any.
LowFirst(con, towards) ==
  con.min # {} /\ (con.max = {} \/ towards - The(con.min) < The(con.max) - towards)
HighFirst(con, towards) == con.max # {} /\ ~LowFirst(con, towards)

\* Mutant: the zigzag is left one step before its bound is reached.
IntegerToIndexEarly(v, con, towards) ==
  CASE LowFirst(con, towards) /\ Distance(v, towards) >= towards - The(con.min) -> v - The(con.min)
    [] HighFirst(con, towards) /\ Distance(v, towards) > The(con.max) - towards -> The(con.max) - v
    [] OTHER -> ZigzagIndex(v, towards)

IntegerToIndex(v, con, towards) ==
  CASE LowFirst(con, towards) /\ Distance(v, towards) > towards - The(con.min) -> v - The(con.min)
    [] HighFirst(con, towards) /\ Distance(v, towards) > The(con.max) - towards -> The(con.max) - v
    [] OTHER -> ZigzagIndex(v, towards)
IntegerFromIndex(i, con, towards) ==
  CASE LowFirst(con, towards) /\ i > ZigzagIndex(The(con.min), towards) -> i + The(con.min)
    [] HighFirst(con, towards) /\ i > ZigzagIndex(The(con.max), towards) -> The(con.max) - i
    [] OTHER -> ZigzagValue(i, towards)

-----------------------------------------------------------------------------
(***************************************************************************)
(* Strings and bytes: sequences over an alphabet of a given size.          *)
(***************************************************************************)
SizeToIndex(size, alphabet) ==
  CASE alphabet = 0 -> 0
    [] alphabet = 1 -> size
    [] OTHER -> (alphabet ^ size - 1) \div (alphabet - 1)

\* _index_to_size: the integer logarithm, however it is computed.
IndexToSize(index, alphabet) ==
  CASE alphabet = 0 -> 0
    [] alphabet = 1 -> index
    [] OTHER -> CHOOSE n \in 0 .. index :
                  /\ alphabet ^ n <= index * (alphabet - 1) + 1
                  /\ alphabet ^ (n + 1) > index * (alphabet - 1) + 1

CollectionIndex(s, con) ==
  LET step(index, c) == index * con.alphabet + c
  IN  SizeToIndex(Len(s), con.alphabet) - SizeToIndex(con.least, con.alphabet) + FoldLeft(step, 0, s)

Digits(index, size, alphabet) ==
  [i \in 1 .. size |-> IF index = 0 THEN 0 ELSE (index \div alphabet ^ (size - i)) % alphabet]
CollectionValue(index, con) ==
  LET all == index + SizeToIndex(con.least, con.alphabet)
      size == IndexToSize(all, con.alphabet)
  IN  Digits(all - SizeToIndex(size, con.alphabet), size, con.alphabet)

-----------------------------------------------------------------------------
(***************************************************************************)
(* Floats: the lexicographic encoding, in which simple integers come first *)
(* and then exponents from 0 up, negative ones, and the largest.           *)
(***************************************************************************)
Bias == 2 ^ (ExponentBits - 1) - 1
MaxExponent == 2 ^ ExponentBits - 1
Tag == 2 ^ (ExponentBits + MantissaBits)

ExponentKey(e) ==
  IF e = MaxExponent THEN 20000 ELSE IF e < Bias THEN 10000 + Bias - e ELSE e - Bias
EncodeExponent(e) == Cardinality({f \in 0 .. MaxExponent : ExponentKey(f) < ExponentKey(e)})
DecodeExponent(i) == CHOOSE e \in 0 .. MaxExponent : EncodeExponent(e) = i

ReverseBits(x, n) == FoldLeft(LAMBDA r, i : (2 * r) + ((x \div 2 ^ (i - 1)) % 2), 0, [i \in 1 .. n |-> i])
UpdateMantissa(unbiased, mantissa) ==
  LET Fractional(n) == mantissa - (mantissa % 2 ^ n) + ReverseBits(mantissa % 2 ^ n, n)
  IN  CASE unbiased <= 0 -> Fractional(MantissaBits)
        [] unbiased \in 1 .. MantissaBits - 1 -> Fractional(MantissaBits - unbiased)
        [] OTHER -> mantissa

\* The number that a magnitude stands for, in units of the smallest one.
Units(m) ==
  LET e == m \div 2 ^ MantissaBits
      mantissa == m % 2 ^ MantissaBits
  IN  IF e = 0 THEN mantissa ELSE (2 ^ MantissaBits + mantissa) * 2 ^ (e - 1)
One == 2 ^ (Bias + MantissaBits - 1)

IsSimple(m) == m < Infinity /\ Units(m) % One = 0 /\ Units(m) \div One < 2 ^ SimpleBits

FloatToLex(m) ==
  LET e == m \div 2 ^ MantissaBits
  IN  IF IsSimple(m) THEN Units(m) \div One
      ELSE Tag + EncodeExponent(e) * 2 ^ MantissaBits
               + UpdateMantissa(e - Bias, m % 2 ^ MantissaBits)
LexToFloat(i) ==
  LET e == DecodeExponent((i % Tag) \div 2 ^ MantissaBits)
  IN  IF i < Tag THEN CHOOSE m \in 0 .. Infinity - 1 : Units(m) = (i % 2 ^ SimpleBits) * One
      ELSE e * 2 ^ MantissaBits + UpdateMantissa(e - Bias, i % 2 ^ MantissaBits)

\* NaN with its sign bit set: the sign goes into the index, but not back again, as
\* -1 * nan keeps the bits of nan (Negated).
NegativeNaN == -NaN - 1
FloatToIndex(x) == (IF Negative(x) THEN 2 * Tag ELSE 0) + FloatToLex(Magnitude(x))
SignedFromIndex(i) ==
  IF i < 2 * Tag THEN LexToFloat(i) ELSE Negated(LexToFloat(i - 2 * Tag))

-----------------------------------------------------------------------------
(***************************************************************************)
(* All types.                                                              *)
(***************************************************************************)

\* choice_permitted.  A boolean is told by p how likely it is: "hardly" and "surely"
\* are within 2 ** -64 of "never" and "always".
Permitted(v, con) ==
  CASE con.type = "integer" -> (\A n \in con.min : n <= v) /\ (\A n \in con.max : v <= n)
    [] con.type = "boolean" -> (con.p = "never" => v = 0) /\ (con.p = "always" => v = 1)
    [] con.type = "float" -> FloatPermitted(v, con)
    [] OTHER -> Len(v) \in con.least .. con.most /\ \A i \in DOMAIN v : v[i] < con.alphabet

\* choice_to_index
ToIndex(v, con) ==
  CASE con.type = "integer" -> IntegerToIndex(v, con, Towards(con))
    [] con.type = "boolean" -> IF con.p = "maybe" THEN v ELSE 0
    [] con.type = "float" -> FloatToIndex(v)
    [] OTHER -> CollectionIndex(v, con)

\* choice_from_index: what it may return, as a float that is not permitted is
\* resampled from the bounds.
FromIndex(i, con) ==
  CASE con.type = "integer" -> {IntegerFromIndex(i, con, Towards(con))}
    [] con.type = "boolean" ->
         {IF con.p \in {"never", "hardly"} THEN 0 ELSE IF con.p \in {"surely", "always"} THEN 1 ELSE i}
    [] con.type = "float" -> {Clamped(SignedFromIndex(i), r, con) : r \in Resampled(con)}
    [] OTHER -> {CollectionValue(i, con)}

\* ChoiceNode.trivial of a node that was not forced.
CeilUnits(x) ==
  IF Negative(x) THEN -(Units(Magnitude(x)) \div One) ELSE (Units(Magnitude(x)) + One - 1) \div One
FloorUnits(x) ==
  IF Negative(x) THEN -((Units(Magnitude(x)) + One - 1) \div One) ELSE Units(Magnitude(x)) \div One
Integral(n) ==
  LET m == CHOOSE k \in 0 .. Infinity - 1 : Units(k) = Distance(n, 0) * One
  IN  IF n < 0 THEN Negated(m) ELSE m

\* Mutant: values are compared as numbers, to which both zeros are the same.
TrivialFloatByNumber(v, con) ==
  \/ Infinite(con.min) /\ Infinite(con.max) /\ Number(v) = 0
  \/ /\ ~Infinite(con.min) /\ ~Infinite(con.max)
     /\ CeilUnits(con.min) <= FloorUnits(con.max)
     /\ Number(v) = Number(Integral(Towards([towards |-> 0, min |-> {CeilUnits(con.min)}, max |-> {FloorUnits(con.max)}])))

TrivialFloat(v, con) ==
  \/ Infinite(con.min) /\ Infinite(con.max) /\ v = 0
  \/ /\ ~Infinite(con.min) /\ ~Infinite(con.max)
     /\ CeilUnits(con.min) <= FloorUnits(con.max)
     /\ v = Integral(Towards([towards |-> 0, min |-> {CeilUnits(con.min)}, max |-> {FloorUnits(con.max)}]))
Trivial(v, con) ==
  IF con.type = "float" THEN TrivialFloat(v, con) ELSE FromIndex(0, con) = {v}

-----------------------------------------------------------------------------
(***************************************************************************)
(* The children of a node of the choice tree.                              *)
(***************************************************************************)
CountDistinctStrings(con) ==
  LET S(n) == con.alphabet ^ (n + 1) - 1
  IN  CASE con.alphabet = 0 -> 1
        [] con.alphabet = 1 -> con.most - con.least + 1
        [] OTHER -> IF con.alphabet ^ con.most > Many THEN Many
                    ELSE (S(con.most) - S(con.least - 1)) \div S(0)

\* Python's max and min, which return the first of two zeros.
Later(x, y) == IF Number(y) > Number(x) THEN y ELSE x
Sooner(x, y) == IF Number(y) < Number(x) THEN y ELSE x
CountBetweenFloats(x, y) == y - x + 1
Zeros(con) == {z \in {-1, 0} : SignAwareLte(con.min, z) /\ SignAwareLte(z, con.max)}

\* Mutant: a zero among the floats that are too small is not counted.
CountFloatsButZero(con) ==
  LET tiny == NextDown(con.smallest, "wide")
      from == Later(con.min, Negated(tiny))
      to == Sooner(con.max, tiny)
  IN  IF Number(from) > Number(to) THEN CountBetweenFloats(con.min, con.max)
      ELSE CountBetweenFloats(con.min, con.max) - CountBetweenFloats(from, to) + 1

CountFloats(con) ==
  LET tiny == NextDown(con.smallest, "wide")
      from == Later(con.min, Negated(tiny))
      to == Sooner(con.max, tiny)
  IN  IF Number(from) > Number(to) THEN CountBetweenFloats(con.min, con.max)
      ELSE CountBetweenFloats(con.min, con.max) - CountBetweenFloats(from, to) + Cardinality(Zeros(con))

\* compute_max_children, of constraints that leave finitely many values
MaxChildren(con) ==
  CASE con.type = "integer" -> The(con.max) - The(con.min) + 1
    [] con.type = "boolean" -> IF con.p = "maybe" THEN 2 ELSE 1
    [] con.type = "float" -> CountFloats(con)
    [] OTHER -> CountDistinctStrings(con)

\* _floats_between counts up in bits, of which the sign is the highest.
Bits(x) == IF Negative(x) THEN Tag + Magnitude(x) ELSE x
OfBits(n) == IF n < Tag THEN n ELSE Tag - n - 1
FloatsBetween(x, y) == [i \in 1 .. Bits(y) - Bits(x) + 1 |-> OfBits(Bits(x) + i - 1)]

AllFloats(con) ==
  SelectSeq(<<-1, 0>>, LAMBDA z : z \in Zeros(con)) \o
  (CASE Negative(con.min) /\ Negative(con.max) ->
          FloatsBetween(Sooner(con.max, Negated(con.smallest)), con.min)
     [] Negative(con.min) /\ ~Negative(con.max) ->
          FloatsBetween(Negated(con.smallest), con.min) \o FloatsBetween(con.smallest, con.max)
     [] OTHER -> FloatsBetween(Later(con.min, con.smallest), con.max))

AllChildren(con) ==
  IF con.type = "float" THEN AllFloats(con)
  ELSE [i \in 1 .. MaxChildren(con) |-> The(FromIndex(i - 1, con))]

-----------------------------------------------------------------------------
(***************************************************************************)
(* choices_to_bytes, and what is read back.  Sizes are packed two bits to  *)
(* a byte that says by 16 whether another one follows.                     *)
(***************************************************************************)
PackUleb(n) == IF n < 4 THEN <<n>> ELSE IF n < 16 THEN <<16 + (n % 4), n \div 4>>
               ELSE <<16 + (n % 4), 16 + ((n \div 4) % 4), n \div 16>>

BitLength(n) == CHOOSE b \in 0 .. 20 : 2 ^ b > Distance(n, 0) /\ (b > 0 => 2 ^ (b - 1) <= Distance(n, 0))
BigEndian(n, size) == [i \in 1 .. size |-> (n \div 32 ^ (size - i)) % 32]
SignedBytes(n, size) == BigEndian(IF n < 0 THEN n + 32 ^ size ELSE n, size)

\* Two characters of two bytes each, and the others of one: a byte from 24 on leads,
\* and one in 16 .. 23 continues.
Encoded(c) == IF c < 2 THEN <<c>> ELSE <<24 + c, 16 + c>>

\* The tag of a choice and its payload; True and False are tags of their own.
Tags == [float |-> 1, integer |-> 2, bytes |-> 3, string |-> 4]
Payload(c) ==
  CASE c.type = "float" -> BigEndian(Bits(c.value), 2)
    [] c.type = "integer" -> SignedBytes(c.value, 1 + BitLength(c.value) \div 5)
    [] c.type = "bytes" -> c.value
    [] OTHER -> FlattenSeq([i \in DOMAIN c.value |-> Encoded(c.value[i])])
\* Mutant: the size that announces a longer one is written in place.
HeaderInPlace(tag, size) ==
  IF size <= 3 THEN <<tag * 4 + size>> ELSE <<tag * 4 + 3>> \o PackUleb(size)

Header(tag, size) == IF size < 3 THEN <<tag * 4 + size>> ELSE <<tag * 4 + 3>> \o PackUleb(size)
ToBytes(c) ==
  IF c.type = "boolean" THEN <<c.value>>
  ELSE Header(Tags[c.type], Len(Payload(c))) \o Payload(c)
ChoicesToBytes(choices) == FlattenSeq([i \in DOMAIN choices |-> ToBytes(choices[i])])

\* _unpack_uleb128: [size, rest], or nothing where no byte is left to read.
UnpackUleb(b) ==
  LET last == {i \in DOMAIN b : b[i] < 16}
      n == IF last = {} THEN Len(b) ELSE CHOOSE i \in last : \A j \in last : i <= j
      add(i, sum) == sum + ((b[i] % 16) * 4 ^ (i - 1))
  IN  IF b = <<>> THEN {}
      ELSE {[size |-> FoldSet(add, 0, 1 .. n), rest |-> SubSeq(b, n + 1, Len(b))]}

ReadHeader(b) ==
  IF b[1] % 4 = 3 /\ b[1] \div 4 # 0 THEN UnpackUleb(Tail(b)) ELSE {[size |-> b[1] % 4, rest |-> Tail(b)]}

BigNumber(chunk) == FoldLeft(LAMBDA n, d : (32 * n) + d, 0, chunk)
Signed(chunk) ==
  IF chunk # <<>> /\ chunk[1] >= 16 THEN BigNumber(chunk) - 32 ^ Len(chunk) ELSE BigNumber(chunk)

\* The characters of a chunk, or nothing if it does not decode.
Decoded(chunk) ==
  LET leads == {i \in DOMAIN chunk : chunk[i] >= 24}
      follow == {i \in DOMAIN chunk : chunk[i] \in 16 .. 23}
      char(i) == IF i \in follow THEN <<chunk[i] - 16>> ELSE IF i \in leads THEN <<>> ELSE <<chunk[i]>>
  IN  IF follow # {i + 1 : i \in leads} THEN {} ELSE {FlattenSeq([i \in DOMAIN chunk |-> char(i)])}

\* What one tag and its chunk are read as: a set of at most one choice.
Read(tag, size, chunk) ==
  CASE tag = 0 -> {[type |-> "boolean", value |-> IF size = 0 THEN 0 ELSE 1]}
    [] tag = 1 -> IF size = 2 /\ Len(chunk) = 2
                  THEN {[type |-> "float", value |-> OfBits(BigNumber(chunk) % (2 * Tag))]} ELSE {}
    [] tag = 2 -> {[type |-> "integer", value |-> Signed(chunk)]}
    [] tag = 3 -> {[type |-> "bytes", value |-> chunk]}
    [] tag = 4 -> {[type |-> "string", value |-> v] : v \in Decoded(chunk)}
    [] OTHER -> {}

\* choices_from_bytes: at most one sequence, {} for None.  reading[b] are the choices
\* that the bytes b hold.
ChoicesFromBytes(bytes) ==
  LET reading[n \in 0 .. Len(bytes)] ==
        LET b == SubSeq(bytes, Len(bytes) - n + 1, Len(bytes))
        IN  IF n = 0 THEN {<<>>}
            ELSE UNION {LET size == IF b[1] \div 4 = 0 THEN 0
                                    ELSE IF h.size < Len(h.rest) THEN h.size ELSE Len(h.rest)
                        IN  {<<c>> \o later :
                               c \in Read(b[1] \div 4, h.size, SubSeq(h.rest, 1, size)),
                               later \in reading[Len(h.rest) - size]} : h \in ReadHeader(b)}
  IN  reading[Len(bytes)]

-----------------------------------------------------------------------------
Init == nodes = <<>> /\ stored = {}

\* A choice is made among those that its constraints permit.
Choose(con, v) ==
  /\ stored = {} /\ Len(nodes) < MaxNodes
  /\ nodes # <<>> => {con, Head(nodes).of} \subseteq Serial
  /\ Permitted(v, con)
  /\ nodes' = Append(nodes, [of |-> con, value |-> v])
  /\ UNCHANGED stored

Chosen == [i \in DOMAIN nodes |-> [type |-> nodes[i].of.type, value |-> nodes[i].value]]

\* The test case is saved; a process that dies while it writes in place leaves any
\* beginning of the bytes.
Save ==
  /\ stored = {} /\ \A i \in DOMAIN nodes : nodes[i].of \in Serial
  /\ stored' = {ChoicesToBytes(Chosen)}
  /\ UNCHANGED nodes
Tear ==
  /\ \E b \in stored : b # <<>> /\ stored' = {Front(b)}
  /\ UNCHANGED nodes

Next == (\E con \in Constraints : \E v \in Values(con) : Choose(con, v)) \/ Save \/ Tear

Spec == Init /\ [][Next]_vars

-----------------------------------------------------------------------------
\* The order that choice_to_index documents: for integers "(|a - x|, sgn(a - x))",
\* for collections "the number of values of each size", and in one size "ab" before
\* "ba".
Simpler(v, w, con) ==
  CASE con.type = "integer" ->
         LET a == Towards(con)
         IN  Distance(v, a) < Distance(w, a) \/ (Distance(v, a) = Distance(w, a) /\ v > w)
    [] con.type = "boolean" -> v < w
    [] OTHER -> \/ Len(v) < Len(w)
                \/ /\ Len(v) = Len(w)
                   /\ \E i \in DOMAIN v : v[i] < w[i] /\ \A j \in 1 .. i - 1 : v[j] = w[j]

\* The values around v, of which some are permitted.
Around(v, con) ==
  CASE con.type = "integer" -> LET d == Distance(v, Towards(con)) IN Towards(con) - d .. Towards(con) + d
    [] con.type = "boolean" -> {0, 1}
    [] con.type = "float" -> Floats \cup {NegativeNaN}
    [] OTHER -> UNION {[1 .. n -> 0 .. con.alphabet - 1] : n \in con.least .. Len(v)}

\* "returns the complexity index of that choice from among its possible values,
\* where 0 is the simplest ... choice_from_index inverts this function": the index of
\* an integer, a boolean or a collection is the number of permitted values that are
\* simpler, whatever bounds cut into the zigzag, and every value is found again by its
\* index.  Of floats, which "do not currently respect" that both functions are
\* injective, this says that no two have one index and that each but the NaN with a
\* sign is found again.  It is the inverse that is not injective: an index that no
\* permitted float has is clamped to a float that has another one.
IndexIsPlace ==
  \A n \in {nodes[i] : i \in {Len(nodes)} \cap {1}} :
    (n.of.type = "boolean" => n.of.p \notin {"hardly", "surely"}) =>
      /\ FromIndex(ToIndex(n.value, n.of), n.of) =
           {IF n.of.type = "float" /\ n.value = NegativeNaN THEN NaN ELSE n.value}
      /\ IF n.of.type = "float"
         THEN \A w \in Around(n.value, n.of) \ {n.value} :
                Permitted(w, n.of) => ToIndex(w, n.of) # ToIndex(n.value, n.of)
         ELSE ToIndex(n.value, n.of) =
                Cardinality({w \in Around(n.value, n.of) : Permitted(w, n.of) /\ Simpler(w, n.value, n.of)})

\* "A node is trivial if it cannot be simplified any further": the shrinker skips
\* trivial nodes, so no permitted value may come before one.  And the simplest value,
\* which takes the place of a choice that does not fit, fits itself.
TrivialIsSimplest ==
  \A n \in {nodes[i] : i \in {Len(nodes)} \cap {1}} :
    /\ \A v \in FromIndex(0, n.of) : Permitted(v, n.of)
    /\ Trivial(n.value, n.of) =>
         \A w \in Around(n.value, n.of) :
           Permitted(w, n.of) => ToIndex(n.value, n.of) <= ToIndex(w, n.of)

\* "assert len(all_children(...)) == compute_max_children(...)", which the code leaves
\* as a comment: the tree is exhausted when so many children are, and draws those it
\* has not seen from the list, so both must be every permitted value, once.  NaN is
\* counted by neither.
Finite(con) ==
  CASE con.type = "integer" -> con.min # {} /\ con.max # {}
    [] con.type = "boolean" -> con.p \notin {"hardly", "surely"}
    [] con.type = "float" -> TRUE
    [] OTHER -> MaxChildren(con) < Many
Every(con) ==
  CASE con.type = "integer" -> The(con.min) .. The(con.max)
    [] con.type = "boolean" -> {0, 1}
    [] con.type = "float" -> Floats \ {NaN}
    [] OTHER -> UNION {[1 .. n -> 0 .. con.alphabet - 1] : n \in con.least .. con.most}
ChildrenAreEnumerated ==
  nodes = <<>> => \A con \in Constraints :
    Finite(con) =>
      \A all \in {AllChildren(con)} :
        /\ Len(all) = MaxChildren(con)
        /\ ToSet(all) = {v \in Every(con) : Permitted(v, con)}
        /\ IsInjective(all)

\* What is saved is read back; and of an entry that was torn, nothing or its
\* beginning: whatever comes before the last choice that is read is as it was saved.
TornEntriesLoseTheEnd ==
  \A b \in stored : \A back \in {ChoicesFromBytes(b)} :
    /\ b = ChoicesToBytes(Chosen) => \E s \in back : Len(s) = Len(Chosen)
    /\ \A s \in back :
         /\ Len(s) <= Len(Chosen)
         /\ \A i \in DOMAIN s :
              i < Len(s) \/ b = ChoicesToBytes(Chosen) =>
                s[i].type = Chosen[i].type /\ s[i].value = Chosen[i].value
=============================================================================
