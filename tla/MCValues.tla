------------------------------- MODULE MCValues -------------------------------
(***************************************************************************)
(* The strategies that turn their arguments into the values they draw, in  *)
(* small instances for TLC; a behavior is one of                           *)
(* - Numbers: magnitudes 0..12, of which the last is infinite, the narrow  *)
(*   floats every other one from 4 on, bounds of either sign around them.  *)
(***************************************************************************)
EXTENDS Integers, TLC

CONSTANTS Conditions, MaxFilters, MaxTextSteps

VARIABLES part, number, promised, filters

Widths == {"narrow", "wide"}

Real(n, as) == [at |-> n, minus |-> FALSE, as |-> as]
Float(x) == [at |-> IF x < 0 THEN 3 * (x + 1) ELSE 3 * x, minus |-> x = -1, as |-> "float"]
GivenBounds == {Float(x) : x \in {-13, -7, -4, -2, -1, 0, 1, 3, 6, 12}}
               \cup {Real(0, "int"), Real(10, "frac"), Real(3, "int")}
FewBounds == {Float(-5), Float(0), Float(6), Float(12), Real(2, "frac")}
MaybeOne(S) == {{}} \cup {{r} : r \in S}
Answers == {"unset", "yes", "no"}

IntegerCalls ==
  [of : {"integers"}, exmin : {FALSE}, exmax : {FALSE},
   min : MaybeOne({Real(n, "int") : n \in {-6, 0, 3}} \cup {Real(4, "frac")}),
   max : MaybeOne({Real(n, "int") : n \in {-6, 3, 9}})]
FloatCalls ==
  [of : {"floats"}, min : MaybeOne(GivenBounds), max : MaybeOne(GivenBounds), exmin : BOOLEAN,
   exmax : BOOLEAN, nan : {"unset", "yes"}, infinity : Answers, subnormal : Answers, width : Widths]
MCCalls ==
  IntegerCalls
  \cup {c \in FloatCalls : IF c.width = "wide" THEN c.infinity = "unset" /\ c.subnormal = "unset" /\ c.nan = "unset"
                           ELSE c.nan = "unset" /\ c.min \cup c.max \subseteq FewBounds}

Nums == INSTANCE Numbers WITH
  Infinity <- 12, Narrow <- {0, 4, 6, 8, 10, 12}, Normal <- [narrow |-> 6, wide |-> 3], Calls <- MCCalls
NumberVars == <<number, promised, filters>>

-----------------------------------------------------------------------------
\* Conditions: single comparisons, and conjunctions of two.
Comparisons(S) == [op : {"<", "<=", "==", ">=", ">"}, real : S] \cup {[op |-> "opaque"]}
Asking(one, two) ==
  [form : {"partial"}, of : {<<c>> : c \in one}]
  \cup [form : {"lambda"}, of : {<<c>> : c \in one} \cup {<<c, d>> : c, d \in two}]
  \cup [form : {"isfinite", "isinf", "isnan"}]

\* A condition that is known to be rewritten wrongly (see FilteredAsDocumented, and
\* the README) is left out, and nothing else: for floats, a bound that is no float, an
\* excluded zero with the zero next to it on the refused side, and an infinity that as
\* a bound is trivial or cannot be passed; for integers, an integral bound written as
\* a float and not excluded.
Infinities == {Float(12).at, Float(-13).at}
Fine(is, c) ==
  \/ c.op = "opaque"
  \/ IF is = "integers"
     THEN c.real.as # "float" \/ c.real.at % 3 # 0 \/ c.op \in {"<", ">"} \/ c.real.at \in Infinities
     ELSE /\ c.real.at % 3 = 0
          /\ ~(c.real.at = 0 /\ c.op = IF c.real.minus THEN ">" ELSE "<")
          /\ ~(c.op \in {"<=", ">"} /\ c.real.at = Float(12).at)
          /\ ~(c.op \in {">=", "<"} /\ c.real.at = Float(-13).at)
Outer == GivenBounds \ {Float(-4), Float(1), Float(6)}
Inner == {Float(0), Real(2, "frac"), Real(3, "int")}
MCConditions ==
  [is \in {"integers", "floats"} |->
     Asking({c \in Comparisons(Outer) : Fine(is, c)},
            {c \in Comparisons(Inner) : Fine(is, c)})]
\* All of them; with the infinities left out, which fail in ways of their own.
AllConditions ==
  [is \in {"integers", "floats"} |->
     Asking(Comparisons({r \in Outer : r.at \notin Infinities}), Comparisons(Inner))]

-----------------------------------------------------------------------------
VARIABLES query, made, text, wanted, steps

MCCategory == <<"Lu", "Nd", "Lu", "Lu", "Nd", "Cs", "Lu">> @@ (0 :> "Cc")
MCMajor == [Cc |-> "C", Cs |-> "C", Lu |-> "L", Nd |-> "N"]
MCEncodable == [ascii |-> 0 .. 4] @@ ("utf-8" :> 0 .. 7 \ {6}) @@ [legacy |-> {1, 2, 4, 5, 7}]
MCRoundTrips == [MCEncodable EXCEPT !.legacy = {1, 2, 5, 7}]
MCCharacters ==
  {c \in [codec : {"none", "ascii", "utf-8", "legacy"}, min : {{}, {3}}, max : {{}, {5}},
          categories : {{}, {{}}, {{"C"}}, {{"Lu", "Cs"}}}, without : {{}, {{"L"}}},
          include : {{}, {0, 4}}, exclude : {{}, {2, 3, 7}}] :
     /\ c.categories = {} \/ c.without = {} \/ c.codec = "none"
     /\ c.min = {} => c.max = {} \/ c.categories = {}}
Chars(kind, chars) == [kind |-> kind, chars |-> chars, of |-> <<>>]
MCAlphabets ==
  {Chars("chars", {}), Chars("chars", {0, 2, 3}), Chars("sampled", {1, 2}), Chars("mapped", {1, 2}),
   Chars("other", {3, 4}),
   [kind |-> "one_of", chars |-> {}, of |-> <<Chars("chars", {1, 2}), Chars("sampled", {3})>>],
   [kind |-> "one_of", chars |-> {}, of |-> <<Chars("chars", {1, 2}), Chars("mapped", {3})>>]}
MCTextConditions ==
  [is : {"nonempty", "content", "isidentifier"}, min : {0}, max : {0}, kept : {FALSE}]
  \cup [is : {"size"}, min : 0 .. 2, max : 0 .. 3, kept : BOOLEAN]

Texts == INSTANCE Text WITH
  Points <- 8, Zero <- 2, Z <- 4, Category <- MCCategory, Major <- MCMajor, Encodable <- MCEncodable,
  RoundTrips <- MCRoundTrips, IdStart <- {1, 3, 4, 7}, IdContinue <- {1, 2, 3, 4, 5, 7}, Longest <- 3,
  Calls <- MCCharacters, Alphabets <- MCAlphabets, Sizes <- [min : 0 .. 2, max : 2 .. 3] \cup [min : {0}, max : 0 .. 1],
  Conditions <- MCTextConditions, MaxCalls <- MaxTextSteps
TextVars == <<query, made, text, wanted, steps>>

-----------------------------------------------------------------------------
\* Choices: floats with three bits of exponent and two of mantissa, of which 29 is NaN
\* and -30 the one with a sign.
VARIABLES nodes, stored

MCIntegers ==
  {[type |-> "integer", towards |-> t, min |-> a, max |-> b] :
     t \in {-3, 0, 2}, a \in {{}, {-4}, {0}, {3}}, b \in {{}, {-2}, {1}, {5}}}
  \cup {[type |-> "integer", towards |-> 0, min |-> {}, max |-> {40000}]}
MCFloats ==
  {c \in [type : {"float"}, min : {-29, -1, 0, 9}, max : {-13, -1, 20, 28}, nan : BOOLEAN,
          smallest : {1, 4}] : c.min <= c.max /\ (c.nan => c.min = -29 /\ c.max = 28)}
Collection(type, alphabet, least, most) ==
  [type |-> type, alphabet |-> alphabet, least |-> least, most |-> most]
MCSerial ==
  {[type |-> "integer", towards |-> 0, min |-> {}, max |-> {40000}],
   [type |-> "float", min |-> -29, max |-> 28, nan |-> TRUE, smallest |-> 1],
   [type |-> "boolean", p |-> "maybe"], Collection("bytes", 1, 0, 17), Collection("string", 3, 0, 3)}
MCConstraints ==
  {c \in MCIntegers : \A a \in c.min, b \in c.max : a <= b} \cup MCFloats \cup MCSerial
  \cup [type : {"boolean"}, p : {"never", "hardly", "maybe", "surely", "always"}]
  \cup {Collection("string", 0, 0, 2), Collection("string", 1, 1, 3), Collection("bytes", 2, 0, 3),
        Collection("bytes", 2, 2, 3), Collection("string", 3, 1, 2)}
MCValuesOf(con) ==
  CASE con \in MCSerial ->
         (CASE con.type = "integer" -> {0, 15, -16, -700, 40000}
            [] con.type = "float" -> {-30, -1, 17, 29}
            [] con.type = "boolean" -> {0, 1}
            [] con.type = "bytes" -> {<<>>, <<0>>, [i \in 1 .. 5 |-> 0], [i \in 1 .. 17 |-> 0]}
            [] con.type = "string" -> {<<0>>, <<2, 2>>, <<2, 0, 2>>})
    [] con.type = "integer" -> -9 .. 9
    [] con.type = "boolean" -> {0, 1}
    [] con.type = "float" -> -30 .. 29
    [] OTHER -> UNION {[1 .. n -> 0 .. con.alphabet - 1] : n \in con.least .. con.most}

Choice == INSTANCE Choices WITH
  Infinity <- 28, Narrow <- {}, Normal <- [narrow |-> 4, wide |-> 4], ExponentBits <- 3, MantissaBits <- 2,
  SimpleBits <- 3, Many <- 1000, Constraints <- MCConstraints, Values <- MCValuesOf, Serial <- MCSerial,
  MaxNodes <- 2
ChoiceVars == <<nodes, stored>>

-----------------------------------------------------------------------------
ValuesInit(parts) == part \in parts /\ Nums!Init /\ Texts!Init /\ Choice!Init
valuesVars == <<part, NumberVars, TextVars, ChoiceVars>>

ValuesNext ==
  \/ part = "numbers" /\ Nums!Next /\ UNCHANGED <<part, TextVars, ChoiceVars>>
  \/ part = "text" /\ Texts!Next /\ UNCHANGED <<part, NumberVars, ChoiceVars>>
  \/ part = "choices" /\ Choice!Next /\ UNCHANGED <<part, NumberVars, TextVars>>

ValuesSpec == ValuesInit({"numbers", "text", "choices"}) /\ [][ValuesNext]_valuesVars
NumbersSpec == ValuesInit({"numbers"}) /\ [][ValuesNext]_valuesVars
ChoicesSpec == ValuesInit({"choices"}) /\ [][ValuesNext]_valuesVars
TextSpec == ValuesInit({"text"}) /\ [][ValuesNext]_valuesVars

\* The properties of the modules; each says what it is.
DrawsWhatIsAsked == part = "numbers" => Nums!DrawsWhatIsAsked
FilteredAsDocumented == part = "numbers" => Nums!FilteredAsDocumented
NothingIsFilteredAway == part = "numbers" => Nums!NothingIsFilteredAway
IntervalsAreCanonical == part = "text" => Texts!IntervalsAreCanonical
CharactersAsDocumented == part = "text" => Texts!CharactersAsDocumented
FilteredTextIsExact == part = "text" => Texts!FilteredTextIsExact
NeverAlwaysEmpty == part = "text" => Texts!NeverAlwaysEmpty
IndexIsPlace == part = "choices" => Choice!IndexIsPlace
TrivialIsSimplest == part = "choices" => Choice!TrivialIsSimplest
ChildrenAreEnumerated == part = "choices" => Choice!ChildrenAreEnumerated
TornEntriesLoseTheEnd == part = "choices" => Choice!TornEntriesLoseTheEnd
=============================================================================
