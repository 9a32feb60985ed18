----------------------------- MODULE Shrinking ------------------------------
(***************************************************************************)
(* The value shrinkers of internal/conjecture/shrinking and find_integer   *)
(* of junkdrawer.py.                                                       *)
(*                                                                         *)
(* A shrinker improves one value and asks a predicate about every value it *)
(* considers.  In the program a predicate runs the test and may change the *)
(* state of its owner, so here it takes the owner and gives [ok, s], and   *)
(* every shrinker gives [cur, own]: its best value and what became of the  *)
(* owner.                                                                  *)
(***************************************************************************)
EXTENDS Integers, Sequences, FiniteSets, SequencesExt

\* find_integer: some n with f(n) true and f(n + 1) false, by a linear scan to 4,
\* an exponential probe, and a binary search between lo and hi.
FindInteger(f(_, _), start) ==
  LET RECURSIVE Search(_, _, _, _)
      Probed(lo, hi, bounded, k, r) ==
        IF ~r.ok THEN Search(lo, k, TRUE, r.s)
        ELSE Search(k, IF bounded THEN hi ELSE IF k < 5 THEN k + 1 ELSE 2 * k, bounded, r.s)
      Search(lo, hi, bounded, s) ==
        LET k == IF bounded THEN (lo + hi) \div 2 ELSE hi
        IN  IF bounded /\ lo + 1 >= hi THEN [n |-> lo, s |-> s]
            ELSE Probed(lo, hi, bounded, k, f(s, k))
  IN  Search(0, 1, FALSE, start)

\* Shrinker.consider, on the state [cur, seen, own] of a shrinker.
Consider(Better(_, _), Try(_, _), s, v) ==
  LET known == [s EXCEPT !.seen = @ \cup {v}]
      Tried(t) == [ok |-> t.ok, s |-> [known EXCEPT !.own = t.s, !.cur = IF t.ok THEN v ELSE @]]
  IN  IF v = s.cur THEN [ok |-> TRUE, s |-> s]
      ELSE IF v \in s.seen THEN [ok |-> FALSE, s |-> s]
      ELSE IF ~Better(v, s.cur) THEN [ok |-> FALSE, s |-> known]
      ELSE Tried(Try(s.own, v))

No(s) == [ok |-> FALSE, s |-> s]
Begin(v, own) == [cur |-> v, seen |-> {v}, own |-> own]

\* int.bit_length
BitLength(n) == CHOOSE k \in 0 .. n : n < 2^k /\ (k = 0 \/ n >= 2^(k - 1))

(***************************************************************************)
(* Integer                                                                 *)
(***************************************************************************)
IntegerShrink(initial, Try(_, _), own) ==
  LET Take(s, n) == Consider(LAMBDA a, b : a < b, Try, s, n)
      End(s) == [cur |-> s.cur, own |-> s.own]
      MaskHighBits(s) ==
        LET n == BitLength(s.cur)
        IN  FindInteger(LAMBDA t, k : IF k >= n THEN No(t) ELSE Take(t, s.cur % 2^(n - k)), s).s
      OneByte(s) ==
        IF BitLength(s.cur) <= 8 THEN s
        ELSE LET Low(t) == Take(t, t.cur % 256).s
             IN  Low(Take(s, s.cur \div 2^(BitLength(s.cur) - 8)).s)
      ShiftRight(s) ==
        FindInteger(LAMBDA t, k : IF k > BitLength(t.cur) THEN No(t) ELSE Take(t, s.cur \div 2^k),
                    s).s
      ByMultiples(s, m) ==
        FindInteger(LAMBDA t, k : IF s.cur - k * m < 0 THEN No(t) ELSE Take(t, s.cur - k * m), s).s
      Long(s) == IF s.cur = 2 THEN End(s)
                 ELSE End(FoldLeft(ByMultiples, ShiftRight(s), <<2, 1>>))
      AfterOne(r)  == IF r.ok THEN End(r.s) ELSE Long(OneByte(MaskHighBits(r.s)))
      AfterZero(r) == IF r.ok THEN End(r.s) ELSE AfterOne(Take(r.s, 1))
  IN  AfterZero(Take(Begin(initial, own), 0))

(***************************************************************************)
(* Ordering: Less compares by key; the elements themselves are numbers.    *)
(***************************************************************************)
Sorted(seq, Less(_, _)) ==
  LET Insert(acc, e) == LET n == Cardinality({i \in DOMAIN acc : ~Less(e, acc[i])})
                        IN  SubSeq(acc, 1, n) \o <<e>> \o SubSeq(acc, n + 1, Len(acc))
  IN  FoldLeft(Insert, <<>>, seq)

Lexicographic(Less(_, _), a, b) ==
  \E i \in DOMAIN a : Less(a[i], b[i]) /\ \A j \in 1 .. i - 1 : ~Less(a[j], b[j]) /\ ~Less(b[j], a[j])

OrderingShrink(initial, Less(_, _), Try(_, _), own) ==
  LET n == Len(initial)
      Take(s, v) == Consider(LAMBDA a, b : Lexicographic(Less, a, b), Try, s, v)
      End(s) == [cur |-> s.cur, own |-> s.own]
      RECURSIVE Regions(_, _)
      Region(s, i) ==
        FindInteger(LAMBDA t, k : IF i + k > n THEN No(t)
                      ELSE Take(t, SubSeq(s.cur, 1, i)
                                   \o Sorted(SubSeq(t.cur, i + 1, i + k), Less)
                                   \o SubSeq(t.cur, i + k + 1, n)), s)
      Onwards(i, r) == Regions(r.s, i + r.n)
      Regions(s, i) == IF i + 1 >= n THEN s ELSE Onwards(i, Region(s, i))   \* i are done
      \* sort the elements after a up to b around the one at i
      Around(s, i, a, b) ==
        LET values == Sorted(SubSeq(s.cur, a + 1, i - 1) \o SubSeq(s.cur, i + 1, b),
                             LAMBDA x, y : x < y)
            split == i - 1 - a
        IN  IF a < 0 \/ b > n THEN No(s)
            ELSE Take(s, SubSeq(s.cur, 1, a) \o SubSeq(values, 1, split) \o <<s.cur[i]>>
                         \o SubSeq(values, split + 1, Len(values)) \o SubSeq(s.cur, b + 1, n))
      Left(i, right) == FindInteger(LAMBDA t, k : Around(t, i, i - 1 - k, i + right.n), right.s).s
      WithGaps(s, i) ==
        IF s.cur[i - 1] <= s.cur[i] /\ s.cur[i] <= s.cur[i + 1] THEN s
        ELSE Left(i, FindInteger(LAMBDA t, k : Around(t, i, i - 1, i + k), s))
      Sort(all) == IF all.ok THEN End(all.s)
                   ELSE End(FoldLeft(WithGaps, Regions(all.s, 0), [i \in 1 .. n - 2 |-> i + 1]))
  IN  Sort(Take(Begin(initial, own), Sorted(initial, Less)))
=====
