--------------------------- MODULE Spectrum_proof ---------------------------
(***************************************************************************)
(* Proofs about Spectrum for any records, feeds, places and frequencies:   *)
(* what an inquiry offers is exactly what is free, the grant screens let   *)
(* it through, and feeds leave the administrator's earth stations alone.   *)
(* First the folds the inquiry is computed with, then the inquiry, then    *)
(* the tables.                                                             *)
(***************************************************************************)
EXTENDS Spectrum, FiniteSetTheorems, SequenceTheorems, TLAPS

-----------------------------------------------------------------------------
(* Induction.                                                              *)

(* Numbers that are not below some bound have a least one.                 *)
LEMMA LeastNumber ==
    ASSUME NEW N \in SUBSET Int, N # {}, NEW b \in Int, \A n \in N : b <= n
    PROVE  \E k \in N : \A m \in N : k <= m
<1> DEFINE D == {n - b : n \in N}
<1>1. D \in SUBSET Nat /\ D # {}
  <2>1. \A n \in N : n - b \in Nat
    OBVIOUS
  <2> QED BY <2>1
<1>2. PICK k \in D : \A m \in D : <<m, k>> \notin OpToRel(<, Nat)
  <2> HIDE DEF D
  <2> QED BY <1>1, WFMin, NatLessThanWellFounded, Zenon
<1>3. \A m \in D : ~(m < k)
  <2> HIDE DEF D
  <2> QED BY <1>1, <1>2, Zenon DEF OpToRel
<1>4. \A m \in D : k <= m
  <2> HIDE DEF D
  <2>1. \A m \in D : m \in Nat /\ k \in Nat
    BY <1>1
  <2> QED BY <1>3, <2>1
<1>5. PICK n \in N : k = n - b
  OBVIOUS
<1>6. \A m \in N : n <= m
  <2> TAKE m \in N
  <2>1. m - b \in D
    OBVIOUS
  <2>2. k <= m - b
    BY <1>4, <2>1
  <2> HIDE DEF D
  <2> QED BY <1>5, <2>2
<1> QED BY <1>6

(* And numbers not above some bound a greatest one.                        *)
LEMMA GreatestNumber ==
    ASSUME NEW N \in SUBSET Int, N # {}, NEW b \in Int, \A n \in N : n <= b
    PROVE  \E k \in N : \A m \in N : m <= k
<1> DEFINE D == {0 - n : n \in N}
<1>1. D \in SUBSET Int /\ D # {} /\ 0 - b \in Int /\ \A d \in D : 0 - b <= d
  <2>1. \A n \in N : 0 - n \in Int /\ 0 - b <= 0 - n
    OBVIOUS
  <2>2. D \in SUBSET Int /\ D # {}
    BY <2>1
  <2>3. \A d \in D : 0 - b <= d
    BY <2>1
  <2> QED BY <2>2, <2>3
<1>2. PICK k \in D : \A m \in D : k <= m
  <2> HIDE DEF D
  <2> QED BY <1>1, LeastNumber
<1>3. PICK n \in N : k = 0 - n
  OBVIOUS
<1>4. \A m \in N : m <= n
  <2> TAKE m \in N
  <2>1. 0 - m \in D
    OBVIOUS
  <2>2. k <= 0 - m
    BY <1>2, <2>1
  <2> HIDE DEF D
  <2> QED BY <1>3, <2>2
<1> QED BY <1>4

(* Among subsets of a finite set, if there are bad ones, one is smallest.  *)
LEMMA SmallestBad ==
    ASSUME NEW S, IsFiniteSet(S), NEW Bad \in SUBSET (SUBSET S), Bad # {}
    PROVE  \E s \in Bad : \A t \in SUBSET s : t # s => t \notin Bad
<1>1. IsWellFoundedOn(StrictSubsetOrdering(S), SUBSET S)
  BY FS_StrictSubsetOrderingWellFounded, FS_FiniteSubsetsOfFinite
<1>2. PICK s \in Bad : \A t \in Bad : <<t, s>> \notin StrictSubsetOrdering(S)
  BY <1>1, WFMin, Zenon
<1>3. \A t \in SUBSET s : t \in Bad /\ t # s => <<t, s>> \in StrictSubsetOrdering(S)
  BY DEF StrictSubsetOrdering
<1>4. \A t \in SUBSET s : t # s => t \notin Bad
  BY <1>2, <1>3, Zenon
<1> QED BY <1>4, Zenon

(* What holds of no element, and of a set if it holds without one of its   *)
(* elements, holds of every subset of a finite set.                        *)
LEMMA Removing ==
    ASSUME NEW S, IsFiniteSet(S), NEW Good \in SUBSET (SUBSET S), {} \in Good,
           \A s \in SUBSET S : s # {} => \E x \in s : s \ {x} \in Good => s \in Good
    PROVE  \A s \in SUBSET S : s \in Good
<1> DEFINE Bad == {s \in SUBSET S : s \notin Good}
<1> SUFFICES ASSUME Bad # {} PROVE FALSE
  OBVIOUS
<1>1. Bad \in SUBSET (SUBSET S)
  OBVIOUS
<1>2. PICK s \in Bad : \A t \in SUBSET s : t # s => t \notin Bad
  <2> HIDE DEF Bad
  <2> QED BY <1>1, SmallestBad, Zenon
<1>3. s # {} /\ s \in SUBSET S
  BY <1>2
<1>4. PICK x \in s : s \ {x} \in Good => s \in Good
  BY <1>3
<1>5. s \ {x} \in Good
  BY <1>2, <1>3
<1> QED BY <1>2, <1>4, <1>5

(* The least of two numbers, and of a set of numbers that has one.         *)
LEMMA MinTwo ==
    ASSUME NEW a \in Int, NEW b \in Int
    PROVE  Min({a, b}) = IF a < b THEN a ELSE b
<1> DEFINE m == CHOOSE x \in {a, b} : \A y \in {a, b} : x <= y
<1>1. \E x \in {a, b} : \A y \in {a, b} : x <= y
  OBVIOUS
<1>2. m \in {a, b} /\ \A y \in {a, b} : m <= y
  BY <1>1, Zenon
<1>3. Min({a, b}) = m
  BY Zenon DEF Min
<1> HIDE DEF m
<1> QED BY <1>2, <1>3

(* And the greatest of two.                                                *)
LEMMA MaxTwo ==
    ASSUME NEW a \in Int, NEW b \in Int
    PROVE  Max({a, b}) = IF a < b THEN b ELSE a
<1> DEFINE m == CHOOSE x \in {a, b} : \A y \in {a, b} : x >= y
<1>1. \E x \in {a, b} : \A y \in {a, b} : x >= y
  OBVIOUS
<1>2. m \in {a, b} /\ \A y \in {a, b} : m >= y
  BY <1>1, Zenon
<1>3. Max({a, b}) = m
  BY Zenon DEF Max
<1> HIDE DEF m
<1> QED BY <1>2, <1>3

(* The least of a set of numbers none of which is below a bound.           *)
LEMMA MinOf ==
    ASSUME NEW N \in SUBSET Int, N # {}, NEW b \in Int, \A n \in N : b <= n
    PROVE  Min(N) \in N /\ \A y \in N : Min(N) <= y
<1> DEFINE m == CHOOSE x \in N : \A y \in N : x <= y
<1>1. \E x \in N : \A y \in N : x <= y
  BY LeastNumber
<1>2. m \in N /\ \A y \in N : m <= y
  BY <1>1, Zenon
<1>3. Min(N) = m
  BY Zenon DEF Min
<1> HIDE DEF m
<1> QED BY <1>2, <1>3

(* A set of numbers bounded from above contains its greatest.              *)
LEMMA MaxOf ==
    ASSUME NEW N \in SUBSET Int, N # {}, NEW b \in Int, \A n \in N : n <= b
    PROVE  Max(N) \in N
<1> DEFINE m == CHOOSE x \in N : \A y \in N : x >= y
<1>1. \E x \in N : \A y \in N : x >= y
  <2>1. PICK x \in N : \A y \in N : y <= x
    BY GreatestNumber
  <2>2. \A y \in N : x >= y
    BY <2>1
  <2> QED BY <2>2
<1>2. m \in N
  BY <1>1, Zenon
<1>3. Max(N) = m
  BY Zenon DEF Max
<1> HIDE DEF m
<1> QED BY <1>2, <1>3

-----------------------------------------------------------------------------
(* Folds.                                                                  *)

(* The table of a fold: an element is picked from each set, and the fold   *)
(* without it comes first.                                                 *)
Picks(pick, S) == \A s \in SUBSET S : s # {} => pick[s] \in s
IsFold(h, S, V, base, op, pick) ==
    /\ h \in [SUBSET S -> V]
    /\ \A s \in SUBSET S :
          h[s] = IF s = {} THEN base ELSE op[pick[s]][h[s \ {pick[s]}]]

(* A recursion over the subsets of a finite set has a solution.            *)
LEMMA FoldTable ==
    ASSUME NEW S, IsFiniteSet(S), NEW V, NEW base \in V, NEW op \in [S -> [V -> V]],
           NEW pick, Picks(pick, S)
    PROVE  \E h : IsFold(h, S, V, base, op, pick)
<1> DEFINE Upto(n) == {s \in SUBSET S : Cardinality(s) <= n}
           Solves(h, D) == \A s \in D : h[s] = IF s = {} THEN base
                                               ELSE op[pick[s]][h[s \ {pick[s]}]]
           Solved(n) == \E h \in [Upto(n) -> V] : Solves(h, Upto(n))
           Bad == {n \in Nat : ~Solved(n)}
<1>0. \A s \in SUBSET S : IsFiniteSet(s) /\ Cardinality(s) \in Nat
  BY FS_Subset, FS_CardinalityType
<1>1. Solved(0)
  <2> DEFINE h == [s \in Upto(0) |-> base]
  <2>1. \A s \in Upto(0) : s = {}
    BY <1>0, FS_EmptySet
  <2>2. Solves(h, Upto(0)) /\ h \in [Upto(0) -> V]
    BY <2>1
  <2> QED BY <2>2
<1>2. ASSUME NEW n \in Nat, Solved(n) PROVE Solved(n + 1)
  <2>1. PICK g \in [Upto(n) -> V] : Solves(g, Upto(n))
    BY <1>2
  <2> DEFINE D == Upto(n + 1)
             h == [s \in D |-> IF s = {} THEN base ELSE op[pick[s]][g[s \ {pick[s]}]]]
  <2>2. ASSUME NEW s \in D, s # {} PROVE s \ {pick[s]} \in Upto(n)
    <3>1. pick[s] \in s /\ IsFiniteSet(s) /\ Cardinality(s) \in Nat
      BY <1>0, <2>2 DEF Picks
    <3>2. Cardinality(s \ {pick[s]}) = Cardinality(s) - 1
      <4>1. \A x \in s : Cardinality(s \ {x}) = Cardinality(s) - 1
        <5> HIDE DEF Upto
        <5> QED BY <3>1, FS_RemoveElement
      <4> QED BY <3>1, <4>1
    <3>3. s \ {pick[s]} \in SUBSET S
      OBVIOUS
    <3> QED BY <2>2, <3>1, <3>2, <3>3
  <2>3. \A s \in Upto(n) : s \in D
    BY <1>0
  <2>4. \A s \in Upto(n) : h[s] = g[s]
    BY <2>1, <2>3
  <2>5. h \in [D -> V]
    <3>1. ASSUME NEW s \in D, s # {} PROVE op[pick[s]][g[s \ {pick[s]}]] \in V
      <4>1. s \in SUBSET S /\ s \ {pick[s]} \in Upto(n)
        BY <2>2, <3>1
      <4> HIDE DEF Upto, D
      <4>2. pick[s] \in S
        BY <3>1, <4>1 DEF Picks
      <4>3. g[s \ {pick[s]}] \in V
        BY <2>1, <4>1
      <4>4. op[pick[s]] \in [V -> V]
        BY <4>2
      <4> QED BY <4>3, <4>4
    <3> HIDE DEF D
    <3> QED BY <3>1
  <2>6. \A s \in D : h[s] = IF s = {} THEN base ELSE op[pick[s]][h[s \ {pick[s]}]]
    <3>1. \A s \in D : s # {} => h[s \ {pick[s]}] = g[s \ {pick[s]}]
      BY <2>2, <2>4
    <3>2. \A s \in D : h[s] = IF s = {} THEN base ELSE op[pick[s]][g[s \ {pick[s]}]]
      OBVIOUS
    <3> HIDE DEF D, h
    <3> QED BY <3>1, <3>2
  <2> HIDE DEF h
  <2> QED BY <2>5, <2>6
<1>3. \A n \in Nat : Solved(n)
  <2> SUFFICES ASSUME Bad # {} PROVE FALSE
    OBVIOUS
  <2> HIDE DEF Solved
  <2>1. PICK k \in Bad : \A m \in Bad : k <= m
    <3>1. Bad \in SUBSET Int /\ 0 \in Int /\ \A n \in Bad : 0 <= n
      OBVIOUS
    <3> HIDE DEF Bad
    <3> QED BY <3>1, LeastNumber
  <2>2. k # 0
    BY <1>1, <2>1
  <2>3. k - 1 \in Nat /\ k - 1 \notin Bad
    BY <2>1, <2>2
  <2>4. Solved((k - 1) + 1)
    BY <1>2, <2>3
  <2> QED BY <2>1, <2>2, <2>4
<1>4. Cardinality(S) \in Nat /\ Upto(Cardinality(S)) = SUBSET S
  BY <1>0, FS_Subset
<1>5. Solved(Cardinality(S))
  <2> HIDE DEF Solved
  <2> QED BY <1>3, <1>4
<1>6. PICK h \in [Upto(Cardinality(S)) -> V] : Solves(h, Upto(Cardinality(S)))
  BY <1>5
<1>7. h \in [SUBSET S -> V] /\ Solves(h, SUBSET S)
  <2> HIDE DEF Upto, Solves
  <2> QED BY <1>4, <1>6
<1> QED BY <1>7 DEF IsFold

-----------------------------------------------------------------------------
(* Segments and what is taken away from them.                              *)

Segments == {s \in Ranges : Ordered(s)}
Free(segments, f) == \E s \in segments : Has(s, f)

(* Subtracting a range takes exactly its frequencies.                      *)
LEMMA SubtractExact ==
    ASSUME NEW segments \in SUBSET Segments, NEW ex \in Ranges
    PROVE  /\ SubtractRange(segments, ex) \in SUBSET Segments
           /\ \A f \in Int : Free(SubtractRange(segments, ex), f)
                                <=> Free(segments, f) /\ ~Has(ex, f)
<1> DEFINE head(s) == [s EXCEPT !.high = Min({@, ex.low})]
           tail(s) == [s EXCEPT !.low = Max({@, ex.high})]
           parts(s) == IF Overlap(s, ex) THEN {head(s), tail(s)} ELSE {s}
           cut == UNION {parts(s) : s \in segments}
<1>0. SubtractRange(segments, ex) = {s \in cut : Ordered(s)}
  BY DEF SubtractRange
<1>1. ASSUME NEW s \in segments
      PROVE  /\ s \in Ranges /\ Ordered(s)
             /\ head(s) \in Ranges /\ tail(s) \in Ranges
             /\ head(s).low = s.low /\ head(s).high = IF s.high < ex.low THEN s.high ELSE ex.low
             /\ tail(s).high = s.high /\ tail(s).low = IF s.low < ex.high THEN ex.high ELSE s.low
  <2>1. s \in Ranges /\ Ordered(s) /\ s.low \in Int /\ s.high \in Int
    BY DEF Segments, Ranges
  <2>2. ex.low \in Int /\ ex.high \in Int
    BY DEF Ranges
  <2>3. Min({s.high, ex.low}) = IF s.high < ex.low THEN s.high ELSE ex.low
    BY <2>1, <2>2, MinTwo
  <2>4. Max({s.low, ex.high}) = IF s.low < ex.high THEN ex.high ELSE s.low
    BY <2>1, <2>2, MaxTwo
  <2> QED BY <2>1, <2>2, <2>3, <2>4 DEF Ranges
<1>2. \A s \in segments : \A t \in parts(s) : t \in Ranges
  <2> HIDE DEF head, tail
  <2> QED BY <1>1
<1>3. \A t \in cut : t \in Ranges /\ \E s \in segments : t \in parts(s)
  <2> HIDE DEF parts
  <2> QED BY <1>2
<1>4. ASSUME NEW s \in segments, NEW f \in Int
      PROVE  (\E t \in parts(s) : Has(t, f)) <=> Has(s, f) /\ ~Has(ex, f)
  <2>1. ex.low \in Int /\ ex.high \in Int /\ s.low \in Int /\ s.high \in Int
    BY <1>1 DEF Ranges
  <2>2. CASE Overlap(s, ex)
    <3>1. (\E t \in parts(s) : Has(t, f)) <=> Has(head(s), f) \/ Has(tail(s), f)
      BY <2>2
    <3> HIDE DEF head, tail
    <3> QED BY <1>1, <2>1, <3>1 DEF Has, Ordered
  <2>3. CASE ~Overlap(s, ex)
    <3>1. parts(s) = {s}
      BY <2>3
    <3> HIDE DEF parts
    <3> QED BY <2>1, <2>3, <3>1 DEF Has, Overlap
  <2> QED BY <2>2, <2>3
<1>5. SubtractRange(segments, ex) \in SUBSET Segments
  <2> HIDE DEF cut
  <2> QED BY <1>0, <1>3 DEF Segments
<1>6. ASSUME NEW f \in Int
      PROVE  Free(SubtractRange(segments, ex), f) <=> Free(segments, f) /\ ~Has(ex, f)
  <2>1. ASSUME Free(SubtractRange(segments, ex), f) PROVE Free(segments, f) /\ ~Has(ex, f)
    <3>1. PICK t \in cut : Has(t, f)
      BY <1>0, <2>1 DEF Free
    <3>2. PICK s \in segments : t \in parts(s)
      BY <1>3
    <3> HIDE DEF parts, cut
    <3> QED BY <1>4, <3>1, <3>2 DEF Free
  <2>2. ASSUME Free(segments, f), ~Has(ex, f) PROVE Free(SubtractRange(segments, ex), f)
    <3>1. PICK s \in segments : Has(s, f)
      BY <2>2 DEF Free
    <3>2. PICK t \in parts(s) : Has(t, f)
      BY <1>4, <2>2, <3>1
    <3>3. t \in cut
      OBVIOUS
    <3>4. t \in Ranges
      BY <1>2
    <3>5. Ordered(t)
      BY <3>2, <3>4 DEF Has, Ordered, Ranges
    <3> HIDE DEF parts, cut
    <3> QED BY <1>0, <3>2, <3>3, <3>5 DEF Free
  <2> QED BY <2>1, <2>2
<1> QED BY <1>5, <1>6

(* Subtracting one range after the other.                                  *)
LEMMA SubtractUnfolds ==
    ASSUME NEW segments \in SUBSET Segments, NEW ranges \in SUBSET Ranges, IsFiniteSet(ranges)
    PROVE  \E h :
              /\ h[{}] = segments /\ h[ranges] = SubtractAll(segments, ranges)
              /\ \A s \in SUBSET ranges :
                    s # {} => \E x \in s : h[s] = SubtractRange(h[s \ {x}], x)
<1> DEFINE iter[s \in SUBSET ranges] ==
             IF s = {} THEN segments
             ELSE LET x == CHOOSE y \in s : TRUE IN SubtractRange(iter[s \ {x}], x)
           Table(h) == h = [s \in SUBSET ranges |->
                              IF s = {} THEN segments
                              ELSE LET x == CHOOSE y \in s : TRUE IN SubtractRange(h[s \ {x}], x)]
<1>1. SubtractAll(segments, ranges) = iter[ranges]
  BY DEF SubtractAll, FoldSet, MapThenFoldSet
<1>2. iter = CHOOSE h : Table(h)
  OBVIOUS
<1>a. PICK V : V = SUBSET Segments
  OBVIOUS
<1>b. PICK pick : pick = [s \in SUBSET ranges |-> CHOOSE y \in s : TRUE]
  OBVIOUS
<1>c. PICK op : op = [x \in ranges |-> [v \in V |-> SubtractRange(v, x)]]
  OBVIOUS
<1>3. segments \in V /\ op \in [ranges -> [V -> V]]
  BY <1>a, <1>c, SubtractExact
<1>4. Picks(pick, ranges)
  BY <1>b DEF Picks
<1>5. \E h : Table(h)
  <2>1. PICK h : IsFold(h, ranges, V, segments, op, pick)
    BY <1>3, <1>4, FoldTable
  <2>2. ASSUME NEW s \in SUBSET ranges, s # {}
        PROVE  h[s] = SubtractRange(h[s \ {pick[s]}], pick[s])
    <3>1. pick[s] \in ranges /\ h[s \ {pick[s]}] \in SUBSET Segments
      BY <1>4, <1>a, <2>1, <2>2 DEF IsFold, Picks
    <3>2. h[s] = op[pick[s]][h[s \ {pick[s]}]]
      BY <2>1, <2>2 DEF IsFold
    <3> QED BY <1>a, <1>c, <3>1, <3>2
  <2>3. \A s \in SUBSET ranges : h[s] = IF s = {} THEN segments
                              ELSE LET x == CHOOSE y \in s : TRUE IN SubtractRange(h[s \ {x}], x)
    BY <1>b, <2>1, <2>2 DEF IsFold
  <2>4. h = [s \in SUBSET ranges |-> h[s]]
    BY <2>1 DEF IsFold
  <2>5. Table(h)
    BY <2>3, <2>4
  <2> QED BY <2>5
<1> HIDE DEF iter
<1>6. Table(iter)
  BY <1>2, <1>5
<1>7. iter[{}] = segments
  BY <1>6
<1>8. ASSUME NEW s \in SUBSET ranges, s # {}
      PROVE  \E x \in s : iter[s] = SubtractRange(iter[s \ {x}], x)
  <2>1. pick[s] \in s
    BY <1>4, <1>8 DEF Picks
  <2>2. iter[s] = SubtractRange(iter[s \ {pick[s]}], pick[s])
    BY <1>6, <1>8, <1>b
  <2> QED BY <2>1, <2>2
<1> QED BY <1>1, <1>7, <1>8

(* What is left is what was there and is in none of the ranges.            *)
LEMMA SubtractAllExact ==
    ASSUME NEW segments \in SUBSET Segments, NEW ranges \in SUBSET Ranges, IsFiniteSet(ranges)
    PROVE  /\ SubtractAll(segments, ranges) \in SUBSET Segments
           /\ \A f \in Int : Free(SubtractAll(segments, ranges), f)
                                <=> Free(segments, f) /\ ~ \E r \in ranges : Has(r, f)
<1>1. PICK h :
         /\ h[{}] = segments /\ h[ranges] = SubtractAll(segments, ranges)
         /\ \A s \in SUBSET ranges :
               s # {} => \E x \in s : h[s] = SubtractRange(h[s \ {x}], x)
  BY SubtractUnfolds
<1> DEFINE Exact(s) == /\ h[s] \in SUBSET Segments
                       /\ \A f \in Int : Free(h[s], f)
                                <=> Free(segments, f) /\ ~ \E r \in s : Has(r, f)
           Good == {s \in SUBSET ranges : Exact(s)}
<1>2. {} \in Good
  BY <1>1
<1>3. ASSUME NEW s \in SUBSET ranges, s # {}
      PROVE  \E x \in s : s \ {x} \in Good => s \in Good
  <2>1. PICK x \in s : h[s] = SubtractRange(h[s \ {x}], x)
    BY <1>1, <1>3
  <2>2. ASSUME Exact(s \ {x}) PROVE Exact(s)
    <3>1. h[s] \in SUBSET Segments
      BY <2>1, <2>2, SubtractExact
    <3>2. \A f \in Int : Free(h[s], f) <=> Free(h[s \ {x}], f) /\ ~Has(x, f)
      BY <2>1, <2>2, SubtractExact
    <3>3. \A f : (\E r \in s : Has(r, f)) <=> Has(x, f) \/ \E r \in s \ {x} : Has(r, f)
      OBVIOUS
    <3> QED BY <2>2, <3>1, <3>2, <3>3
  <2> HIDE DEF Exact
  <2> QED BY <2>2
<1>4. Good \in SUBSET (SUBSET ranges)
  OBVIOUS
<1>5. ranges \in Good
  <2> HIDE DEF Good
  <2>1. \A s \in SUBSET ranges : s \in Good
    BY <1>2, <1>3, <1>4, Removing
  <2> QED BY <2>1
<1> QED BY <1>1, <1>5

(* The raster: two frequencies with no multiple of a channel's width above *)
(* the lower one and up to the other are in the same channel.              *)
LEMMA Quotient ==
    ASSUME NEW x \in Int
    PROVE  /\ x \div Channel \in Int
           /\ (x \div Channel) * Channel <= x
           /\ x < ((x \div Channel) + 1) * Channel
<1>1. Channel \in Nat \ {0}
  BY InquiryAssumption
<1> QED BY <1>1

(* The larger multiple has the larger factor.                              *)
LEMMA LargerFactor ==
    ASSUME NEW x \in Int, NEW y \in Int, x * Channel < y * Channel
    PROVE  x < y
<1>1. Channel \in Nat \ {0}
  BY InquiryAssumption
<1> QED BY <1>1

(* A multiple of a channel's width lies on the raster.                     *)
LEMMA MultipleOnRaster ==
    ASSUME NEW x \in Int
    PROVE  x * Channel \in Int /\ (x * Channel) % Channel = 0
<1>1. Channel \in Nat \ {0}
  BY InquiryAssumption
<1> QED BY <1>1

(* Without a raster point between them, the first and the last             *)
(* frequency of a segment are in one channel.                              *)
LEMMA SameChannel ==
    ASSUME NEW a \in Int, NEW b \in Int, a < b,
           \A f \in Int : a < f /\ f < b => f % Channel # 0
    PROVE  a \div Channel = (b - 1) \div Channel
<1> DEFINE q == a \div Channel
           m == (b - 1) \div Channel
<1>1. b - 1 \in Int /\ a <= b - 1
  OBVIOUS
<1>2. q \in Int /\ q * Channel <= a /\ a < (q + 1) * Channel
  BY Quotient
<1>3. m \in Int /\ m * Channel <= b - 1 /\ b - 1 < (m + 1) * Channel
  BY <1>1, Quotient
<1> HIDE DEF q, m
<1>4. (q + 1) * Channel \in Int /\ ((q + 1) * Channel) % Channel = 0
  BY <1>2, MultipleOnRaster
<1>5. b <= (q + 1) * Channel
  BY <1>2, <1>4
<1>6. m * Channel \in Int /\ q * Channel \in Int /\ (m + 1) * Channel \in Int
  BY <1>2, <1>3, MultipleOnRaster
<1>7. m * Channel < (q + 1) * Channel /\ q * Channel < (m + 1) * Channel
  BY <1>1, <1>2, <1>3, <1>4, <1>5, <1>6
<1>8. m < q + 1
  BY <1>2, <1>3, <1>7, LargerFactor
<1>9. q < m + 1
  BY <1>2, <1>3, <1>7, LargerFactor
<1>10. q = m
  BY <1>2, <1>3, <1>8, <1>9
<1> QED BY <1>10 DEF q, m

(* Splitting a segment at the raster covers it, with pieces that do not    *)
(* cross the raster.                                                       *)
LEMMA SplitExact ==
    ASSUME NEW r \in Segments
    PROVE  /\ \A o \in Split(r) : o \in Segments
           /\ \A o \in Split(r) : o.low \div Channel = (o.high - 1) \div Channel
           /\ \A f \in Int : Has(r, f) <=> \E o \in Split(r) : Has(o, f)
<1> DEFINE cuts == {r.low, r.high} \cup {f \in r.low .. r.high : f % Channel = 0}
           above(a) == {b \in cuts : a < b}
           next(a) == Min(above(a))
           piece(a) == [low |-> a, high |-> next(a)]
<1>0. Split(r) = {piece(a) : a \in cuts \ {r.high}}
  BY DEF Split
<1>1. r.low \in Int /\ r.high \in Int /\ r.low < r.high
  BY DEF Segments, Ranges, Ordered
<1>2. \A a \in cuts : a \in Int /\ r.low <= a /\ a <= r.high
  BY <1>1
<1>3. r.low \in cuts /\ r.high \in cuts /\ r.low # r.high
  BY <1>1
<1>4. \A f \in Int : r.low < f /\ f < r.high /\ f % Channel = 0 => f \in cuts
  BY <1>1
<1> HIDE DEF cuts
<1>5. ASSUME NEW a \in cuts \ {r.high}
      PROVE  /\ next(a) \in cuts /\ a < next(a)
             /\ \A b \in cuts : a < b => next(a) <= b
  <2>0. a \in Int /\ a < r.high
    BY <1>1, <1>2, <1>5
  <2>1. above(a) \in SUBSET Int /\ r.high \in above(a)
    BY <1>2, <1>3, <2>0
  <2>3. \A b \in above(a) : a <= b
    BY <1>2, <2>0
  <2>2. next(a) \in above(a) /\ \A b \in above(a) : next(a) <= b
    <3> HIDE DEF above
    <3> QED BY <2>0, <2>1, <2>3, MinOf
  <2> HIDE DEF next
  <2> QED BY <2>2
<1> HIDE DEF next
<1>6. ASSUME NEW a \in cuts \ {r.high}
      PROVE  piece(a) \in Segments /\ piece(a).low = a /\ piece(a).high = next(a)
  BY <1>2, <1>5 DEF Segments, Ranges, Ordered
<1>7. ASSUME NEW a \in cuts \ {r.high}
      PROVE  a \div Channel = (next(a) - 1) \div Channel
  <2>1. a \in Int /\ next(a) \in Int /\ a < next(a) /\ r.low <= a /\ next(a) <= r.high
    BY <1>2, <1>5
  <2>2. ASSUME NEW f \in Int, a < f, f < next(a), f % Channel = 0 PROVE FALSE
    <3>1. r.low < f /\ f < r.high
      BY <1>1, <2>1, <2>2
    <3>2. f \in cuts
      BY <1>4, <2>2, <3>1
    <3>3. next(a) <= f
      BY <1>5, <2>2, <3>2
    <3> QED BY <2>1, <2>2, <3>3
  <2> QED BY <2>1, <2>2, SameChannel
<1>8. ASSUME NEW f \in Int, Has(r, f)
      PROVE  \E a \in cuts \ {r.high} : Has(piece(a), f)
  <2> DEFINE below == {x \in cuts : x <= f}
  <2>1. below \in SUBSET Int /\ r.low \in below /\ \A x \in below : x <= f
    BY <1>2, <1>3, <1>8 DEF Has
  <2>2. PICK a \in below : \A x \in below : x <= a
    <3> HIDE DEF below
    <3> QED BY <2>1, GreatestNumber
  <2>3. a \in cuts /\ a <= f /\ a # r.high
    BY <1>1, <1>8, <2>2 DEF Has
  <2>4. f < next(a)
    <3>1. next(a) \in cuts /\ a < next(a) /\ a \in Int /\ next(a) \in Int
      BY <1>2, <1>5, <2>3
    <3>2. ASSUME next(a) <= f PROVE FALSE
      <4>1. next(a) \in below
        BY <3>1, <3>2
      <4>2. next(a) <= a
        BY <2>2, <4>1
      <4> QED BY <3>1, <4>2
    <3> QED BY <3>1, <3>2
  <2> QED BY <2>3, <2>4 DEF Has
<1>9. ASSUME NEW f \in Int, NEW a \in cuts \ {r.high}, Has(piece(a), f) PROVE Has(r, f)
  <2>1. a <= f /\ f < next(a)
    BY <1>9 DEF Has
  <2>2. r.low <= a /\ next(a) <= r.high /\ a \in Int /\ next(a) \in Int
    BY <1>2, <1>5
  <2> QED BY <1>1, <2>1, <2>2 DEF Has
<1>10. ASSUME NEW o \in Split(r) PROVE \E a \in cuts \ {r.high} : o = piece(a)
  BY <1>0
<1>11. \A a \in cuts \ {r.high} : piece(a) \in Split(r)
  BY <1>0
<1> HIDE DEF piece
<1>12. \A o \in Split(r) : o \in Segments /\ o.low \div Channel = (o.high - 1) \div Channel
  BY <1>6, <1>7, <1>10
<1>13. \A f \in Int : Has(r, f) <=> \E o \in Split(r) : Has(o, f)
  BY <1>8, <1>9, <1>10, <1>11
<1> QED BY <1>12, <1>13

-----------------------------------------------------------------------------
(* PPA links.                                                              *)

Links == [channel : Ranges, owned : BOOLEAN, inCluster : BOOLEAN, inPpa : BOOLEAN]
Leftovers == [gaa : SUBSET Segments, pal : SUBSET Ranges]
Takes(link, f) == (link.inCluster \/ link.inPpa) /\ Has(link.channel, f)
Gives(link, r) == link.inCluster /\ link.owned /\ link.channel = r

(* One link takes the frequencies of its PAL when it protects it, and      *)
(* gives its channel to a member of the licensee's cluster only.           *)
LEMMA TakeLinkExact ==
    ASSUME NEW left \in Leftovers, NEW link \in Links
    PROVE  /\ TakeLink(left, link) \in Leftovers
           /\ \A f \in Int : Free(TakeLink(left, link).gaa, f)
                                <=> Free(left.gaa, f) /\ ~Takes(link, f)
           /\ \A r \in TakeLink(left, link).pal : r \in left.pal \/ Gives(link, r)
<1> DEFINE cut == SubtractRange(left.gaa, link.channel)
           given == {link.channel : s \in {g \in left.gaa :
                        link.inCluster /\ link.owned /\ Overlap(g, link.channel)}}
<1>1. left.gaa \in SUBSET Segments /\ left.pal \in SUBSET Ranges /\ link.channel \in Ranges
  BY DEF Leftovers, Links
<1>2. cut \in SUBSET Segments
  BY <1>1, SubtractExact
<1>3. \A f \in Int : Free(cut, f) <=> Free(left.gaa, f) /\ ~Has(link.channel, f)
  BY <1>1, SubtractExact
<1>4. \A r \in given : r = link.channel /\ link.inCluster /\ link.owned
  OBVIOUS
<1>5. CASE link.inCluster \/ link.inPpa
  <2>1. TakeLink(left, link) = [gaa |-> cut, pal |-> left.pal \cup given]
    BY <1>5 DEF TakeLink
  <2> HIDE DEF cut, given
  <2>2. TakeLink(left, link) \in Leftovers
    BY <1>1, <1>2, <1>4, <2>1 DEF Leftovers
  <2> QED BY <1>3, <1>4, <1>5, <2>1, <2>2 DEF Takes, Gives
<1>6. CASE ~(link.inCluster \/ link.inPpa)
  <2>1. TakeLink(left, link) = left
    BY <1>6 DEF TakeLink
  <2> QED BY <1>6, <2>1 DEF Takes
<1> QED BY <1>5, <1>6

(* The last index of a part of a sequence is in that part.                 *)
LEMMA LastIndex ==
    ASSUME NEW n \in Nat, NEW s \in SUBSET (1 .. n), s # {}
    PROVE  Max(s) \in s
<1>1. s \in SUBSET Int /\ n \in Int /\ \A i \in s : i <= n
  OBVIOUS
<1> QED BY <1>1, MaxOf

(* Taking one link after the other.                                        *)
LEMMA TakeUnfolds ==
    ASSUME NEW links \in Seq(Links), NEW base \in Leftovers
    PROVE  \E h :
              /\ h[{}] = base /\ h[DOMAIN links] = FoldLeft(TakeLink, base, links)
              /\ \A s \in SUBSET DOMAIN links :
                    s # {} => \E i \in s : h[s] = TakeLink(h[s \ {i}], links[i])
<1> DEFINE iter[s \in SUBSET DOMAIN links] ==
             IF s = {} THEN base
             ELSE LET i == Max(s) IN TakeLink(iter[s \ {i}], links[i])
           Table(h) == h = [s \in SUBSET DOMAIN links |->
                              IF s = {} THEN base
                              ELSE LET i == Max(s) IN TakeLink(h[s \ {i}], links[i])]
<1>1. FoldLeft(TakeLink, base, links) = iter[DOMAIN links]
  BY DEF FoldLeft, MapThenFoldSet
<1>2. iter = CHOOSE h : Table(h)
  OBVIOUS
<1>a. PICK V : V = Leftovers
  OBVIOUS
<1>b. PICK pick : pick = [s \in SUBSET DOMAIN links |-> Max(s)]
  OBVIOUS
<1>c. PICK op : op = [i \in DOMAIN links |-> [v \in V |-> TakeLink(v, links[i])]]
  OBVIOUS
<1>d. Len(links) \in Nat /\ DOMAIN links = 1 .. Len(links) /\ IsFiniteSet(DOMAIN links)
  BY FS_Interval
<1>e. \A i \in DOMAIN links : links[i] \in Links
  OBVIOUS
<1>3. base \in V /\ op \in [DOMAIN links -> [V -> V]]
  BY <1>a, <1>c, <1>e, TakeLinkExact
<1>4. Picks(pick, DOMAIN links)
  BY <1>b, <1>d, LastIndex DEF Picks
<1>5. \E h : Table(h)
  <2>1. PICK h : IsFold(h, DOMAIN links, V, base, op, pick)
    BY <1>3, <1>4, <1>d, FoldTable
  <2>2. ASSUME NEW s \in SUBSET DOMAIN links, s # {}
        PROVE  h[s] = TakeLink(h[s \ {pick[s]}], links[pick[s]])
    <3>1. pick[s] \in DOMAIN links /\ h[s \ {pick[s]}] \in V
      BY <1>4, <2>1, <2>2 DEF IsFold, Picks
    <3>2. h[s] = op[pick[s]][h[s \ {pick[s]}]]
      BY <2>1, <2>2 DEF IsFold
    <3> QED BY <1>c, <3>1, <3>2
  <2>3. \A s \in SUBSET DOMAIN links : h[s] = IF s = {} THEN base
                              ELSE LET i == Max(s) IN TakeLink(h[s \ {i}], links[i])
    BY <1>b, <2>1, <2>2 DEF IsFold
  <2>4. h = [s \in SUBSET DOMAIN links |-> h[s]]
    BY <2>1 DEF IsFold
  <2>5. Table(h)
    BY <2>3, <2>4
  <2> QED BY <2>5
<1> HIDE DEF iter
<1>6. Table(iter)
  BY <1>2, <1>5
<1>7. iter[{}] = base
  BY <1>6
<1>8. ASSUME NEW s \in SUBSET DOMAIN links, s # {}
      PROVE  \E i \in s : iter[s] = TakeLink(iter[s \ {i}], links[i])
  <2>1. pick[s] \in s
    BY <1>4, <1>8 DEF Picks
  <2>2. iter[s] = TakeLink(iter[s \ {pick[s]}], links[pick[s]])
    BY <1>6, <1>8, <1>b
  <2> QED BY <2>1, <2>2
<1> QED BY <1>1, <1>7, <1>8

(* All links together take the frequencies of the PALs they protect.       *)
LEMMA TakeLinksExact ==
    ASSUME NEW links \in Seq(Links), NEW base \in Leftovers, NEW left,
           left = FoldLeft(TakeLink, base, links)
    PROVE  /\ left \in Leftovers
           /\ \A f \in Int : Free(left.gaa, f)
                 <=> Free(base.gaa, f) /\ ~ \E i \in DOMAIN links : Takes(links[i], f)
           /\ \A r \in left.pal : r \in base.pal \/ \E i \in DOMAIN links : Gives(links[i], r)
<1>1. PICK h :
         /\ h[{}] = base /\ h[DOMAIN links] = FoldLeft(TakeLink, base, links)
         /\ \A s \in SUBSET DOMAIN links :
               s # {} => \E i \in s : h[s] = TakeLink(h[s \ {i}], links[i])
  BY TakeUnfolds
<1> DEFINE Exact(s) ==
             /\ h[s] \in Leftovers
             /\ \A f \in Int : Free(h[s].gaa, f)
                   <=> Free(base.gaa, f) /\ ~ \E i \in s : Takes(links[i], f)
             /\ \A r \in h[s].pal : r \in base.pal \/ \E i \in s : Gives(links[i], r)
           Good == {s \in SUBSET DOMAIN links : Exact(s)}
<1>2. {} \in Good
  BY <1>1
<1>3. ASSUME NEW s \in SUBSET DOMAIN links, s # {}
      PROVE  \E i \in s : s \ {i} \in Good => s \in Good
  <2>1. PICK i \in s : h[s] = TakeLink(h[s \ {i}], links[i])
    BY <1>1, <1>3
  <2>2. links[i] \in Links
    OBVIOUS
  <2>3. ASSUME Exact(s \ {i}) PROVE Exact(s)
    <3>1. h[s] \in Leftovers
      BY <2>1, <2>2, <2>3, TakeLinkExact
    <3>2. \A f \in Int : Free(h[s].gaa, f) <=> Free(h[s \ {i}].gaa, f) /\ ~Takes(links[i], f)
      BY <2>1, <2>2, <2>3, TakeLinkExact
    <3>3. \A r \in h[s].pal : r \in h[s \ {i}].pal \/ Gives(links[i], r)
      BY <2>1, <2>2, <2>3, TakeLinkExact
    <3>4. \A f : (\E j \in s : Takes(links[j], f))
                    <=> Takes(links[i], f) \/ \E j \in s \ {i} : Takes(links[j], f)
      OBVIOUS
    <3> QED BY <2>3, <3>1, <3>2, <3>3, <3>4
  <2> HIDE DEF Exact
  <2> QED BY <2>3
<1>4. Good \in SUBSET (SUBSET DOMAIN links)
  OBVIOUS
<1>5. IsFiniteSet(DOMAIN links)
  BY FS_Interval
<1>6. DOMAIN links \in Good
  <2> HIDE DEF Good
  <2>1. \A s \in SUBSET DOMAIN links : s \in Good
    BY <1>2, <1>3, <1>4, <1>5, Removing
  <2> QED BY <2>1
<1> QED BY <1>1, <1>6

(* The link of a PPA to one of its PALs.                                   *)
Linked(database, cbsd, ppa, ls, id) ==
    IF \E p \in database.pals : p.id = id
    THEN Append(ls, LinkOf(database, cbsd, ppa, id)) ELSE ls
PalsOK(database) == \A p \in database.pals : PalOK(p)

(* A PAL that has a row is linked with its own frequency range.            *)
LEMMA LinkedType ==
    ASSUME NEW database, PalsOK(database), NEW cbsd, NEW ppa, NEW id, NEW ls \in Seq(Links)
    PROVE  Linked(database, cbsd, ppa, ls, id) \in Seq(Links)
<1>1. CASE \E p \in database.pals : p.id = id
  <2> DEFINE pal == PalOf(database, id)
  <2>1. pal \in database.pals
    BY <1>1, Zenon DEF PalOf
  <2>2. pal.range \in Ranges
    BY <2>1 DEF PalsOK, PalOK
  <2>3. LinkOf(database, cbsd, ppa, id) \in Links
    <3> HIDE DEF pal
    <3>1. LinkOf(database, cbsd, ppa, id) =
            [channel |-> pal.range, owned |-> pal.user = cbsd.user,
             inCluster |-> cbsd.id \in ppa.cluster, inPpa |-> PointIn(cbsd.at, ppa.zone)]
      BY DEF LinkOf, pal
    <3>2. PointIn(cbsd.at, ppa.zone) \in BOOLEAN
      BY DEF PointIn
    <3> QED BY <2>2, <3>1, <3>2 DEF Links
  <2> QED BY <1>1, <2>3 DEF Linked
<1>2. CASE ~ \E p \in database.pals : p.id = id
  BY <1>2 DEF Linked
<1> QED BY <1>1, <1>2

(* The links of one PPA.                                                   *)
LEMMA AddLinksType ==
    ASSUME NEW database, PalsOK(database), NEW cbsd, NEW ppa, PpaOK(ppa), NEW links \in Seq(Links)
    PROVE  AddLinks(database, cbsd, links, ppa) \in Seq(Links)
<1> DEFINE ids == ppa.pals
           iter[s \in SUBSET DOMAIN ids] ==
             IF s = {} THEN links
             ELSE LET i == Max(s) IN Linked(database, cbsd, ppa, iter[s \ {i}], ids[i])
           Table(h) == h = [s \in SUBSET DOMAIN ids |->
                              IF s = {} THEN links
                              ELSE LET i == Max(s)
                                   IN Linked(database, cbsd, ppa, h[s \ {i}], ids[i])]
<1>1. AddLinks(database, cbsd, links, ppa) = iter[DOMAIN ids]
  BY DEF AddLinks, Linked, FoldLeft, MapThenFoldSet
<1>2. iter = CHOOSE h : Table(h)
  OBVIOUS
<1>a. PICK V : V = Seq(Links)
  OBVIOUS
<1>b. PICK pick : pick = [s \in SUBSET DOMAIN ids |-> Max(s)]
  OBVIOUS
<1>c. PICK op : op = [i \in DOMAIN ids |->
                        [v \in V |-> Linked(database, cbsd, ppa, v, ids[i])]]
  OBVIOUS
<1>d. Len(ids) \in Nat /\ DOMAIN ids = 1 .. Len(ids) /\ IsFiniteSet(DOMAIN ids)
  <2>1. ids \in Seq(Range(ids))
    BY DEF PpaOK
  <2> HIDE DEF ids
  <2> QED BY <2>1, FS_Interval
<1> HIDE DEF ids
<1>3. links \in V /\ op \in [DOMAIN ids -> [V -> V]]
  BY <1>a, <1>c, LinkedType
<1>4. Picks(pick, DOMAIN ids)
  BY <1>b, <1>d, LastIndex DEF Picks
<1>5. PICK h : IsFold(h, DOMAIN ids, V, links, op, pick)
  BY <1>3, <1>4, <1>d, FoldTable
<1>6. ASSUME NEW s \in SUBSET DOMAIN ids, s # {}
      PROVE  h[s] = Linked(database, cbsd, ppa, h[s \ {pick[s]}], ids[pick[s]])
  <2>1. pick[s] \in DOMAIN ids /\ h[s \ {pick[s]}] \in V
    BY <1>4, <1>5, <1>6 DEF IsFold, Picks
  <2>2. h[s] = op[pick[s]][h[s \ {pick[s]}]]
    BY <1>5, <1>6 DEF IsFold
  <2> QED BY <1>c, <2>1, <2>2
<1>7. \A g : Table(g) => g[DOMAIN ids] \in V
  <2> SUFFICES ASSUME NEW g, Table(g) PROVE g[DOMAIN ids] \in V
    OBVIOUS
  <2>1. ASSUME NEW s \in SUBSET DOMAIN ids, s # {}
        PROVE  g[s] = Linked(database, cbsd, ppa, g[s \ {pick[s]}], ids[pick[s]])
    BY <1>b, <2>1
  <2>2. g[{}] = links
    OBVIOUS
  <2> DEFINE Good == {s \in SUBSET DOMAIN ids : g[s] \in V}
  <2>3. {} \in Good /\ Good \in SUBSET (SUBSET DOMAIN ids)
    BY <1>3, <2>2
  <2>4. ASSUME NEW s \in SUBSET DOMAIN ids, s # {}
        PROVE  \E x \in s : s \ {x} \in Good => s \in Good
    <3>1. pick[s] \in s
      BY <1>4, <2>4 DEF Picks
    <3>2. g[s] = Linked(database, cbsd, ppa, g[s \ {pick[s]}], ids[pick[s]])
      BY <2>1, <2>4
    <3>3. ASSUME g[s \ {pick[s]}] \in V PROVE g[s] \in V
      <4> HIDE DEF Table
      <4> QED BY <1>a, <3>2, <3>3, LinkedType
    <3> QED BY <3>1, <3>3, <2>4
  <2> HIDE DEF Good
  <2>5. \A s \in SUBSET DOMAIN ids : s \in Good
    BY <1>d, <2>3, <2>4, Removing
  <2> QED BY <2>5 DEF Good
<1>8. Table(h)
  <2>1. \A s \in SUBSET DOMAIN ids : h[s] =
          IF s = {} THEN links
          ELSE LET i == Max(s) IN Linked(database, cbsd, ppa, h[s \ {i}], ids[i])
    BY <1>b, <1>5, <1>6 DEF IsFold
  <2>2. h = [s \in SUBSET DOMAIN ids |-> h[s]]
    BY <1>5 DEF IsFold
  <2> QED BY <2>1, <2>2
<1> HIDE DEF iter, Table
<1>9. Table(iter)
  BY <1>2, <1>8
<1> QED BY <1>1, <1>7, <1>9, <1>a

(* And of all PPAs.                                                        *)
PpasOK(database) ==
    /\ database.ppas \in Seq(Range(database.ppas))
    /\ \A i \in DOMAIN database.ppas : PpaOK(database.ppas[i])

(* The context of a CBSD is a sequence of such links.                      *)
LEMMA ContextType ==
    ASSUME NEW database, PalsOK(database), PpasOK(database), NEW cbsd
    PROVE  PpaPalContext(database, cbsd) \in Seq(Links)
<1> DEFINE rows == database.ppas
           iter[s \in SUBSET DOMAIN rows] ==
             IF s = {} THEN << >>
             ELSE LET i == Max(s) IN AddLinks(database, cbsd, iter[s \ {i}], rows[i])
           Table(h) == h = [s \in SUBSET DOMAIN rows |->
                              IF s = {} THEN << >>
                              ELSE LET i == Max(s)
                                   IN AddLinks(database, cbsd, h[s \ {i}], rows[i])]
<1>1. PpaPalContext(database, cbsd) = iter[DOMAIN rows]
  BY DEF PpaPalContext, FoldLeft, MapThenFoldSet
<1>2. iter = CHOOSE h : Table(h)
  OBVIOUS
<1>a. PICK V : V = Seq(Links)
  OBVIOUS
<1>b. PICK pick : pick = [s \in SUBSET DOMAIN rows |-> Max(s)]
  OBVIOUS
<1>c. PICK op : op = [i \in DOMAIN rows |->
                        [v \in V |-> AddLinks(database, cbsd, v, rows[i])]]
  OBVIOUS
<1>d. Len(rows) \in Nat /\ DOMAIN rows = 1 .. Len(rows) /\ IsFiniteSet(DOMAIN rows)
  <2>1. rows \in Seq(Range(rows))
    BY DEF PpasOK
  <2> HIDE DEF rows
  <2> QED BY <2>1, FS_Interval
<1>e. \A i \in DOMAIN rows : PpaOK(rows[i])
  BY DEF PpasOK
<1> HIDE DEF rows
<1>3. << >> \in V /\ op \in [DOMAIN rows -> [V -> V]]
  BY <1>a, <1>c, <1>e, AddLinksType
<1>4. Picks(pick, DOMAIN rows)
  BY <1>b, <1>d, LastIndex DEF Picks
<1>5. PICK h : IsFold(h, DOMAIN rows, V, << >>, op, pick)
  BY <1>3, <1>4, <1>d, FoldTable
<1>6. ASSUME NEW s \in SUBSET DOMAIN rows, s # {}
      PROVE  h[s] = AddLinks(database, cbsd, h[s \ {pick[s]}], rows[pick[s]])
  <2>1. pick[s] \in DOMAIN rows /\ h[s \ {pick[s]}] \in V
    BY <1>4, <1>5, <1>6 DEF IsFold, Picks
  <2>2. h[s] = op[pick[s]][h[s \ {pick[s]}]]
    BY <1>5, <1>6 DEF IsFold
  <2> QED BY <1>c, <2>1, <2>2
<1>7. \A g : Table(g) => g[DOMAIN rows] \in V
  <2> SUFFICES ASSUME NEW g, Table(g) PROVE g[DOMAIN rows] \in V
    OBVIOUS
  <2>1. ASSUME NEW s \in SUBSET DOMAIN rows, s # {}
        PROVE  g[s] = AddLinks(database, cbsd, g[s \ {pick[s]}], rows[pick[s]])
    BY <1>b, <2>1
  <2>2. g[{}] = << >>
    OBVIOUS
  <2> DEFINE Good == {s \in SUBSET DOMAIN rows : g[s] \in V}
  <2>3. {} \in Good /\ Good \in SUBSET (SUBSET DOMAIN rows)
    BY <1>3, <2>2
  <2>4. ASSUME NEW s \in SUBSET DOMAIN rows, s # {}
        PROVE  \E x \in s : s \ {x} \in Good => s \in Good
    <3>1. pick[s] \in s
      BY <1>4, <2>4 DEF Picks
    <3>2. g[s] = AddLinks(database, cbsd, g[s \ {pick[s]}], rows[pick[s]])
      BY <2>1, <2>4
    <3>3. ASSUME g[s \ {pick[s]}] \in V PROVE g[s] \in V
      <4> HIDE DEF Table
      <4>1. pick[s] \in DOMAIN rows /\ PpaOK(rows[pick[s]])
        BY <1>e, <3>1
      <4>2. g[s \ {pick[s]}] \in Seq(Links)
        BY <1>a, <3>3
      <4>3. AddLinks(database, cbsd, g[s \ {pick[s]}], rows[pick[s]]) \in Seq(Links)
        BY <4>1, <4>2, AddLinksType
      <4> QED BY <1>a, <3>2, <4>3
    <3> QED BY <3>1, <3>3, <2>4
  <2> HIDE DEF Good
  <2>5. \A s \in SUBSET DOMAIN rows : s \in Good
    BY <1>d, <2>3, <2>4, Removing
  <2> QED BY <2>5 DEF Good
<1>8. Table(h)
  <2>1. \A s \in SUBSET DOMAIN rows : h[s] =
          IF s = {} THEN << >>
          ELSE LET i == Max(s) IN AddLinks(database, cbsd, h[s \ {i}], rows[i])
    BY <1>b, <1>5, <1>6 DEF IsFold
  <2>2. h = [s \in SUBSET DOMAIN rows |-> h[s]]
    BY <1>5 DEF IsFold
  <2> QED BY <2>1, <2>2
<1> HIDE DEF iter, Table
<1>9. Table(iter)
  BY <1>2, <1>8
<1> QED BY <1>1, <1>7, <1>9, <1>a

-----------------------------------------------------------------------------
(* The tables an inquiry reads.                                            *)

NtiaOK(database) == database.ntia => Usable(NtiaContour)
WispsOK(database) == IsFiniteSet(database.wisp) /\ \A w \in database.wisp : WispOK(w)
TablesOK(database) ==
    /\ ExzOK(database.exz) /\ NtiaOK(database) /\ WispsOK(database)
    /\ PalsOK(database) /\ PpasOK(database)

(* The whole band may be inquired, and nothing of it is clipped.           *)
LEMMA WholeBand ==
    /\ Band \in Segments /\ Coexistence \in Segments /\ NtiaBand \in Segments
    /\ ValidateInquired(<< Band >>) = 0
    /\ Clip(<< Band >>) = {Band}
<1>1. BandLow \in Int /\ BandHigh \in Int /\ CoexLow \in Int
        /\ BandLow < CoexLow /\ CoexLow < BandHigh
  BY ZonesAssumption
<1>2. Band \in Segments /\ Coexistence \in Segments /\ NtiaBand \in Segments
  BY <1>1 DEF Band, Coexistence, NtiaBand, Segments, Ranges, Ordered
<1>3. Ordered(Band) /\ InBand(Band)
  BY <1>1 DEF Band, Ordered, InBand
<1>4. DOMAIN << Band >> = {1} /\ << Band >>[1] = Band /\ << Band >> # << >>
  OBVIOUS
<1>5. {i \in DOMAIN << Band >> : ~Ordered(<< Band >>[i]) \/ ~InBand(<< Band >>[i])} = {}
  BY <1>3, <1>4
<1>6. ValidateInquired(<< Band >>) = 0
  BY <1>4, <1>5, Zenon DEF ValidateInquired
<1>7. Range(<< Band >>) = {Band}
  BY DEF Range
<1>8. Max({Band.low, BandLow}) = Band.low /\ Min({Band.high, BandHigh}) = Band.high
  BY <1>1, MinTwo, MaxTwo DEF Band
<1>9. [low |-> Band.low, high |-> Band.high] = Band
  BY DEF Band
<1>10. Clip(<< Band >>) = {Band}
  BY <1>3, <1>7, <1>8, <1>9 DEF Clip
<1> QED BY <1>2, <1>6, <1>10

(* Then the channels are those that are available: an active NTIA zone was *)
(* found usable.                                                           *)
LEMMA InquiredAnswered ==
    ASSUME NEW database, NtiaOK(database), NEW cbsd
    PROVE  SpectrumInquiry(database, cbsd, << Band >>).channels
             = AvailableChannels(database, cbsd, << Band >>)
<1>1. ValidateInquired(<< Band >>) = 0
  BY WholeBand
<1>2. ~(database.ntia /\ ~Usable(NtiaContour))
  BY DEF NtiaOK
<1>3. SpectrumInquiry(database, cbsd, << Band >>) =
        [code |-> 0, channels |-> AvailableChannels(database, cbsd, << Band >>)]
  BY <1>1, <1>2, Zenon DEF SpectrumInquiry
<1> QED BY <1>3

(* The values of a function on a finite set are finitely many.             *)
LEMMA FiniteImage ==
    ASSUME NEW S, IsFiniteSet(S), NEW T, NEW F \in [S -> T], \A t \in T : \E s \in S : F[s] = t
    PROVE  IsFiniteSet(T)
<1>1. F \in Surjection(S, T)
  BY DEF Surjection
<1> QED BY <1>1, FS_Surjection

(* What is withheld from a place is a finite set of ranges.                *)
LEMMA WithheldType ==
    ASSUME NEW database, TablesOK(database), NEW x
    PROVE  WithheldAt(database, x) \in SUBSET Ranges /\ IsFiniteSet(WithheldAt(database, x))
<1> DEFINE zones == ActiveZones(database)
           touched == {e \in zones : Within(x, e.zone, ExzMargin)}
           excluded == {e.ranges : e \in touched}
           wisps == {v \in database.wisp : PointIn(x, v.zone)}
           wispRanges == {w.range : w \in wisps}
           coex == IF FssNear(database.fss, x) = {} THEN {} ELSE {Coexistence}
           ntia == IF database.ntia THEN {[zone |-> NtiaContour, ranges |-> {NtiaBand}]} ELSE {}
<1>0. IsFiniteSet({[zone |-> NtiaContour, ranges |-> {NtiaBand}]}) /\ IsFiniteSet({})
        /\ IsFiniteSet({NtiaBand}) /\ IsFiniteSet({Coexistence})
  BY FS_EmptySet, FS_Singleton, Zenon
<1>1. IsFiniteSet(ntia) /\ \A e \in ntia : e.ranges = {NtiaBand}
  BY <1>0
<1>2. NtiaBand \in Ranges /\ Coexistence \in Ranges
  BY WholeBand DEF Segments
<1>3. IsFiniteSet(database.exz) /\ \A e \in database.exz :
        e.ranges \in SUBSET Ranges /\ IsFiniteSet(e.ranges)
  BY DEF TablesOK, ExzOK, ExzRows
<1>4. zones = database.exz \cup ntia
  BY DEF ActiveZones
<1> HIDE DEF ntia, zones
<1>5. IsFiniteSet(zones)
  BY <1>1, <1>3, <1>4, FS_Union
<1>6. \A e \in zones : e.ranges \in SUBSET Ranges /\ IsFiniteSet(e.ranges)
  BY <1>0, <1>1, <1>2, <1>3, <1>4
<1>7. IsFiniteSet(touched)
  BY <1>5, FS_Subset
<1>8. IsFiniteSet(excluded)
  <2> HIDE DEF touched
  <2>1. [e \in touched |-> e.ranges] \in [touched -> excluded]
    OBVIOUS
  <2>2. \A s \in excluded : \E e \in touched : [d \in touched |-> d.ranges][e] = s
    OBVIOUS
  <2> HIDE DEF excluded
  <2> QED BY <1>7, <2>1, <2>2, FiniteImage
<1>9. IsFiniteSet(UNION excluded) /\ UNION excluded \in SUBSET Ranges
  <2>1. \A s \in excluded : s \in SUBSET Ranges /\ IsFiniteSet(s)
    BY <1>6
  <2> HIDE DEF excluded
  <2> QED BY <1>8, <2>1, FS_UNION
<1>10. IsFiniteSet(wisps) /\ \A w \in wisps : w.range \in Ranges
  BY FS_Subset DEF TablesOK, WispsOK, WispOK
<1>11. IsFiniteSet(wispRanges) /\ wispRanges \in SUBSET Ranges
  <2> HIDE DEF wisps
  <2>1. [w \in wisps |-> w.range] \in [wisps -> wispRanges] /\ wispRanges \in SUBSET Ranges
    BY <1>10
  <2>2. \A s \in wispRanges : \E w \in wisps : [v \in wisps |-> v.range][w] = s
    OBVIOUS
  <2> HIDE DEF wispRanges
  <2> QED BY <1>10, <2>1, <2>2, FiniteImage
<1>12. IsFiniteSet(coex) /\ coex \in SUBSET Ranges
  BY <1>0, <1>2
<1>13. WithheldAt(database, x) = (UNION excluded) \cup wispRanges \cup coex
  BY DEF WithheldAt, ExcludedRangesAt, zones
<1> HIDE DEF excluded, wispRanges, coex
<1> QED BY <1>9, <1>11, <1>12, <1>13, FS_Union

(* What is offered is exactly what is neither withheld nor protected.      *)
Protects(database, cbsd, f) ==
    \E l \in Range(PpaPalContext(database, cbsd)) : Takes(l, f)
Withholds(database, x, f) == \E r \in WithheldAt(database, x) : Has(r, f)

(* GAA is offered exactly where the band is free, in pieces inside one     *)
(* channel, and PAL only where a link gives it.                            *)
LEMMA AvailableExact ==
    ASSUME NEW database, TablesOK(database), NEW cbsd,
           NEW offers, offers = AvailableChannels(database, cbsd, << Band >>)
    PROVE  /\ \A f \in Int : (\E o \in offers : o.type = "GAA" /\ Has(o.range, f))
                 <=> /\ Has(Band, f) /\ ~Withholds(database, cbsd.at, f)
                     /\ ~Protects(database, cbsd, f)
           /\ \A o \in offers : \/ /\ o.type = "GAA" /\ o.range \in Segments
                                   /\ o.range.low \div Channel = (o.range.high - 1) \div Channel
                                \/ /\ o.type = "PAL"
                                   /\ \E l \in Range(PpaPalContext(database, cbsd)) :
                                         Gives(l, o.range)
<1> DEFINE withheld == WithheldAt(database, cbsd.at)
           free == SubtractAll({Band}, withheld)
           links == PpaPalContext(database, cbsd)
           base == [gaa |-> free, pal |-> {}]
           left == FoldLeft(TakeLink, base, links)
           pieces == UNION {Split(s) : s \in left.gaa}
<1>1. offers = {[range |-> r, type |-> "PAL"] : r \in left.pal}
                 \cup {[range |-> r, type |-> "GAA"] : r \in pieces}
  BY WholeBand DEF AvailableChannels
<1>2. withheld \in SUBSET Ranges /\ IsFiniteSet(withheld)
  BY WithheldType
<1>3. {Band} \in SUBSET Segments
  BY WholeBand
<1> HIDE DEF withheld
<1>4. free \in SUBSET Segments
  BY <1>2, <1>3, SubtractAllExact
<1>5. \A f \in Int : Free(free, f) <=> Has(Band, f) /\ ~ \E r \in withheld : Has(r, f)
  BY <1>2, <1>3, SubtractAllExact DEF Free
<1> HIDE DEF free
<1>6. base \in Leftovers /\ base.gaa = free /\ base.pal = {}
  BY <1>4 DEF Leftovers
<1>7. links \in Seq(Links)
  BY ContextType DEF TablesOK
<1> HIDE DEF base, links
<1>a. /\ left \in Leftovers
      /\ \A f \in Int : Free(left.gaa, f)
                 <=> Free(base.gaa, f) /\ ~ \E i \in DOMAIN links : Takes(links[i], f)
      /\ \A r \in left.pal : r \in base.pal \/ \E i \in DOMAIN links : Gives(links[i], r)
  BY <1>6, <1>7, TakeLinksExact
<1> HIDE DEF left
<1>8. left.gaa \in SUBSET Segments
  BY <1>a DEF Leftovers
<1>9. \A f \in Int : Free(left.gaa, f)
        <=> /\ Has(Band, f) /\ ~Withholds(database, cbsd.at, f)
            /\ ~Protects(database, cbsd, f)
  BY <1>a, <1>5, <1>6 DEF Withholds, Protects, Range, withheld, links
<1>10. \A r \in left.pal : \E l \in Range(PpaPalContext(database, cbsd)) : Gives(l, r)
  BY <1>a, <1>6 DEF Range, links
<1>11. \A r \in pieces : r \in Segments /\ r.low \div Channel = (r.high - 1) \div Channel
  BY <1>8, SplitExact
<1>12. \A f \in Int : Free(left.gaa, f) <=> \E r \in pieces : Has(r, f)
  BY <1>8, SplitExact DEF Free
<1> HIDE DEF pieces
<1>13. \A o \in offers : \/ o.type = "GAA" /\ o.range \in pieces
                         \/ o.type = "PAL" /\ o.range \in left.pal
  BY <1>1
<1>14. \A r \in pieces : \E o \in offers : o.type = "GAA" /\ o.range = r
  <2> TAKE r \in pieces
  <2>1. [range |-> r, type |-> "GAA"] \in offers
    BY <1>1
  <2> QED BY <2>1
<1>15. \A f \in Int : (\E o \in offers : o.type = "GAA" /\ Has(o.range, f))
                        <=> \E r \in pieces : Has(r, f)
  BY <1>13, <1>14
<1> QED BY <1>9, <1>10, <1>11, <1>12, <1>13, <1>15

-----------------------------------------------------------------------------
(* What an inquiry offers.                                                 *)

(* So an inquiry of the whole band is exact over well-formed tables.       *)
LEMMA ExactOffers == TablesOK(db) => InquiryIsExact
<1> SUFFICES ASSUME TablesOK(db), NEW c \in Cbsds
             PROVE  /\ \A f \in BandLow .. BandHigh - 1 :
                          (\E o \in Offers(c) : o.type = "GAA" /\ Has(o.range, f))
                             <=> ~WithheldFrom(c, f)
                    /\ \A o \in Offers(c) :
                          IF o.type = "GAA"
                          THEN o.range.low \div Channel = (o.range.high - 1) \div Channel
                          ELSE \E l \in Range(PpaPalContext(db, c)) :
                                  l.inCluster /\ l.owned /\ l.channel = o.range
  BY DEF InquiryIsExact
<1>1. Offers(c) = AvailableChannels(db, c, << Band >>)
  BY InquiredAnswered DEF Offers, TablesOK
<1>2. /\ \A f \in Int : (\E o \in Offers(c) : o.type = "GAA" /\ Has(o.range, f))
            <=> Has(Band, f) /\ ~Withholds(db, c.at, f) /\ ~Protects(db, c, f)
      /\ \A o \in Offers(c) : \/ /\ o.type = "GAA" /\ o.range \in Segments
                                 /\ o.range.low \div Channel = (o.range.high - 1) \div Channel
                              \/ /\ o.type = "PAL"
                                 /\ \E l \in Range(PpaPalContext(db, c)) : Gives(l, o.range)
  BY <1>1, AvailableExact
<1>3. \A f \in BandLow .. BandHigh - 1 : f \in Int /\ Has(Band, f)
  BY ZonesAssumption DEF Has, Band
<1>4. \A f : WithheldFrom(c, f) <=> Withholds(db, c.at, f) \/ Protects(db, c, f)
  BY DEF WithheldFrom, Withholds, Protects, Takes
<1> QED BY <1>2, <1>3, <1>4 DEF Gives

(* Two segments that overlap have a frequency in common.                   *)
LEMMA OverlapMeets ==
    ASSUME NEW r \in Segments, NEW s \in Segments, Overlap(r, s)
    PROVE  \E f \in Int : Has(r, f) /\ Has(s, f)
<1> DEFINE f == IF r.low < s.low THEN s.low ELSE r.low
<1>1. f \in Int /\ Has(r, f) /\ Has(s, f)
  BY DEF Segments, Ranges, Ordered, Overlap, Has
<1> QED BY <1>1

(* Away from the ends of its rings, a place within no distance of a zone   *)
(* is inside.                                                              *)
LEMMA WithinIsInside ==
    ASSUME NEW x \in Int, NEW zone \in SUBSET Rings, Within(x, zone, 0),
           \A ring \in zone : x # ring.to
    PROVE  PointIn(x, zone)
<1>1. PICK ring \in zone : ValidRing(ring) /\ RingDistance(x, ring) <= 0
  BY DEF Within
<1>2. ring.from \in Int /\ ring.to \in Int /\ x # ring.to /\ ring.from < ring.to
  BY <1>1 DEF Rings, ValidRing
<1>3. Distance(x, ring.from) \in Nat /\ Distance(x, ring.to) \in Nat
  BY <1>2 DEF Distance
<1>4. Min({Distance(x, ring.from), Distance(x, ring.to)}) =
        IF Distance(x, ring.from) < Distance(x, ring.to)
        THEN Distance(x, ring.from) ELSE Distance(x, ring.to)
  BY <1>3, MinTwo
<1>5. InRing(x, ring)
  BY <1>1, <1>2, <1>4 DEF RingDistance, Distance, InRing
<1> QED BY <1>5 DEF PointIn

(* And an offer passes the screens: a zone, a licence or an earth station  *)
(* that blocked it would have a frequency in common with it, which was     *)
(* withheld.                                                               *)
LEMMA ScreenedOffers == TablesOK(db) => OffersAreScreened
<1> SUFFICES ASSUME TablesOK(db), WellFormed(ActiveZones(db)), ~GwpzIndeterminate(db.wisp),
                    \A e \in db.exz : e.ranges # {} /\ \A r \in e.ranges : Ordered(r),
                    \A w \in db.wisp : Ordered(w.range),
                    NEW c \in Cbsds, ~OnAnEdge(c.at), NEW o \in Offers(c), o.type = "GAA"
             PROVE  /\ ~HitsExclusionZone(ActiveZones(db), c.at, o.range)
                    /\ ~BlockedByGwpz(db.wisp, c.at, o.range)
                    /\ ~BlockedByFssGwbl(db, c.at, o.range)
  BY DEF OffersAreScreened
<1>0. NtiaOK(db)
  BY DEF TablesOK
<1>1. Offers(c) = AvailableChannels(db, c, << Band >>)
  BY <1>0, InquiredAnswered DEF Offers
<1>2. /\ \A f \in Int : (\E p \in Offers(c) : p.type = "GAA" /\ Has(p.range, f))
            <=> Has(Band, f) /\ ~Withholds(db, c.at, f) /\ ~Protects(db, c, f)
      /\ \A p \in Offers(c) : \/ /\ p.type = "GAA" /\ p.range \in Segments
                                 /\ p.range.low \div Channel = (p.range.high - 1) \div Channel
                              \/ /\ p.type = "PAL"
                                 /\ \E l \in Range(PpaPalContext(db, c)) : Gives(l, p.range)
  BY <1>1, AvailableExact
<1>3. o.range \in Segments
  BY <1>2
<1>4. ASSUME NEW s \in WithheldAt(db, c.at), s \in Segments PROVE ~Overlap(o.range, s)
  <2> SUFFICES ASSUME Overlap(o.range, s) PROVE FALSE
    OBVIOUS
  <2>1. PICK f \in Int : Has(o.range, f) /\ Has(s, f)
    BY <1>3, <1>4, OverlapMeets
  <2>2. ~Withholds(db, c.at, f)
    BY <1>2, <2>1
  <2> QED BY <2>1, <2>2 DEF Withholds
<1>5. WithheldAt(db, c.at) \in SUBSET Ranges
  BY WithheldType
<1>6. ~HitsExclusionZone(ActiveZones(db), c.at, o.range)
  <2> SUFFICES ASSUME NEW rec \in ActiveZones(db), Hits(rec, c.at, o.range) PROVE FALSE
    BY DEF HitsExclusionZone
  <2>1. rec \in db.exz \/ rec = [zone |-> NtiaContour, ranges |-> {NtiaBand}]
    BY DEF ActiveZones
  <2>2. rec.ranges # {}
    BY <2>1
  <2>3. PICK s \in rec.ranges : Overlap(o.range, s)
    BY <2>2 DEF Hits
  <2>4. s \in WithheldAt(db, c.at)
    BY DEF WithheldAt, ExcludedRangesAt, Hits
  <2>5. Ordered(s)
    BY <2>1, WholeBand DEF Segments
  <2> QED BY <1>4, <1>5, <2>3, <2>4, <2>5 DEF Segments
<1>7. ~BlockedByGwpz(db.wisp, c.at, o.range)
  <2> SUFFICES ASSUME NEW w \in db.wisp, GwpzBlocks(w, c.at, o.range) PROVE FALSE
    BY DEF BlockedByGwpz
  <2>1. w.zone \in SUBSET Rings /\ w.range \in Ranges /\ Ordered(w.range)
    BY DEF TablesOK, WispsOK, WispOK
  <2>2. c.at \in Int
    BY SpectrumAssumption
  <2>3. \A ring \in w.zone : c.at # ring.to
    BY DEF OnAnEdge
  <2>4. PointIn(c.at, w.zone)
    BY <2>1, <2>2, <2>3, WithinIsInside DEF GwpzBlocks
  <2>5. w.range \in WithheldAt(db, c.at)
    BY <2>4 DEF WithheldAt
  <2> QED BY <1>4, <2>1, <2>5 DEF Segments, GwpzBlocks
<1>8. ~BlockedByFssGwbl(db, c.at, o.range)
  <2> SUFFICES ASSUME Overlap(o.range, Coexistence), FssNear(db.fss, c.at) # {} PROVE FALSE
    BY DEF BlockedByFssGwbl
  <2>1. Coexistence \in WithheldAt(db, c.at)
    BY DEF WithheldAt
  <2> QED BY <1>4, <2>1, WholeBand
<1> QED BY <1>6, <1>7, <1>8

-----------------------------------------------------------------------------
(* The tables in any state.                                                *)

Tables == {"exz", "ntia", "wisp", "gwbl", "fss", "federal", "admin", "pals", "ppas",
           "clusters", "gens", "inj"}
ShapeOK == db = [t \in Tables |-> db[t]]

(* No earth station is both an administrator's and a feed's, and the rows  *)
(* a synchronisation will drop were nobody's but a feed's when it read.    *)
OwnersOK ==
    /\ db.admin \cap db.federal = {}
    /\ syncing # Nothing => syncing.admin \cap syncing.gone = {}

(* The records being made are as good as those that are injected.          *)
MakingOK == /\ making = [p \in Creators |-> making[p]]
            /\ \A p \in Creators : making[p] # Nothing => PpaOK(making[p])

SpectrumInv == ShapeOK /\ TablesOK(db) /\ OwnersOK /\ MakingOK

(* A row that replaces its namesake or joins the others.                   *)
LEMMA UpsertRows ==
    ASSUME NEW rows, NEW rec
    PROVE  /\ rec \in Upsert(rows, rec)
           /\ \A r \in Upsert(rows, rec) : r \in rows \/ r = rec
           /\ \A r \in rows : r \in Upsert(rows, rec) \/ r.id = rec.id
           /\ IsFiniteSet(rows) => IsFiniteSet(Upsert(rows, rec))
<1> DEFINE others == {r \in rows : r.id # rec.id}
<1>1. Upsert(rows, rec) = others \cup {rec}
  BY DEF Upsert
<1>2. IsFiniteSet(rows) => IsFiniteSet(others)
  BY FS_Subset
<1> HIDE DEF others
<1>3. IsFiniteSet(others) => IsFiniteSet(others \cup {rec})
  BY FS_AddElement
<1>4. IsFiniteSet(rows) => IsFiniteSet(Upsert(rows, rec))
  BY <1>1, <1>2, <1>3
<1> QED BY <1>1, <1>4 DEF others

(* A PPA appended to the rows.                                             *)
LEMMA PpaAppended ==
    ASSUME NEW database, PpasOK(database), NEW ppa, PpaOK(ppa), NEW new,
           new.ppas = Append(database.ppas, ppa)
    PROVE  PpasOK(new)
<1>1. database.ppas \in Seq(Range(database.ppas))
        /\ \A i \in DOMAIN database.ppas : PpaOK(database.ppas[i])
  BY DEF PpasOK
<1> DEFINE rows == database.ppas
           S == Range(rows) \cup {ppa}
<1>2. rows \in Seq(S)
  BY <1>1
<1>3. new.ppas \in Seq(S) /\ Len(new.ppas) = Len(rows) + 1
        /\ \A i \in 1 .. Len(rows) : new.ppas[i] = rows[i]
        /\ new.ppas[Len(rows) + 1] = ppa
  BY <1>2
<1>4. DOMAIN new.ppas = 1 .. Len(rows) + 1 /\ DOMAIN rows = 1 .. Len(rows) /\ Len(rows) \in Nat
  BY <1>2, <1>3
<1>5. new.ppas \in Seq(Range(new.ppas))
  BY <1>3, <1>4 DEF Range
<1>6. \A i \in DOMAIN new.ppas : PpaOK(new.ppas[i])
  BY <1>1, <1>3, <1>4
<1> QED BY <1>5, <1>6 DEF PpasOK

(* A PPA replaced in its row.                                              *)
LEMMA PpaReplaced ==
    ASSUME NEW database, PpasOK(database), NEW ppa, PpaOK(ppa), NEW row, NEW new,
           new.ppas = [database.ppas EXCEPT ![row] = ppa]
    PROVE  PpasOK(new)
<1>1. database.ppas \in Seq(Range(database.ppas))
        /\ \A i \in DOMAIN database.ppas : PpaOK(database.ppas[i])
  BY DEF PpasOK
<1> DEFINE rows == database.ppas
<1>2. DOMAIN new.ppas = DOMAIN rows /\ Len(rows) \in Nat /\ DOMAIN rows = 1 .. Len(rows)
        /\ \A i \in DOMAIN rows : new.ppas[i] = IF i = row THEN ppa ELSE rows[i]
  BY <1>1
<1>3. new.ppas = [i \in 1 .. Len(rows) |-> new.ppas[i]]
  BY <1>1
<1>4. \A i \in 1 .. Len(rows) : new.ppas[i] \in Range(new.ppas)
  BY <1>2 DEF Range
<1>5. new.ppas \in Seq(Range(new.ppas))
  <2> HIDE DEF rows
  <2>1. PICK f : f = new.ppas
    OBVIOUS
  <2>2. f \in [1 .. Len(rows) -> Range(new.ppas)]
    BY <1>3, <1>4, <2>1
  <2>3. f \in Seq(Range(new.ppas))
    BY <1>2, <2>2
  <2> QED BY <2>1, <2>3
<1>6. \A i \in DOMAIN new.ppas : PpaOK(new.ppas[i])
  BY <1>1, <1>2
<1> QED BY <1>5, <1>6 DEF PpasOK

(* An exclusion-zone feed is stored with a default for missing ranges.     *)
LEMMA ExzFeedStored ==
    ASSUME NEW feed, ExzOK(feed)
    PROVE  ExzOK({[e EXCEPT !.ranges = IF @ = {} THEN {DefaultRange} ELSE @] :
                    e \in {f \in feed : f.zone # {}}})
<1> DEFINE usable == {f \in feed : f.zone # {}}
           stored(e) == [e EXCEPT !.ranges = IF @ = {} THEN {DefaultRange} ELSE @]
           rows == {stored(e) : e \in usable}
<1>0. DefaultRange \in Ranges
  BY ZonesAssumption DEF DefaultRange, Ranges
<1>1. IsFiniteSet({DefaultRange})
  BY FS_Singleton, Zenon
<1>2. \A e \in feed : e \in ExzRows /\ IsFiniteSet(e.ranges)
  BY DEF ExzOK
<1>3. IsFiniteSet(usable)
  BY FS_Subset DEF ExzOK
<1>4. \A e \in usable : stored(e) \in ExzRows /\ IsFiniteSet(stored(e).ranges)
  BY <1>0, <1>1, <1>2 DEF ExzRows
<1>5. [e \in usable |-> stored(e)] \in [usable -> rows]
  OBVIOUS
<1>6. \A t \in rows : \E e \in usable : [d \in usable |-> stored(d)][e] = t
  OBVIOUS
<1>7. IsFiniteSet(rows)
  <2> HIDE DEF rows, usable, stored
  <2> QED BY <1>3, <1>5, <1>6, FiniteImage
<1>8. \A t \in rows : t \in ExzRows /\ IsFiniteSet(t.ranges)
  <2> HIDE DEF stored
  <2> QED BY <1>4
<1>9. ExzOK(rows)
  <2> HIDE DEF rows
  <2> QED BY <1>7, <1>8 DEF ExzOK
<1> QED BY <1>9

-----------------------------------------------------------------------------
(* Steps.                                                                  *)

(* What is configured at the start is well formed.                         *)
LEMMA InitSpectrumInv == Init => SpectrumInv
<1> SUFFICES ASSUME Init PROVE SpectrumInv
  OBVIOUS
<1>1. /\ db = [t \in Tables |-> db[t]]
      /\ db.exz = {} /\ db.ntia = FALSE /\ db.wisp = {} /\ db.pals = InitialPals
      /\ db.ppas = << >> /\ db.federal = {f.id : f \in InitialFeed}
      /\ db.admin = {f.id : f \in InitialFss} /\ syncing = Nothing
  BY DEF Init, Tables
<1>2. IsFiniteSet({})
  BY FS_EmptySet
<1>3. PpasOK(db)
  <2>1. \A S : << >> \in Seq(S)
    OBVIOUS
  <2>2. DOMAIN << >> = {}
    OBVIOUS
  <2>3. << >> \in Seq(Range(<< >>))
    BY <2>1
  <2> QED BY <1>1, <2>2, <2>3 DEF PpasOK
<1>4. PalsOK(db)
  BY <1>1, SpectrumAssumption DEF PalsOK
<1>5. TablesOK(db)
  BY <1>1, <1>2, <1>3, <1>4 DEF TablesOK, ExzOK, NtiaOK, WispsOK
<1>6. OwnersOK
  BY <1>1, SpectrumAssumption DEF OwnersOK
<1>7. MakingOK
  BY DEF Init, MakingOK
<1> QED BY <1>1, <1>5, <1>6, <1>7 DEF SpectrumInv, ShapeOK

(* A step leaves the administrators' stations where they are and whose     *)
(* they are.                                                               *)
Retained ==
    \A f \in db.fss : (f.id \in db.admin /\ Known(f.id)) =>
        /\ \E g \in db'.fss : g.id = f.id
        /\ f.id \in db'.admin \cup db'.federal

(* Steps that change neither the tables nor the PPAs being made.           *)
LEMMA TablesUnchanged ==
    ASSUME SpectrumInv, UNCHANGED << db, making, syncing >>
    PROVE  SpectrumInv' /\ Retained
BY DEF SpectrumInv, ShapeOK, TablesOK, ExzOK, NtiaOK, WispsOK, PalsOK, PpasOK, OwnersOK,
       MakingOK, Retained

(* Changes of a single table by administrators and feeds.                  *)
LEMMA ExzStep ==
    ASSUME SpectrumInv,
           \/ \E e \in ExclusionZones : InjectExclusionZone(e)
           \/ EnableNtia
           \/ \E f \in ExzFeeds : SyncExz(f)
    PROVE  SpectrumInv' /\ Retained
<1>1. CASE \E e \in ExclusionZones : InjectExclusionZone(e)
  <2>1. PICK e \in ExclusionZones : InjectExclusionZone(e)
    BY <1>1
  <2>2. db' = [db EXCEPT !.exz = @ \cup {e}] /\ UNCHANGED << making, syncing >>
    BY <2>1 DEF InjectExclusionZone, Admin
  <2>3. ExzOK(db.exz \cup {e})
    <3>1. IsFiniteSet(db.exz) /\ e \in ExzRows /\ IsFiniteSet(e.ranges)
            /\ \A r \in db.exz : r \in ExzRows /\ IsFiniteSet(r.ranges)
      BY SpectrumAssumption DEF SpectrumInv, TablesOK, ExzOK
    <3>2. IsFiniteSet(db.exz \cup {e})
      BY <3>1, FS_AddElement
    <3> QED BY <3>1, <3>2 DEF ExzOK
  <2> QED BY <2>2, <2>3 DEF SpectrumInv, ShapeOK, Tables, TablesOK, NtiaOK, WispsOK, PalsOK,
                            PpasOK, OwnersOK, MakingOK, Retained
<1>2. CASE EnableNtia
  <2>1. db' = [db EXCEPT !.ntia = TRUE] /\ UNCHANGED << making, syncing >> /\ Usable(NtiaContour)
    BY <1>2 DEF EnableNtia, Admin
  <2> QED BY <2>1 DEF SpectrumInv, ShapeOK, Tables, TablesOK, ExzOK, NtiaOK, WispsOK, PalsOK,
                      PpasOK, OwnersOK, MakingOK, Retained
<1>3. CASE \E f \in ExzFeeds : SyncExz(f)
  <2>1. PICK feed \in ExzFeeds : SyncExz(feed)
    BY <1>3
  <2> DEFINE stored == {[e EXCEPT !.ranges = IF @ = {} THEN {DefaultRange} ELSE @] :
                          e \in {f \in feed : f.zone # {}}}
  <2>2. db' = [db EXCEPT !.exz = stored, !.gens = Bumped(@, "exz")] /\ UNCHANGED << making, syncing >>
    BY <2>1 DEF SyncExz, Admin
  <2>3. ExzOK(stored)
    BY SpectrumAssumption, ExzFeedStored
  <2> HIDE DEF stored
  <2> QED BY <2>2, <2>3 DEF SpectrumInv, ShapeOK, Tables, TablesOK, NtiaOK, WispsOK, PalsOK,
                            PpasOK, OwnersOK, MakingOK, Retained
<1> QED BY <1>1, <1>2, <1>3

(* An injected WISP licence.                                               *)
LEMMA WispStep ==
    ASSUME SpectrumInv, NEW w \in WispRecords, InjectGwpz(w)
    PROVE  SpectrumInv' /\ Retained
<1>1. db' = [db EXCEPT !.wisp = Upsert(@, w), !.inj = @ + 1] /\ UNCHANGED << making, syncing >>
  BY DEF InjectGwpz, Admin
<1>2. IsFiniteSet(db.wisp) /\ WispOK(w) /\ \A v \in db.wisp : WispOK(v)
  BY SpectrumAssumption DEF SpectrumInv, TablesOK, WispsOK
<1>3. IsFiniteSet(Upsert(db.wisp, w)) /\ \A v \in Upsert(db.wisp, w) : WispOK(v)
  BY <1>2, UpsertRows
<1> QED BY <1>1, <1>3 DEF SpectrumInv, ShapeOK, Tables, TablesOK, ExzOK, NtiaOK, WispsOK,
                          PalsOK, PpasOK, OwnersOK, MakingOK, Retained

(* PALs injected and synchronised.                                         *)
LEMMA PalStep ==
    ASSUME SpectrumInv,
           \/ \E p \in PalRecords : InjectPal(p)
           \/ \E f \in PalFeeds : SyncPal(f)
    PROVE  SpectrumInv' /\ Retained
<1>1. CASE \E p \in PalRecords : InjectPal(p)
  <2>1. PICK p \in PalRecords : InjectPal(p)
    BY <1>1
  <2>2. db' = [db EXCEPT !.pals = Upsert(@, p)] /\ UNCHANGED << making, syncing >>
    BY <2>1 DEF InjectPal, Admin
  <2>3. PalOK(p) /\ \A q \in db.pals : PalOK(q)
    BY SpectrumAssumption DEF SpectrumInv, TablesOK, PalsOK
  <2>4. \A q \in Upsert(db.pals, p) : PalOK(q)
    BY <2>3, UpsertRows
  <2> QED BY <2>2, <2>4 DEF SpectrumInv, ShapeOK, Tables, TablesOK, ExzOK, NtiaOK, WispsOK,
                            PalsOK, PpasOK, OwnersOK, MakingOK, Retained
<1>2. CASE \E f \in PalFeeds : SyncPal(f)
  <2>1. PICK feed \in PalFeeds : SyncPal(feed)
    BY <1>2
  <2>2. db' = [db EXCEPT !.pals = feed, !.inj = @ + 1] /\ UNCHANGED << making, syncing >>
    BY <2>1 DEF SyncPal, Admin
  <2>3. \A q \in feed : PalOK(q)
    BY SpectrumAssumption
  <2> QED BY <2>2, <2>3 DEF SpectrumInv, ShapeOK, Tables, TablesOK, ExzOK, NtiaOK, WispsOK,
                            PalsOK, PpasOK, OwnersOK, MakingOK, Retained
<1> QED BY <1>1, <1>2

(* Tables an inquiry does not read, and the generations.                   *)
LEMMA OtherTablesStep ==
    ASSUME SpectrumInv,
           \/ \E p \in GwblPoints : InjectGwblPoint(p)
           \/ \E l \in ClusterLists : InjectClusterList(l)
           \/ \E f \in GwblFeeds : SyncGwbl(f)
           \/ SyncDpa
    PROVE  SpectrumInv' /\ Retained
<1> USE DEF SpectrumInv, ShapeOK, Tables, TablesOK, ExzOK, NtiaOK, WispsOK, PalsOK, PpasOK,
            OwnersOK, MakingOK, Retained, Admin
<1>1. CASE \E p \in GwblPoints : InjectGwblPoint(p)
  BY <1>1 DEF InjectGwblPoint
<1>2. CASE \E l \in ClusterLists : InjectClusterList(l)
  <2>1. PICK clusters, inj : db' = [db EXCEPT !.clusters = clusters, !.inj = inj]
                             /\ UNCHANGED << making, syncing >>
    BY <1>2 DEF InjectClusterList
  <2> QED BY <2>1
<1>3. CASE \E f \in GwblFeeds : SyncGwbl(f)
  BY <1>3 DEF SyncGwbl
<1>4. CASE SyncDpa
  BY <1>4 DEF SyncDpa
<1> QED BY <1>1, <1>2, <1>3, <1>4

(* What an injection or a synchronisation leaves of the stations and their *)
(* owners is all that matters to the invariant.                            *)
LEMMA FssChanges ==
    ASSUME SpectrumInv, UNCHANGED making,
           NEW fss, NEW admin, NEW federal, NEW gens, NEW inj,
           db' = [db EXCEPT !.fss = fss, !.admin = admin, !.federal = federal,
                            !.gens = gens, !.inj = inj],
           OwnersOK'
    PROVE  /\ SpectrumInv'
           /\ db'.fss = fss /\ db'.admin = admin /\ db'.federal = federal
BY DEF SpectrumInv, ShapeOK, Tables, TablesOK, ExzOK, NtiaOK, WispsOK, PalsOK, PpasOK, MakingOK

(* An injected earth station becomes the administrator's; a synchronisation*)
(* takes over the ids it names and drops only what it has read to be an    *)
(* earlier feed's.                                                         *)
LEMMA FssStep ==
    ASSUME SpectrumInv,
           \/ \E f \in FssRecords : InjectFss(f) \/ InjectFssAcrossSync(f)
           \/ \E f \in FssFeeds : ReadFss(f)
           \/ SyncFss \/ RollBackFss
    PROVE  SpectrumInv' /\ Retained
<1>0. OwnersOK /\ ShapeOK
  BY DEF SpectrumInv
<1>1. ASSUME NEW rec \in FssRecords, InjectFss(rec)
      PROVE  SpectrumInv' /\ Retained
  <2> DEFINE fss == Upsert(db.fss, rec)
             admin == db.admin \cup {rec.id}
             federal == db.federal \ {rec.id}
             gens == Bumped(db.gens, "fss")
             inj == db.inj + 1
  <2>1. db' = [db EXCEPT !.fss = fss, !.admin = admin, !.federal = federal,
                         !.gens = gens, !.inj = inj]
        /\ UNCHANGED << making, syncing >>
    BY <1>1 DEF InjectFss, Admin
  <2> HIDE DEF fss, admin, federal, gens, inj
  <2>2. db'.admin = admin /\ db'.federal = federal /\ db'.fss = fss
    BY <1>0, <2>1 DEF ShapeOK, Tables
  <2>3. OwnersOK'
    BY <1>0, <2>1, <2>2 DEF OwnersOK, admin, federal
  <2>4. SpectrumInv'
    BY <2>1, <2>3, FssChanges
  <2>5. \A f \in db.fss : \E g \in fss : g.id = f.id
    BY UpsertRows DEF fss
  <2> QED BY <2>2, <2>4, <2>5 DEF Retained, admin
<1>2. ASSUME NEW feed \in FssFeeds, ReadFss(feed)
      PROVE  SpectrumInv' /\ Retained
  <2>1. syncing' = [feed |-> feed, admin |-> db.admin,
                    gone |-> {f.id : f \in db.fss} \cap db.federal]
        /\ UNCHANGED << db, making >>
    BY <1>2 DEF ReadFss
  <2>2. OwnersOK'
    BY <1>0, <2>1 DEF OwnersOK
  <2> QED BY <2>1, <2>2 DEF SpectrumInv, ShapeOK, TablesOK, ExzOK, NtiaOK, WispsOK, PalsOK,
                            PpasOK, MakingOK, Retained
<1>3. CASE RollBackFss
  <2>1. syncing' = Nothing /\ UNCHANGED << db, making >>
    BY <1>3 DEF RollBackFss
  <2>2. OwnersOK'
    BY <1>0, <2>1 DEF OwnersOK
  <2> QED BY <2>1, <2>2 DEF SpectrumInv, ShapeOK, TablesOK, ExzOK, NtiaOK, WispsOK, PalsOK,
                            PpasOK, MakingOK, Retained
<1>4. ASSUME syncing # Nothing
      PROVE  LET kept == {f \in db.fss : f.id \notin syncing.gone \cup FeedIds} IN
             /\ Synced = [db EXCEPT !.fss = kept \cup syncing.feed,
                                    !.federal = FeedIds, !.admin = syncing.admin \ FeedIds,
                                    !.gens = Bumped(@, "fss")]
             /\ \A f \in db.fss : f.id \in syncing.admin =>
                   \E g \in kept \cup syncing.feed : g.id = f.id
  BY <1>0, <1>4 DEF Synced, OwnersOK, FeedIds
<1>5. CASE SyncFss
  <2> DEFINE fss == {f \in db.fss : f.id \notin syncing.gone \cup FeedIds} \cup syncing.feed
             admin == syncing.admin \ FeedIds
             federal == FeedIds
             gens == Bumped(db.gens, "fss")
             inj == db.inj
  <2>0. UNCHANGED making
    BY <1>5 DEF SyncFss
  <2>1. db' = [db EXCEPT !.fss = fss, !.federal = federal, !.admin = admin, !.gens = gens]
        /\ syncing # Nothing /\ syncing' = Nothing
    BY <1>4, <1>5 DEF SyncFss
  <2>2. \A f \in db.fss : f.id \in syncing.admin => \E g \in fss : g.id = f.id
    BY <1>4, <2>1
  <2> HIDE DEF fss, admin, federal, gens
  <2>3. db' = [db EXCEPT !.fss = fss, !.admin = admin, !.federal = federal,
                         !.gens = gens, !.inj = inj]
    BY <1>0, <2>1 DEF ShapeOK, Tables, inj
  <2> HIDE DEF inj
  <2>4. db'.admin = admin /\ db'.federal = federal /\ db'.fss = fss
    BY <1>0, <2>3 DEF ShapeOK, Tables
  <2>5. OwnersOK'
    BY <2>1, <2>4 DEF OwnersOK, admin, federal
  <2>6. SpectrumInv'
    BY <2>0, <2>3, <2>5, FssChanges
  <2> QED BY <2>1, <2>2, <2>4, <2>6 DEF Retained, Known, admin, federal
<1>6. ASSUME NEW rec \in FssRecords, InjectFssAcrossSync(rec)
      PROVE  SpectrumInv' /\ Retained
  <2> DEFINE left == {f \in db.fss : f.id \notin syncing.gone \cup FeedIds} \cup syncing.feed
             fss == Upsert(left, rec)
             admin == db.admin \cup {rec.id}
             federal == db.federal \ {rec.id}
             gens == Bumped(Bumped(db.gens, "fss"), "fss")
             inj == db.inj + 1
  <2>1. syncing # Nothing /\ syncing' = Nothing /\ UNCHANGED making
    BY <1>6 DEF InjectFssAcrossSync
  <2>2. Synced = [db EXCEPT !.fss = left, !.federal = FeedIds, !.admin = syncing.admin \ FeedIds,
                            !.gens = Bumped(db.gens, "fss")]
    BY <1>4, <2>1
  <2>3. \A f \in db.fss : f.id \in syncing.admin => \E g \in left : g.id = f.id
    BY <1>4, <2>1
  <2> HIDE DEF left
  <2>4. Synced.fss = left /\ Synced.gens = Bumped(db.gens, "fss") /\ Synced.inj = db.inj
    BY <1>0, <2>2 DEF ShapeOK, Tables
  <2>5. db' = [Synced EXCEPT !.fss = fss, !.gens = gens, !.inj = inj, !.admin = admin,
                             !.federal = federal]
    BY <1>6, <2>4 DEF InjectFssAcrossSync
  <2>6. \A f \in left : \E g \in fss : g.id = f.id
    BY UpsertRows
  <2> HIDE DEF fss, admin, federal, gens, inj
  <2>7. db' = [db EXCEPT !.fss = fss, !.admin = admin, !.federal = federal,
                         !.gens = gens, !.inj = inj]
    BY <1>0, <2>2, <2>5 DEF ShapeOK, Tables
  <2>8. db'.admin = admin /\ db'.federal = federal /\ db'.fss = fss
    BY <1>0, <2>7 DEF ShapeOK, Tables
  <2>9. OwnersOK'
    BY <1>0, <2>1, <2>8 DEF OwnersOK, admin, federal
  <2>10. SpectrumInv'
    BY <2>1, <2>7, <2>9, FssChanges
  <2> QED BY <2>1, <2>3, <2>6, <2>8, <2>10 DEF Retained, Known, admin
<1> QED BY <1>1, <1>2, <1>3, <1>5, <1>6

(* PPAs: injected, validated and written.                                  *)
LEMMA PpaStep ==
    ASSUME SpectrumInv,
           \/ \E z \in PpaZones : InjectZone(z)
           \/ \E p \in Creators, b \in PpaRequests : ValidatePpa(p, b)
           \/ \E p \in Creators : PersistPpa(p)
    PROVE  SpectrumInv' /\ Retained
<1>0. PpasOK(db) /\ MakingOK
  BY DEF SpectrumInv, TablesOK
<1>1. CASE \E z \in PpaZones : InjectZone(z)
  <2>1. PICK z \in PpaZones : InjectZone(z)
    BY <1>1
  <2>2. PICK row : db' = [db EXCEPT !.ppas = IF row = 0 THEN Append(@, z)
                                             ELSE [@ EXCEPT ![row] = z],
                                    !.inj = @ + 1]
                   /\ UNCHANGED << making, syncing >>
    BY <2>1 DEF InjectZone, Admin
  <2>3. PpaOK(z)
    BY SpectrumAssumption
  <2>4. db'.ppas = IF row = 0 THEN Append(db.ppas, z) ELSE [db.ppas EXCEPT ![row] = z]
    BY <2>2 DEF SpectrumInv, ShapeOK, Tables
  <2>5. PpasOK(db')
    <3>1. CASE row = 0
      BY <1>0, <2>3, <2>4, <3>1, PpaAppended
    <3>2. CASE row # 0
      BY <1>0, <2>3, <2>4, <3>2, PpaReplaced
    <3> QED BY <3>1, <3>2
  <2> QED BY <2>2, <2>5 DEF SpectrumInv, ShapeOK, Tables, TablesOK, ExzOK, NtiaOK, WispsOK,
                            PalsOK, PpasOK, OwnersOK, MakingOK, Retained
<1>2. CASE \E p \in Creators, b \in PpaRequests : ValidatePpa(p, b)
  <2>1. PICK p \in Creators, b \in PpaRequests : ValidatePpa(p, b)
    BY <1>2
  <2>2. UNCHANGED << db, syncing >> /\ making' = [making EXCEPT ![p] = PpaRecord(db, b)]
    BY <2>1 DEF ValidatePpa
  <2>3. PpaOK(PpaRecord(db, b))
    <3>1. PpaOK(b) /\ PpaRecord(db, b).pals = b.pals
      BY SpectrumAssumption DEF PpaRecord
    <3> QED BY <3>1 DEF PpaOK
  <2>4. MakingOK'
    BY <1>0, <2>2, <2>3 DEF MakingOK
  <2> QED BY <2>2, <2>4 DEF SpectrumInv, ShapeOK, TablesOK, ExzOK, NtiaOK, WispsOK, PalsOK,
                            PpasOK, OwnersOK, Retained
<1>3. CASE \E p \in Creators : PersistPpa(p)
  <2>1. PICK p \in Creators : PersistPpa(p)
    BY <1>3
  <2>2. making[p] # Nothing /\ making' = [making EXCEPT ![p] = Nothing]
        /\ db' = [db EXCEPT !.ppas = Append(@, making[p]), !.inj = @ + 1]
        /\ UNCHANGED syncing
    BY <2>1 DEF PersistPpa
  <2>3. PpaOK(making[p])
    BY <1>0, <2>2 DEF MakingOK
  <2>4. db'.ppas = Append(db.ppas, making[p])
    BY <2>2 DEF SpectrumInv, ShapeOK, Tables
  <2>5. PpasOK(db')
    BY <1>0, <2>3, <2>4, PpaAppended
  <2>6. MakingOK'
    BY <1>0, <2>2 DEF MakingOK
  <2> QED BY <2>2, <2>5, <2>6 DEF SpectrumInv, ShapeOK, Tables, TablesOK, ExzOK, NtiaOK,
                                  WispsOK, PalsOK, PpasOK, OwnersOK, Retained
<1> QED BY <1>1, <1>2, <1>3

(* Every step, whatever it changes.                                        *)
LEMMA NextSpectrumInv ==
    ASSUME SpectrumInv, [Next]_vars
    PROVE  SpectrumInv' /\ Retained
<1>1. CASE UNCHANGED << db, making, syncing >>
  BY <1>1, TablesUnchanged
<1>2. CASE ~UNCHANGED << db, making, syncing >>
  <2>1. \/ \E q \in Requests, dpa \in BOOLEAN : ScreenRequest(q, dpa)
        \/ \E d \in draft, violates \in BOOLEAN : InsertGrant(d, violates)
        \/ \E g \in grants, moved, expired \in BOOLEAN : Heartbeat(g, moved, expired)
        \/ Freeze
        \/ \E others \in SUBSET grants : Apply(others)
        \/ UNCHANGED vars
        => UNCHANGED << db, making, syncing >>
    BY DEF ScreenRequest, InsertGrant, Heartbeat, Freeze, Apply, vars
  <2> QED BY <1>2, <2>1, ExzStep, WispStep, PalStep, OtherTablesStep, FssStep, PpaStep
          DEF Next
<1> QED BY <1>1, <1>2

(* In every state the tables are well formed, no earth station is both an  *)
(* administrator's and a feed's, and a synchronisation in progress drops   *)
(* none that was an administrator's when it read.                          *)
(* (fss_provenance.py:156-173, federal_db_service.py:107-132,              *)
(* zone_service.py, ppa_service.py:536-560)                                *)
THEOREM TablesCorrect == Spec => []SpectrumInv
<1>1. SpectrumInv /\ [Next]_vars => SpectrumInv'
  BY NextSpectrumInv
<1> QED BY InitSpectrumInv, <1>1, PTL DEF Spec

(* AdminFssRetained: an earth station of an administrator stays, and stays *)
(* the administrator's until a feed claims it, unless it became one after  *)
(* a synchronisation in progress had read who owns what.                   *)
(* (fss_provenance.py:156-173, federal_db_service.py:107-132)              *)
THEOREM AdminStationsStay == Spec => AdminFssRetained
<1>1. SpectrumInv /\ [Next]_vars =>
        [\A f \in db.fss : (f.id \in db.admin /\ Known(f.id)) =>
            /\ \E g \in db'.fss : g.id = f.id
            /\ f.id \in db'.admin \cup db'.federal]_vars
  BY NextSpectrumInv DEF Retained
<1>2. Spec => [][Next]_vars
  BY PTL DEF Spec
<1> QED BY <1>1, <1>2, TablesCorrect, PTL DEF AdminFssRetained

(* InquiryIsExact: whatever is injected, synchronised or created, an       *)
(* inquiry withholds what is withheld and nothing else.                    *)
(* (spectrum_inquiry_service.py:41-81,151-277)                             *)
THEOREM InquiriesExact == Spec => []InquiryIsExact
<1>1. SpectrumInv => InquiryIsExact
  BY ExactOffers DEF SpectrumInv
<1> QED BY <1>1, TablesCorrect, PTL

(* OffersAreScreened: what an inquiry offers as GAA the location screens   *)
(* of the grant handler let through.                                       *)
(* (spectrum_inquiry_service.py:151-215, grant_service.py:307-359)         *)
THEOREM OffersPassScreens == Spec => []OffersAreScreened
<1>1. SpectrumInv => OffersAreScreened
  BY ScreenedOffers DEF SpectrumInv
<1> QED BY <1>1, TablesCorrect, PTL
==============================================================================
