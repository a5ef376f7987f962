-------------------------- MODULE Evaluation_proof --------------------------
(***************************************************************************)
(* Proofs about Evaluation and Iap for every snapshot, every number of     *)
(* grants, points and channels and every path loss.  First the facts about *)
(* sums over finite sets everything rests on; then the allocation at one   *)
(* point, the plan merged over all points, and the move lists of the DPAs. *)
(***************************************************************************)
EXTENDS Evaluation, FiniteSetTheorems, TLAPS

-----------------------------------------------------------------------------
(* Induction.                                                              *)

(* A set of natural numbers has a least element.                           *)
LEMMA LeastNumber ==
    ASSUME NEW N \in SUBSET Nat, N # {}
    PROVE  \E k \in N : \A m \in N : k <= m
<1>1. PICK k \in N : \A m \in N : <<m, k>> \notin OpToRel(<, Nat)
  BY WFMin, NatLessThanWellFounded, Zenon
<1>2. \A m \in N : ~(m < k)
  BY <1>1, Zenon DEF OpToRel
<1>3. \A m \in N : k <= m
  BY <1>2
<1> QED BY <1>3

(* Among subsets of a finite set, if there are bad ones, one is smallest.  *)
LEMMA SmallestBad ==
    ASSUME NEW S, IsFiniteSet(S), NEW Bad \in SUBSET (SUBSET S), Bad # {}
    PROVE  \E s \in Bad : \A t \in SUBSET s : t # s => t \notin Bad
<1>1. IsWellFoundedOn(StrictSubsetOrdering(S), SUBSET S)
  BY FS_StrictSubsetOrderingWellFounded, FS_FiniteSubsetsOfFinite
<1>2. PICK s \in Bad : \A t \in Bad : <<t, s>> \notin StrictSubsetOrdering(S)
  BY <1>1, WFMin, Zenon
<1>3. \A t \in SUBSET s : t \in Bad /\ t # s => <<t, s>> \in StrictSubsetOrdering(S)
  BY DEF StrictSubsetOrdering
<1>4. \A t \in SUBSET s : t # s => t \notin Bad
  BY <1>2, <1>3, Zenon
<1> QED BY <1>4, Zenon

-----------------------------------------------------------------------------
(* Sums of a function over a finite set.                                   *)

Solves(h, f, D) ==
    h = [s \in D |-> IF s = {} THEN 0
                     ELSE LET x == CHOOSE y \in s : TRUE IN f[x] + h[s \ {x}]]

SumTable(h, f, S) == Solves(h, f, SUBSET S)

(* The recursion a sum is defined by has a solution.                       *)
LEMMA FoldExists ==
    ASSUME NEW f, NEW S, IsFiniteSet(S)
    PROVE  \E h : SumTable(h, f, S)
<1> DEFINE Upto(n) == {s \in SUBSET S : Cardinality(s) <= n}
           Solved(n) == \E h : Solves(h, f, Upto(n))
           Bad == {n \in Nat : ~Solved(n)}
<1>0. \A s \in SUBSET S : IsFiniteSet(s) /\ Cardinality(s) \in Nat
  BY FS_Subset, FS_CardinalityType
<1>1. Solved(0)
  <2> DEFINE h == [s \in Upto(0) |-> 0]
  <2>1. \A s \in Upto(0) : s = {}
    BY <1>0, FS_EmptySet
  <2>2. Solves(h, f, Upto(0))
    BY <2>1 DEF Solves
  <2> QED BY <2>2
<1>2. ASSUME NEW n \in Nat, Solved(n) PROVE Solved(n + 1)
  <2>1. PICK g : Solves(g, f, Upto(n))
    BY <1>2
  <2> DEFINE h == [s \in Upto(n + 1) |->
                     IF s = {} THEN 0
                     ELSE LET x == CHOOSE y \in s : TRUE IN f[x] + g[s \ {x}]]
  <2>2. \A s \in Upto(n) : s \in Upto(n + 1)
    BY <1>0
  <2>3. \A s \in Upto(n) : h[s] = g[s]
    BY <2>1, <2>2 DEF Solves
  <2>4. ASSUME NEW s \in Upto(n + 1), s # {}, NEW x \in s
        PROVE  s \ {x} \in Upto(n)
    <3>1. Cardinality(s \ {x}) = Cardinality(s) - 1
      BY <1>0, FS_RemoveElement
    <3>2. s \ {x} \in SUBSET S
      OBVIOUS
    <3> QED BY <1>0, <3>1, <3>2
  <2>5. \A s \in Upto(n + 1) :
           s # {} => LET x == CHOOSE y \in s : TRUE IN g[s \ {x}] = h[s \ {x}]
    BY <2>3, <2>4
  <2> DEFINE D == Upto(n + 1)
  <2>6. h = [s \in D |-> IF s = {} THEN 0
                         ELSE LET x == CHOOSE y \in s : TRUE IN f[x] + h[s \ {x}]]
    <3>1. \A s \in D : h[s] = IF s = {} THEN 0
                              ELSE LET x == CHOOSE y \in s : TRUE IN f[x] + g[s \ {x}]
      OBVIOUS
    <3>2. \A s \in D : s # {} => LET x == CHOOSE y \in s : TRUE IN g[s \ {x}] = h[s \ {x}]
      BY <2>5
    <3>3. h = [s \in D |-> h[s]]
      OBVIOUS
    <3> HIDE DEF h, D
    <3>4. \A s \in D : h[s] = IF s = {} THEN 0
                              ELSE LET x == CHOOSE y \in s : TRUE IN f[x] + h[s \ {x}]
      BY <3>1, <3>2
    <3> QED BY <3>3, <3>4
  <2> QED BY <2>6 DEF Solves
<1>3. \A n \in Nat : Solved(n)
  <2> SUFFICES ASSUME Bad # {} PROVE FALSE
    OBVIOUS
  <2> HIDE DEF Solved
  <2>1. PICK k \in Bad : \A m \in Bad : k <= m
    BY LeastNumber
  <2>2. k # 0
    BY <1>1, <2>1
  <2>3. k - 1 \in Nat /\ k - 1 \notin Bad
    BY <2>1, <2>2
  <2>4. Solved((k - 1) + 1)
    BY <1>2, <2>3
  <2> QED BY <2>1, <2>2, <2>4
<1>4. Cardinality(S) \in Nat /\ Upto(Cardinality(S)) = SUBSET S
  BY <1>0, FS_Subset
<1> QED BY <1>3, <1>4 DEF SumTable

(* The sum is such a solution at the whole set.                            *)
LEMMA SumUnfolds ==
    ASSUME NEW f, NEW S, IsFiniteSet(S)
    PROVE  \E h : SumTable(h, f, S) /\ SumFunctionOnSet(f, S) = h[S]
<1> DEFINE iter[s \in SUBSET S] ==
             IF s = {} THEN 0 ELSE LET x == CHOOSE y \in s : TRUE IN f[x] + iter[s \ {x}]
<1>1. SumFunctionOnSet(f, S) = iter[S]
  BY DEF SumFunctionOnSet, FoldFunctionOnSet, MapThenFoldSet
<1>2. iter = CHOOSE h : SumTable(h, f, S)
  BY DEF SumTable, Solves
<1> HIDE DEF iter
<1>3. SumTable(iter, f, S)
  BY <1>2, FoldExists
<1> QED BY <1>1, <1>3

(* Solutions over a set and over a subset agree.                           *)
LEMMA FoldsAgree ==
    ASSUME NEW f, NEW S, IsFiniteSet(S), NEW T \in SUBSET S,
           NEW g, SumTable(g, f, S), NEW h, SumTable(h, f, T)
    PROVE  g[T] = h[T]
<1> DEFINE Bad == {s \in SUBSET T : g[s] # h[s]}
<1> SUFFICES ASSUME Bad # {} PROVE FALSE
  OBVIOUS
<1>0. IsFiniteSet(T)
  BY FS_Subset
<1>1. Bad \in SUBSET (SUBSET T)
  OBVIOUS
<1> HIDE DEF Bad
<1>2. PICK s \in Bad : \A t \in SUBSET s : t # s => t \notin Bad
  BY <1>0, <1>1, SmallestBad, Zenon
<1>3. s \in SUBSET T /\ s \in SUBSET S /\ g[s] # h[s]
  BY <1>2 DEF Bad
<1>4. s # {}
  BY <1>3 DEF SumTable, Solves
<1> DEFINE x == CHOOSE y \in s : TRUE
<1>5. x \in s
  BY <1>4
<1>6. g[s] = f[x] + g[s \ {x}] /\ h[s] = f[x] + h[s \ {x}]
  BY <1>3, <1>4 DEF SumTable, Solves
<1> HIDE DEF x
<1>7. s \ {x} \in SUBSET s /\ s \ {x} # s
  BY <1>5
<1>8. g[s \ {x}] = h[s \ {x}]
  BY <1>2, <1>3, <1>7 DEF Bad
<1> QED BY <1>3, <1>6, <1>8

(* The sum of a set starts with some element of it.                        *)
LEMMA SumStep ==
    ASSUME NEW f, NEW S, IsFiniteSet(S)
    PROVE  /\ S = {} => SumFunctionOnSet(f, S) = 0
           /\ S # {} => \E x \in S : SumFunctionOnSet(f, S) = f[x] + SumFunctionOnSet(f, S \ {x})
<1>1. PICK h : SumTable(h, f, S) /\ SumFunctionOnSet(f, S) = h[S]
  BY SumUnfolds
<1>2. ASSUME S = {} PROVE SumFunctionOnSet(f, S) = 0
  BY <1>1, <1>2 DEF SumTable, Solves
<1>3. ASSUME S # {}
      PROVE  \E x \in S : SumFunctionOnSet(f, S) = f[x] + SumFunctionOnSet(f, S \ {x})
  <2> DEFINE x == CHOOSE y \in S : TRUE
  <2>1. x \in S
    BY <1>3
  <2>2. h[S] = f[x] + h[S \ {x}]
    BY <1>1, <1>3 DEF SumTable, Solves
  <2> HIDE DEF x
  <2>3. IsFiniteSet(S \ {x}) /\ S \ {x} \in SUBSET S
    BY FS_RemoveElement
  <2>4. PICK g : SumTable(g, f, S \ {x}) /\ SumFunctionOnSet(f, S \ {x}) = g[S \ {x}]
    BY <2>3, SumUnfolds
  <2> DEFINE T == S \ {x}
  <2>5. h[T] = g[T]
    <3>1. T \in SUBSET S /\ SumTable(g, f, T) /\ SumTable(h, f, S)
      BY <1>1, <2>3, <2>4
    <3> HIDE DEF T
    <3> QED BY <3>1, FoldsAgree
  <2> QED BY <1>1, <2>1, <2>2, <2>4, <2>5
<1> QED BY <1>2, <1>3

(* Any element may come first.                                             *)
LEMMA SumElement ==
    ASSUME NEW f, NEW S, IsFiniteSet(S), \A x \in S : f[x] \in Nat
    PROVE  /\ SumFunctionOnSet(f, S) \in Nat
           /\ \A x \in S : SumFunctionOnSet(f, S) = f[x] + SumFunctionOnSet(f, S \ {x})
<1> DEFINE Sum(s) == SumFunctionOnSet(f, s)
           Good(s) == Sum(s) \in Nat /\ \A x \in s : Sum(s) = f[x] + Sum(s \ {x})
           Bad == {s \in SUBSET S : ~Good(s)}
<1> SUFFICES ASSUME Bad # {} PROVE FALSE
  OBVIOUS
<1> HIDE DEF Good
<1>0. Bad \in SUBSET (SUBSET S)
  OBVIOUS
<1>1. PICK s \in Bad : \A t \in SUBSET s : t # s => t \notin Bad
  <2> HIDE DEF Bad
  <2> QED BY <1>0, SmallestBad, Zenon
<1>2. IsFiniteSet(s) /\ s \in SUBSET S /\ ~Good(s)
  BY <1>1, FS_Subset
<1>3. \A t \in SUBSET s : t # s => Good(t)
  BY <1>1, <1>2
<1> HIDE DEF Bad
<1> USE DEF Good
<1>4. s # {}
  <2>1. Good({})
    BY SumStep, FS_EmptySet
  <2> HIDE DEF Good
  <2> QED BY <1>2, <2>1
<1>5. PICK x \in s : Sum(s) = f[x] + Sum(s \ {x})
  BY <1>2, <1>4, SumStep
<1>6. Good(s \ {x})
  BY <1>3
<1>7. f[x] \in Nat /\ Sum(s \ {x}) \in Nat
  BY <1>2, <1>6
<1>8. ASSUME NEW y \in s, y # x
      PROVE  Sum(s) = f[y] + Sum(s \ {y})
  <2> DEFINE rest == (s \ {x}) \ {y}
  <2>1. Sum(s \ {x}) = f[y] + Sum(rest)
    BY <1>6, <1>8
  <2>2. Good(s \ {y}) /\ Good(rest)
    BY <1>3
  <2>3. (s \ {y}) \ {x} = rest
    OBVIOUS
  <2>4. Sum(s \ {y}) = f[x] + Sum(rest)
    BY <1>8, <2>2, <2>3
  <2>5. f[y] \in Nat /\ Sum(rest) \in Nat
    BY <1>2, <2>2
  <2> HIDE DEF rest
  <2> QED BY <1>5, <1>7, <2>1, <2>4, <2>5
<1>9. Good(s)
  <2>1. \A y \in s : Sum(s) = f[y] + Sum(s \ {y})
    BY <1>5, <1>8
  <2>2. Sum(s) \in Nat
    BY <1>5, <1>7
  <2> HIDE DEF Sum
  <2> QED BY <2>1, <2>2
<1> QED BY <1>2, <1>9

(* Nothing adds up to zero.                                                *)
LEMMA SumEmpty ==
    ASSUME NEW f
    PROVE  SumFunctionOnSet(f, {}) = 0
BY SumStep, FS_EmptySet

(* A new element adds its value.                                           *)
LEMMA SumAdd ==
    ASSUME NEW f, NEW S, IsFiniteSet(S), NEW x, x \notin S, \A y \in S \cup {x} : f[y] \in Nat
    PROVE  SumFunctionOnSet(f, S \cup {x}) = f[x] + SumFunctionOnSet(f, S)
<1>1. IsFiniteSet(S \cup {x})
  BY FS_AddElement
<1>2. (S \cup {x}) \ {x} = S
  OBVIOUS
<1> DEFINE T == S \cup {x}
<1>3. x \in T /\ IsFiniteSet(T) /\ T \ {x} = S /\ \A y \in T : f[y] \in Nat
  BY <1>1, <1>2
<1> HIDE DEF T
<1>4. SumFunctionOnSet(f, T) = f[x] + SumFunctionOnSet(f, T \ {x})
  BY <1>3, SumElement
<1> QED BY <1>3, <1>4 DEF T

(* Functions that agree have the same sum.                                 *)
LEMMA SumAgree ==
    ASSUME NEW S, IsFiniteSet(S), NEW f, NEW g, \A x \in S : f[x] \in Nat /\ f[x] = g[x]
    PROVE  SumFunctionOnSet(f, S) = SumFunctionOnSet(g, S)
<1> DEFINE Good(s) == SumFunctionOnSet(f, s) = SumFunctionOnSet(g, s)
           Bad == {s \in SUBSET S : ~Good(s)}
<1> SUFFICES ASSUME Bad # {} PROVE FALSE
  OBVIOUS
<1>0. Bad \in SUBSET (SUBSET S)
  OBVIOUS
<1>1. PICK s \in Bad : \A t \in SUBSET s : t # s => t \notin Bad
  <2> HIDE DEF Bad
  <2> QED BY <1>0, SmallestBad, Zenon
<1>2. IsFiniteSet(s) /\ s \in SUBSET S /\ ~Good(s)
  BY <1>1, FS_Subset
<1>3. \A t \in SUBSET s : t # s => Good(t)
  BY <1>1, <1>2
<1> HIDE DEF Bad
<1>4. PICK x \in s : TRUE
  BY <1>2, SumEmpty
<1>5. \A y \in s : f[y] \in Nat /\ g[y] \in Nat /\ f[y] = g[y]
  BY <1>2
<1>6. /\ SumFunctionOnSet(f, s) = f[x] + SumFunctionOnSet(f, s \ {x})
      /\ SumFunctionOnSet(g, s) = g[x] + SumFunctionOnSet(g, s \ {x})
  BY <1>2, <1>4, <1>5, SumElement
<1>7. Good(s \ {x})
  BY <1>3, <1>4
<1> QED BY <1>2, <1>4, <1>5, <1>6, <1>7

(* The sum over two sets that are apart.                                   *)
LEMMA SumApart ==
    ASSUME NEW S, IsFiniteSet(S), NEW T, IsFiniteSet(T), S \cap T = {},
           NEW f, \A x \in S \cup T : f[x] \in Nat
    PROVE  SumFunctionOnSet(f, S \cup T) = SumFunctionOnSet(f, S) + SumFunctionOnSet(f, T)
<1> DEFINE Good(s) == SumFunctionOnSet(f, s \cup T) = SumFunctionOnSet(f, s) + SumFunctionOnSet(f, T)
           Bad == {s \in SUBSET S : ~Good(s)}
<1> SUFFICES ASSUME Bad # {} PROVE FALSE
  OBVIOUS
<1>0. Bad \in SUBSET (SUBSET S)
  OBVIOUS
<1>1. PICK s \in Bad : \A t \in SUBSET s : t # s => t \notin Bad
  <2> HIDE DEF Bad
  <2> QED BY <1>0, SmallestBad, Zenon
<1>2. IsFiniteSet(s) /\ s \in SUBSET S /\ ~Good(s)
  BY <1>1, FS_Subset
<1>3. \A t \in SUBSET s : t # s => Good(t)
  BY <1>1, <1>2
<1> HIDE DEF Bad
<1>4. SumFunctionOnSet(f, T) \in Nat
  BY SumElement
<1>5. PICK x \in s : TRUE
  <2>1. {} \cup T = T
    OBVIOUS
  <2>2. Good({})
    BY <1>4, <2>1, SumEmpty
  <2> QED BY <1>2, <2>2
<1>6. /\ SumFunctionOnSet(f, s) = f[x] + SumFunctionOnSet(f, s \ {x})
      /\ SumFunctionOnSet(f, s \ {x}) \in Nat
  <2>1. \A y \in s : f[y] \in Nat
    BY <1>2
  <2>2. IsFiniteSet(s \ {x}) /\ \A y \in s \ {x} : f[y] \in Nat
    BY <1>2, <2>1, FS_RemoveElement
  <2> QED BY <1>2, <1>5, <2>1, <2>2, SumElement
<1>7. SumFunctionOnSet(f, s \cup T) = f[x] + SumFunctionOnSet(f, (s \ {x}) \cup T)
  <2>1. IsFiniteSet(s \cup T) /\ \A y \in s \cup T : f[y] \in Nat
    BY <1>2, FS_Union
  <2>2. (s \cup T) \ {x} = (s \ {x}) \cup T /\ x \in s \cup T
    BY <1>2, <1>5
  <2> DEFINE both == s \cup T
  <2> HIDE DEF both
  <2>3. SumFunctionOnSet(f, both) = f[x] + SumFunctionOnSet(f, both \ {x})
    BY <2>1, <2>2, SumElement DEF both
  <2> QED BY <2>2, <2>3 DEF both
<1>8. Good(s \ {x})
  BY <1>3, <1>5
<1>9. f[x] \in Nat
  BY <1>2, <1>5
<1> QED BY <1>2, <1>4, <1>6, <1>7, <1>8, <1>9

(* A part is no more than the whole.                                       *)
LEMMA SumPart ==
    ASSUME NEW S, IsFiniteSet(S), NEW T \in SUBSET S, NEW f, \A x \in S : f[x] \in Nat
    PROVE  SumFunctionOnSet(f, T) <= SumFunctionOnSet(f, S)
<1> DEFINE R == S \ T
<1>1. IsFiniteSet(T) /\ IsFiniteSet(R)
  BY FS_Subset
<1>2. T \cap R = {} /\ T \cup R = S
  OBVIOUS
<1> HIDE DEF R
<1>3. SumFunctionOnSet(f, S) = SumFunctionOnSet(f, T) + SumFunctionOnSet(f, R)
  BY <1>1, <1>2, SumApart
<1>4. SumFunctionOnSet(f, T) \in Nat /\ SumFunctionOnSet(f, R) \in Nat
  BY <1>1, <1>2, SumElement
<1> QED BY <1>3, <1>4

(* What adds nothing can be left out.                                      *)
LEMMA SumSupport ==
    ASSUME NEW S, IsFiniteSet(S), NEW T \in SUBSET S, NEW f, \A x \in S : f[x] \in Nat,
           \A x \in S \ T : f[x] = 0
    PROVE  SumFunctionOnSet(f, S) = SumFunctionOnSet(f, T)
<1> DEFINE R == S \ T
           Good(s) == SumFunctionOnSet(f, s) = 0
           Bad == {s \in SUBSET R : ~Good(s)}
<1>1. IsFiniteSet(T) /\ IsFiniteSet(R)
  BY FS_Subset
<1>2. T \cap R = {} /\ T \cup R = S /\ \A x \in R : f[x] = 0
  OBVIOUS
<1> HIDE DEF R
<1>3. SumFunctionOnSet(f, R) = 0
  <2> SUFFICES ASSUME Bad # {} PROVE FALSE
    OBVIOUS
  <2>0. Bad \in SUBSET (SUBSET R)
    OBVIOUS
  <2>1. PICK s \in Bad : \A t \in SUBSET s : t # s => t \notin Bad
    <3> HIDE DEF Bad
    <3> QED BY <1>1, <2>0, SmallestBad, Zenon
  <2>2. IsFiniteSet(s) /\ s \in SUBSET R /\ ~Good(s)
    BY <1>1, <2>1, FS_Subset
  <2>3. \A t \in SUBSET s : t # s => Good(t)
    BY <2>1, <2>2
  <2> HIDE DEF Bad
  <2>4. PICK x \in s : SumFunctionOnSet(f, s) = f[x] + SumFunctionOnSet(f, s \ {x})
    BY <2>2, SumStep
  <2>5. Good(s \ {x}) /\ f[x] = 0
    BY <1>2, <2>2, <2>3
  <2> QED BY <2>2, <2>4, <2>5
<1>4. SumFunctionOnSet(f, S) = SumFunctionOnSet(f, T) + SumFunctionOnSet(f, R)
  BY <1>1, <1>2, SumApart
<1>5. SumFunctionOnSet(f, T) \in Nat
  BY <1>1, <1>2, SumElement
<1> QED BY <1>3, <1>4, <1>5

(* When every element of S has a partner of its own in T that is no        *)
(* smaller, the sum over S is no greater.                                  *)
LEMMA SumInto ==
    ASSUME NEW S, IsFiniteSet(S), NEW T, IsFiniteSet(T),
           NEW f, \A x \in S : f[x] \in Nat, NEW g, \A y \in T : g[y] \in Nat,
           NEW h, \A x \in S : h[x] \in T /\ f[x] <= g[h[x]],
           \A x, y \in S : h[x] = h[y] => x = y
    PROVE  SumFunctionOnSet(f, S) <= SumFunctionOnSet(g, T)
<1> DEFINE Image(s) == {h[x] : x \in s}
           Good(s) == SumFunctionOnSet(f, s) <= SumFunctionOnSet(g, Image(s))
           Bad == {s \in SUBSET S : ~Good(s)}
<1>a. ASSUME Bad # {} PROVE FALSE
  <2>0. Bad \in SUBSET (SUBSET S)
    OBVIOUS
  <2>1. PICK s \in Bad : \A t \in SUBSET s : t # s => t \notin Bad
    <3> HIDE DEF Bad
    <3> QED BY <1>a, <2>0, SmallestBad, Zenon
  <2>2. IsFiniteSet(s) /\ s \in SUBSET S /\ ~Good(s)
    BY <2>1, FS_Subset
  <2>3. \A t \in SUBSET s : t # s => Good(t)
    BY <2>1, <2>2
  <2> HIDE DEF Bad
  <2>4. PICK x \in s : TRUE
    <3>1. Image({}) = {}
      OBVIOUS
    <3>2. Good({})
      BY <3>1, SumEmpty
    <3> QED BY <2>2, <3>2
  <2> DEFINE rest == s \ {x}
             I == Image(s)
             J == Image(rest)
  <2>5. rest \in SUBSET s /\ rest # s /\ IsFiniteSet(rest)
    BY <2>2, <2>4, FS_RemoveElement
  <2>6. I \in SUBSET T /\ h[x] \in I /\ J = I \ {h[x]}
    BY <2>2, <2>4
  <2>7. IsFiniteSet(I) /\ \A y \in I : g[y] \in Nat
    BY <2>6, FS_Subset
  <2>8. SumFunctionOnSet(f, rest) <= SumFunctionOnSet(g, J)
    BY <2>3, <2>5
  <2>9. ~(SumFunctionOnSet(f, s) <= SumFunctionOnSet(g, I))
    BY <2>2
  <2> HIDE DEF I, J
  <2>10. /\ SumFunctionOnSet(f, s) = f[x] + SumFunctionOnSet(f, rest)
         /\ SumFunctionOnSet(f, s) \in Nat
    <3>1. \A y \in s : f[y] \in Nat
      BY <2>2
    <3> QED BY <2>2, <2>4, <3>1, SumElement
  <2>11. SumFunctionOnSet(g, I) = g[h[x]] + SumFunctionOnSet(g, J)
    BY <2>6, <2>7, SumElement
  <2>12. SumFunctionOnSet(g, J) \in Nat /\ SumFunctionOnSet(f, rest) \in Nat
    <3>1. IsFiniteSet(J) /\ \A y \in J : g[y] \in Nat
      BY <2>6, <2>7, FS_RemoveElement
    <3>2. \A y \in rest : f[y] \in Nat
      BY <2>2, <2>5
    <3> QED BY <2>5, <3>1, <3>2, SumElement
  <2>13. f[x] \in Nat /\ g[h[x]] \in Nat /\ f[x] <= g[h[x]]
    BY <2>2, <2>4
  <2> HIDE DEF rest
  <2> QED BY <2>8, <2>9, <2>10, <2>11, <2>12, <2>13
<1>1. Good(S)
  BY <1>a
<1> DEFINE I == Image(S)
<1>2. I \in SUBSET T
  OBVIOUS
<1>3. SumFunctionOnSet(f, S) <= SumFunctionOnSet(g, I)
  BY <1>1
<1> HIDE DEF I
<1>4. SumFunctionOnSet(g, I) <= SumFunctionOnSet(g, T)
  BY <1>2, SumPart
<1>5. SumFunctionOnSet(f, S) \in Nat /\ SumFunctionOnSet(g, T) \in Nat
      /\ SumFunctionOnSet(g, I) \in Nat
  <2>1. IsFiniteSet(I) /\ \A y \in I : g[y] \in Nat
    BY <1>2, FS_Subset
  <2> QED BY <2>1, SumElement
<1> QED BY <1>3, <1>4, <1>5

(* If u times every value is within r, u times the sum is within r for     *)
(* every element.                                                          *)
LEMMA SumBelow ==
    ASSUME NEW S, IsFiniteSet(S), NEW f, NEW u \in Nat, NEW r \in Nat,
           \A x \in S : f[x] \in Nat /\ f[x] * u <= r
    PROVE  SumFunctionOnSet(f, S) * u <= r * Cardinality(S)
<1> DEFINE Good(s) == SumFunctionOnSet(f, s) * u <= r * Cardinality(s)
           Bad == {s \in SUBSET S : ~Good(s)}
<1> SUFFICES ASSUME Bad # {} PROVE FALSE
  OBVIOUS
<1>0. Bad \in SUBSET (SUBSET S)
  OBVIOUS
<1>1. PICK s \in Bad : \A t \in SUBSET s : t # s => t \notin Bad
  <2> HIDE DEF Bad
  <2> QED BY <1>0, SmallestBad, Zenon
<1>2. IsFiniteSet(s) /\ s \in SUBSET S /\ ~Good(s)
  BY <1>1, FS_Subset
<1>3. \A t \in SUBSET s : t # s => Good(t)
  BY <1>1, <1>2
<1> HIDE DEF Bad
<1>4. PICK x \in s : TRUE
  <2>1. Cardinality({}) = 0
    BY FS_EmptySet
  <2>2. Good({})
    BY <2>1, SumEmpty
  <2> QED BY <1>2, <2>2
<1> DEFINE rest == s \ {x}
<1>5. \A y \in s : f[y] \in Nat
  BY <1>2
<1>6. /\ IsFiniteSet(rest) /\ Cardinality(rest) = Cardinality(s) - 1
      /\ Cardinality(s) \in Nat /\ Cardinality(rest) \in Nat
  BY <1>2, <1>4, FS_RemoveElement, FS_CardinalityType
<1>7. SumFunctionOnSet(f, s) = f[x] + SumFunctionOnSet(f, rest)
  BY <1>2, <1>4, <1>5, SumElement
<1>8. SumFunctionOnSet(f, rest) \in Nat
  BY <1>5, <1>6, SumElement
<1>9. SumFunctionOnSet(f, rest) * u <= r * Cardinality(rest)
  BY <1>3, <1>4
<1>10. f[x] \in Nat /\ f[x] * u <= r
  BY <1>2, <1>4
<1> DEFINE a == SumFunctionOnSet(f, rest)
           k == Cardinality(rest)
<1>11. ~((f[x] + a) * u <= r * (k + 1))
  BY <1>2, <1>6, <1>7
<1>12. a \in Nat /\ k \in Nat /\ a * u <= r * k
  BY <1>6, <1>8, <1>9
<1> HIDE DEF a, k, rest
<1>13. (f[x] + a) * u = f[x] * u + a * u /\ r * (k + 1) = r * k + r
  BY <1>10, <1>12
<1> QED BY <1>10, <1>11, <1>12, <1>13

(* Values of at least k add up to at least k for each.                     *)
LEMMA SumAbove ==
    ASSUME NEW S, IsFiniteSet(S), NEW f, NEW k \in Nat,
           \A x \in S : f[x] \in Nat /\ k <= f[x]
    PROVE  k * Cardinality(S) <= SumFunctionOnSet(f, S)
<1> DEFINE Good(s) == k * Cardinality(s) <= SumFunctionOnSet(f, s)
           Bad == {s \in SUBSET S : ~Good(s)}
<1> SUFFICES ASSUME Bad # {} PROVE FALSE
  OBVIOUS
<1>0. Bad \in SUBSET (SUBSET S)
  OBVIOUS
<1>1. PICK s \in Bad : \A t \in SUBSET s : t # s => t \notin Bad
  <2> HIDE DEF Bad
  <2> QED BY <1>0, SmallestBad
<1>2. s \in SUBSET S /\ IsFiniteSet(s) /\ ~Good(s)
  BY <1>1, FS_Subset
<1>3. \A x \in s : Good(s \ {x})
  BY <1>1, <1>2
<1>4. PICK x \in s : TRUE
  <2>1. Cardinality({}) = 0
    BY FS_EmptySet
  <2>2. Good({})
    BY <2>1, SumEmpty
  <2> QED BY <1>2, <2>2
<1> DEFINE rest == s \ {x}
<1>5. \A y \in s : f[y] \in Nat
  BY <1>2
<1>6. /\ IsFiniteSet(rest) /\ Cardinality(rest) = Cardinality(s) - 1
      /\ Cardinality(s) \in Nat /\ Cardinality(rest) \in Nat
  BY <1>2, <1>4, FS_RemoveElement, FS_CardinalityType
<1>7. SumFunctionOnSet(f, s) = f[x] + SumFunctionOnSet(f, rest)
  BY <1>2, <1>4, <1>5, SumElement
<1>8. SumFunctionOnSet(f, rest) \in Nat
  BY <1>5, <1>6, SumElement
<1>9. k * Cardinality(rest) <= SumFunctionOnSet(f, rest)
  BY <1>3, <1>4
<1>10. f[x] \in Nat /\ k <= f[x]
  BY <1>2, <1>4
<1> DEFINE a == SumFunctionOnSet(f, rest)
           m == Cardinality(rest)
<1>11. ~(k * (m + 1) <= f[x] + a)
  BY <1>2, <1>6, <1>7
<1>12. a \in Nat /\ m \in Nat /\ k * m <= a
  BY <1>6, <1>8, <1>9
<1> HIDE DEF a, m, rest
<1>13. k * (m + 1) = k * m + k
  BY <1>12
<1> QED BY <1>10, <1>11, <1>12, <1>13

-----------------------------------------------------------------------------
(* The allocation at one point.                                            *)

(* The tables of a point: only a grant below the floor has no level left,  *)
(* and no grant is both locked and removed.                                *)
IapShape ==
    /\ IsFiniteSet(grants)
    /\ \A g \in grants : g.gain \in Nat /\ g.eirp \in Nat
    /\ point.threshold \in Nat
    /\ settled \subseteq Running /\ floored \subseteq Running
    /\ settled \cap floored = {}
    /\ DOMAIN eirp = Running
    /\ \A g \in Running \ floored : eirp[g] \in Nat
    /\ DOMAIN residual = IapChannels(point) /\ DOMAIN unsat = IapChannels(point)
    /\ \A c \in IapChannels(point) : residual[c] \in Int /\ unsat[c] \in Int

(* The fair share residual / unsat of a channel never falls below the one  *)
(* it starts with: every round that locks takes less than a share for each *)
(* grant it locks.                                                         *)
ShareKept ==
    \A c \in IapChannels(point) :
        point.threshold * unsat[c] <= residual[c] * Cardinality(On(c, Running))

IapInv == IapShape /\ BudgetKept /\ ShareKept /\ FairGrantsKeepPower /\ RoomCutsNobody

(* The grants on a channel are finitely many.                              *)
LEMMA OnFinite ==
    ASSUME IapShape, NEW c, NEW gs \in SUBSET Running
    PROVE  /\ IsFiniteSet(On(c, gs)) /\ Cardinality(On(c, gs)) \in Nat
           /\ On(c, gs) \in SUBSET Running
<1>1. Running \in SUBSET grants
  BY DEF Running, Neighbors
<1>2. IsFiniteSet(Running)
  BY <1>1, FS_Subset DEF IapShape
<1>3. On(c, gs) \in SUBSET Running
  BY DEF On
<1>4. IsFiniteSet(On(c, gs))
  BY <1>2, <1>3, FS_Subset
<1> QED BY <1>3, <1>4, FS_CardinalityType

(* Taking away some of the grants on a channel.                            *)
LEMMA OnWithout ==
    ASSUME IapShape, NEW c, NEW gs \in SUBSET Running, NEW hs \in SUBSET gs
    PROVE  /\ Cardinality(On(c, gs \ hs)) = Cardinality(On(c, gs)) - Cardinality(On(c, hs))
           /\ Cardinality(On(c, hs)) <= Cardinality(On(c, gs))
<1> DEFINE A == On(c, gs \ hs)
           B == On(c, hs)
<1>1. IsFiniteSet(A) /\ IsFiniteSet(B)
  BY OnFinite
<1>2. A \cap B = {} /\ A \cup B = On(c, gs)
  BY DEF On
<1>3. Cardinality(A) \in Nat /\ Cardinality(B) \in Nat
  BY <1>1, FS_CardinalityType
<1> HIDE DEF A, B
<1>4. Cardinality(On(c, gs)) = Cardinality(A) + Cardinality(B) - Cardinality({})
  BY <1>1, <1>2, FS_Union
<1> QED BY <1>3, <1>4, FS_EmptySet DEF A, B

(* The first tables of a point.                                            *)
LEMMA StartIapInv ==
    ASSUME NEW p, NEW gs, IsFiniteSet(gs), p.threshold \in Nat,
           \A g \in gs : g.gain \in Nat /\ g.eirp \in Nat,
           point' = p, grants' = gs,
           eirp' = InitialTables(p, gs).eirp,
           residual' = InitialTables(p, gs).residual,
           unsat' = InitialTables(p, gs).unsat,
           settled' = {}, floored' = {}
    PROVE  IapInv'
<1> DEFINE run == Neighbors(p, gs)
           on(c) == {g \in run : GrantOverlapsChannel(g, c, p.kind)}
<1>1. Running' = run /\ Open' = run
  BY DEF Running, Open
<1>2. /\ eirp' = [g \in run |-> g.eirp]
      /\ residual' = [c \in IapChannels(p) |-> p.threshold]
      /\ unsat' = [c \in IapChannels(p) |-> Cardinality(on(c))]
  BY DEF InitialTables
<1>3. \A c \in IapChannels(p) : On(c, Running)' = on(c) /\ On(c, Open)' = on(c)
  BY <1>1 DEF On, ChannelsOf
<1>4. run \in SUBSET gs
  BY DEF Neighbors
<1>5. \A c \in IapChannels(p) : IsFiniteSet(on(c)) /\ Cardinality(on(c)) \in Nat
  <2> TAKE c \in IapChannels(p)
  <2>1. on(c) \in SUBSET gs
    BY <1>4
  <2>2. IsFiniteSet(on(c))
    BY <2>1, FS_Subset
  <2> QED BY <2>2, FS_CardinalityType
<1> HIDE DEF run, on
<1>6. IapShape'
  BY <1>1, <1>2, <1>4, <1>5 DEF IapShape
<1>7. BudgetKept'
  <2> SUFFICES ASSUME NEW c \in IapChannels(p)
               PROVE  /\ residual'[c] >= 0
                      /\ residual'[c] + TotalCoupling(eirp', On(c, settled)') = p.threshold
                      /\ unsat'[c] = Cardinality(On(c, Open)')
    BY DEF BudgetKept
  <2>1. On(c, settled)' = {}
    BY DEF On
  <2>2. TotalCoupling(eirp', {}) = 0
    BY SumEmpty DEF TotalCoupling
  <2>3. TotalCoupling(eirp', On(c, settled)') = 0
    BY <2>1, <2>2, Zenon
  <2>4. residual'[c] = p.threshold /\ unsat'[c] = Cardinality(On(c, Open)')
    BY <1>2, <1>3
  <2> QED BY <2>3, <2>4
<1>8. ShareKept'
  <2> SUFFICES ASSUME NEW c \in IapChannels(p)
               PROVE  p.threshold * unsat'[c] <= residual'[c] * Cardinality(On(c, Running)')
    BY DEF ShareKept
  <2>1. unsat'[c] = Cardinality(On(c, Running)') /\ residual'[c] = p.threshold
    BY <1>2, <1>3
  <2>2. unsat'[c] \in Nat
    BY <1>2, <1>5
  <2> QED BY <2>1, <2>2
<1>9. FairGrantsKeepPower'
  BY <1>1, <1>2 DEF FairGrantsKeepPower
<1>10. RoomCutsNobody'
  BY <1>1, <1>2 DEF RoomCutsNobody
<1> QED BY <1>6, <1>7, <1>8, <1>9, <1>10 DEF IapInv

(* Multiplication by a natural number keeps the order.                     *)
LEMMA TimesKeepsOrder ==
    ASSUME NEW a \in Nat, NEW b \in Nat, NEW k \in Nat, a <= b
    PROVE  a * k <= b * k
<1>1. PICK d \in Nat : b = a + d
  <2>1. b - a \in Nat /\ b = a + (b - a)
    OBVIOUS
  <2> QED BY <2>1
<1>2. b * k = a * k + d * k
  BY <1>1
<1>3. d * k \in Nat /\ a * k \in Nat
  OBVIOUS
<1> QED BY <1>2, <1>3

(* A positive factor can be cancelled.                                     *)
LEMMA TimesReflectsOrder ==
    ASSUME NEW a \in Nat, NEW b \in Nat, NEW k \in Nat, k > 0, a * k <= b * k
    PROVE  a <= b
<1> SUFFICES ASSUME ~(a <= b) PROVE FALSE
  OBVIOUS
<1>1. b + 1 \in Nat /\ b + 1 <= a
  OBVIOUS
<1>2. (b + 1) * k <= a * k
  BY <1>1, TimesKeepsOrder
<1>3. (b + 1) * k = b * k + k
  OBVIOUS
<1>4. b * k \in Nat /\ a * k \in Nat
  OBVIOUS
<1> QED BY <1>2, <1>3, <1>4

(* m of u grants take s of the residual r, less than a share each: they    *)
(* fit, and the share of those left is no less.                            *)
LEMMA ShareArithmetic ==
    ASSUME NEW r \in Nat, NEW s \in Nat, NEW t \in Nat, NEW n \in Nat,
           NEW u \in Nat, NEW m \in Nat, m <= u, u > 0, s * u <= r * m, t * u <= r * n
    PROVE  s <= r /\ t * (u - m) <= (r - s) * n
<1>1. s <= r
  <2>1. m * r <= u * r
    BY TimesKeepsOrder
  <2>2. m * r = r * m /\ u * r = r * u /\ s * u \in Nat /\ r * m \in Nat /\ r * u \in Nat
    OBVIOUS
  <2>3. s * u <= r * u
    BY <2>1, <2>2
  <2> QED BY <2>3, TimesReflectsOrder
<1>2. PICK d \in Nat : d = r - s
  BY <1>1
<1>3. PICK e \in Nat : e = u - m
  OBVIOUS
<1>4. r * e <= d * u
  <2>1. r * e = r * u - r * m
    BY <1>3
  <2>2. d * u = r * u - s * u
    BY <1>2
  <2>3. r * u \in Nat /\ s * u \in Nat /\ r * m \in Nat
    OBVIOUS
  <2> QED BY <2>1, <2>2, <2>3
<1>5. (r * e) * n <= (d * u) * n
  <2>1. r * e \in Nat /\ d * u \in Nat
    OBVIOUS
  <2> QED BY <1>4, <2>1, TimesKeepsOrder
<1>6. (t * u) * e <= (r * n) * e
  <2>1. t * u \in Nat /\ r * n \in Nat
    OBVIOUS
  <2> QED BY <2>1, TimesKeepsOrder
<1>7. (r * n) * e = (r * e) * n
  OBVIOUS
<1>8. (d * u) * n = (d * n) * u
  OBVIOUS
<1>9. (t * u) * e = (t * e) * u
  OBVIOUS
<1>10. (t * e) * u <= (d * n) * u
  <2>1. (t * e) * u \in Nat /\ (d * n) * u \in Nat /\ (r * e) * n \in Nat
    OBVIOUS
  <2> QED BY <1>5, <1>6, <1>7, <1>8, <1>9, <2>1
<1>11. t * e <= d * n
  <2>1. t * e \in Nat /\ d * n \in Nat
    OBVIOUS
  <2> QED BY <1>10, <2>1, TimesReflectsOrder
<1> QED BY <1>1, <1>2, <1>3, <1>11

(* What is below the share a channel starts with stays below its share.    *)
LEMMA FairArithmetic ==
    ASSUME NEW k \in Nat, NEW n \in Nat, NEW t \in Nat, NEW u \in Nat, NEW r \in Nat,
           k * n < t, t * u <= r * n, u > 0
    PROVE  k * u < r
<1> SUFFICES ASSUME r <= k * u PROVE FALSE
  <2>1. k * u \in Nat
    OBVIOUS
  <2> QED BY <2>1
<1>1. k * u \in Nat /\ k * n \in Nat /\ r * n \in Nat /\ t * u \in Nat
  OBVIOUS
<1>2. r * n <= (k * u) * n
  BY <1>1, TimesKeepsOrder
<1>3. (k * u) * n = (k * n) * u
  OBVIOUS
<1>4. t * u <= (k * n) * u
  <2>1. (k * n) * u \in Nat
    OBVIOUS
  <2> QED BY <1>1, <1>2, <1>3, <2>1
<1>5. t <= k * n
  BY <1>1, <1>4, TimesReflectsOrder
<1> QED BY <1>1, <1>5

(* The interference of a set of grants, when all have a level.             *)
LEMMA TotalType ==
    ASSUME NEW gs, IsFiniteSet(gs), NEW level,
           \A g \in gs : g.gain \in Nat /\ level[g] \in Nat
    PROVE  /\ TotalCoupling(level, gs) \in Nat
           /\ \A g \in gs : Coupling(g, level[g]) \in Nat
<1> DEFINE f == [g \in gs |-> Coupling(g, level[g])]
<1>1. \A g \in gs : Coupling(g, level[g]) \in Nat
  BY DEF Coupling
<1>2. \A g \in gs : f[g] \in Nat
  BY <1>1
<1> HIDE DEF f
<1>3. SumFunctionOnSet(f, gs) \in Nat
  BY <1>2, SumElement
<1> QED BY <1>1, <1>3 DEF f, TotalCoupling

(* Levels that agree on a set.                                             *)
LEMMA TotalAgree ==
    ASSUME NEW gs, IsFiniteSet(gs), NEW level, NEW after,
           \A g \in gs : g.gain \in Nat /\ level[g] \in Nat /\ after[g] = level[g]
    PROVE  TotalCoupling(after, gs) = TotalCoupling(level, gs)
<1>1. [g \in gs |-> Coupling(g, after[g])] = [g \in gs |-> Coupling(g, level[g])]
  OBVIOUS
<1> QED BY <1>1 DEF TotalCoupling

(* Two sets of grants that are apart.                                      *)
LEMMA TotalApart ==
    ASSUME NEW A, IsFiniteSet(A), NEW B, IsFiniteSet(B), A \cap B = {}, NEW level,
           \A g \in A \cup B : g.gain \in Nat /\ level[g] \in Nat
    PROVE  TotalCoupling(level, A \cup B) = TotalCoupling(level, A) + TotalCoupling(level, B)
<1> DEFINE f == [g \in A \cup B |-> Coupling(g, level[g])]
           fa == [g \in A |-> Coupling(g, level[g])]
           fb == [g \in B |-> Coupling(g, level[g])]
<1>1. \A g \in A \cup B : f[g] \in Nat
  BY DEF Coupling
<1>2. (\A g \in A : f[g] = fa[g]) /\ (\A g \in B : f[g] = fb[g])
  OBVIOUS
<1> HIDE DEF f, fa, fb
<1>3. SumFunctionOnSet(f, A \cup B) = SumFunctionOnSet(f, A) + SumFunctionOnSet(f, B)
  BY <1>1, SumApart
<1>4. SumFunctionOnSet(f, A) = SumFunctionOnSet(fa, A)
  BY <1>1, <1>2, SumAgree
<1>5. SumFunctionOnSet(f, B) = SumFunctionOnSet(fb, B)
  BY <1>1, <1>2, SumAgree
<1> QED BY <1>3, <1>4, <1>5 DEF f, fa, fb, TotalCoupling

(* What the neighbours on a channel have, in every state.                  *)
LEMMA RunningTypes ==
    ASSUME IapShape
    PROVE  /\ Running \in SUBSET grants /\ IsFiniteSet(Running)
           /\ Open \in SUBSET Running /\ Satisfied \in SUBSET Open
           /\ \A g \in Running : g.gain \in Nat /\ g.eirp \in Nat
           /\ \A g \in Running \ floored : eirp[g] \in Nat
<1>1. Running \in SUBSET grants
  BY DEF Running, Neighbors
<1>2. IsFiniteSet(Running)
  BY <1>1, FS_Subset DEF IapShape
<1> QED BY <1>1, <1>2 DEF IapShape, Open, Satisfied

(* One channel in a round that locks.                                      *)
LEMMA LockChannel ==
    ASSUME IapInv, NEW c \in IapChannels(point)
    PROVE  LET s == TotalCoupling(eirp, On(c, Satisfied))
               m == Cardinality(On(c, Satisfied))
               n == Cardinality(On(c, Running))
           IN  /\ s \in Nat /\ m \in Nat /\ n \in Nat
               /\ s <= residual[c]
               /\ point.threshold * (unsat[c] - m) <= (residual[c] - s) * n
<1> DEFINE A == On(c, Satisfied)
           s == TotalCoupling(eirp, A)
           m == Cardinality(A)
           n == Cardinality(On(c, Running))
           u == unsat[c]
           r == residual[c]
           t == point.threshold
<1>1. IapShape
  BY DEF IapInv
<1>2. /\ Open \in SUBSET Running /\ Satisfied \in SUBSET Running /\ Satisfied \in SUBSET Open
      /\ \A g \in Satisfied : g \in Running \ floored
  BY <1>1, RunningTypes DEF Open
<1>3. IsFiniteSet(A) /\ m \in Nat /\ n \in Nat
  <2>1. Running \in SUBSET Running
    OBVIOUS
  <2> QED BY <1>1, <1>2, <2>1, OnFinite
<1>4. u = Cardinality(On(c, Open)) /\ u \in Nat /\ m <= u
  <2>1. u = Cardinality(On(c, Open))
    BY DEF IapInv, BudgetKept
  <2>2. Cardinality(On(c, Open)) \in Nat
    BY <1>1, <1>2, OnFinite
  <2>3. Cardinality(On(c, Satisfied)) <= Cardinality(On(c, Open))
    BY <1>1, <1>2, OnWithout
  <2> QED BY <2>1, <2>2, <2>3
<1>5. r \in Nat /\ t \in Nat
  BY <1>1 DEF IapShape, IapInv, BudgetKept
<1>6. \A g \in A : g.gain \in Nat /\ eirp[g] \in Nat
  <2>1. \A g \in A : g \in Satisfied
    BY DEF On
  <2> QED BY <1>1, <1>2, <2>1, RunningTypes
<1>7. s \in Nat /\ \A g \in A : Coupling(g, eirp[g]) \in Nat
  BY <1>3, <1>6, TotalType
<1>8. s * u <= r * m
  <2> DEFINE f == [g \in A |-> Coupling(g, eirp[g])]
  <2>1. \A g \in A : Coupling(g, eirp[g]) * u < r
    BY DEF On, Satisfied, WithinFairShare
  <2>2. \A g \in A : f[g] \in Nat /\ f[g] * u <= r
    <3> SUFFICES ASSUME NEW g \in A PROVE f[g] \in Nat /\ f[g] * u <= r
      OBVIOUS
    <3>1. f[g] = Coupling(g, eirp[g])
      OBVIOUS
    <3> DEFINE k == Coupling(g, eirp[g])
    <3>2. k \in Nat /\ k * u < r
      BY <1>7, <2>1
    <3> HIDE DEF k, f, A, u, r
    <3>3. k * u \in Nat
      BY <3>2, <1>4
    <3> QED BY <1>5, <3>1, <3>2, <3>3 DEF k
  <2>3. s = SumFunctionOnSet(f, A)
    BY DEF TotalCoupling
  <2> HIDE DEF f, A, s, u, r, m
  <2>4. SumFunctionOnSet(f, A) * u <= r * Cardinality(A)
    BY <1>3, <1>4, <1>5, <2>2, SumBelow
  <2> QED BY <2>3, <2>4 DEF m
<1>9. t * u <= r * n
  BY DEF IapInv, ShareKept
<1>10. s <= r /\ t * (u - m) <= (r - s) * n
  <2>1. CASE u > 0
    <3> HIDE DEF s, u, r, m, n, t
    <3> QED BY <1>3, <1>4, <1>5, <1>7, <1>8, <1>9, <2>1, ShareArithmetic
  <2>2. CASE u = 0
    <3>1. m = 0
      BY <1>3, <1>4, <2>2
    <3>2. A = {}
      BY <1>3, <3>1, FS_EmptySet
    <3>3. s = 0
      BY <3>2, SumEmpty DEF TotalCoupling
    <3> HIDE DEF s, u, r, m, n, t
    <3>4. t * (u - m) = 0
      BY <1>5, <2>2, <3>1
    <3>5. (r - s) * n = r * n /\ r * n \in Nat
      BY <1>3, <1>5, <3>3
    <3> QED BY <1>5, <3>3, <3>4, <3>5
  <2> QED BY <1>4, <2>1, <2>2
<1> QED BY <1>3, <1>7, <1>10

(* A round that locks grants keeps the invariant.                          *)
LEMMA LockRoundInv ==
    ASSUME IapInv, LockRound
    PROVE  IapInv'
<1>0. IapShape /\ UNCHANGED <<point, grants, eirp, floored>>
  BY DEF IapInv, LockRound, inputs
<1>1. Running' = Running
  BY <1>0 DEF Running
<1>2. /\ Open \in SUBSET Running /\ Satisfied \in SUBSET Open /\ Satisfied \in SUBSET Running
      /\ Satisfied \cap settled = {}
      /\ \A g \in Satisfied : g \notin floored
  BY <1>0, RunningTypes DEF Open
<1>3. settled' = settled \cup Satisfied /\ Open' = Open \ Satisfied
  BY <1>0, <1>1 DEF LockRound, Open
<1>4. ASSUME NEW c \in IapChannels(point)
      PROVE  /\ residual'[c] = residual[c] - TotalCoupling(eirp, On(c, Satisfied))
             /\ unsat'[c] = unsat[c] - Cardinality(On(c, Satisfied))
  BY <1>0 DEF LockRound, IapShape
<1>5. IapShape'
  <2>1. /\ DOMAIN residual' = IapChannels(point) /\ DOMAIN unsat' = IapChannels(point)
        /\ \A c \in IapChannels(point) : residual'[c] \in Int /\ unsat'[c] \in Int
    <3>1. DOMAIN residual' = IapChannels(point) /\ DOMAIN unsat' = IapChannels(point)
      BY <1>0 DEF LockRound, IapShape
    <3>2. ASSUME NEW c \in IapChannels(point)
          PROVE  residual'[c] \in Int /\ unsat'[c] \in Int
      <4>1. residual[c] \in Int /\ unsat[c] \in Int
        BY <1>0 DEF IapShape
      <4>2. /\ TotalCoupling(eirp, On(c, Satisfied)) \in Nat
            /\ Cardinality(On(c, Satisfied)) \in Nat
        BY LockChannel
      <4> QED BY <1>4, <4>1, <4>2
    <3> QED BY <3>1, <3>2
  <2> QED BY <1>0, <1>1, <1>2, <1>3, <2>1 DEF IapShape
<1>6. BudgetKept'
  <2> SUFFICES ASSUME NEW c \in IapChannels(point)
               PROVE  /\ residual'[c] >= 0
                      /\ residual'[c] + TotalCoupling(eirp, On(c, settled')) = point.threshold
                      /\ unsat'[c] = Cardinality(On(c, Open'))
    BY <1>0 DEF BudgetKept, On, ChannelsOf
  <2> DEFINE A == On(c, settled)
             B == On(c, Satisfied)
  <2>1. On(c, settled') = A \cup B /\ A \cap B = {}
    BY <1>2, <1>3 DEF On
  <2>2. settled \in SUBSET Running
    BY <1>0 DEF IapShape
  <2>3. IsFiniteSet(A) /\ IsFiniteSet(B)
    BY <1>0, <1>2, <2>2, OnFinite
  <2>4. \A g \in A \cup B : g.gain \in Nat /\ eirp[g] \in Nat
    <3>1. \A g \in A \cup B : g \in Running \ floored
      BY <1>0, <1>2 DEF On, IapShape
    <3> QED BY <1>0, <3>1, RunningTypes
  <2> HIDE DEF A, B
  <2>5. TotalCoupling(eirp, A \cup B) = TotalCoupling(eirp, A) + TotalCoupling(eirp, B)
    BY <2>1, <2>3, <2>4, TotalApart
  <2>6. TotalCoupling(eirp, A) \in Nat /\ TotalCoupling(eirp, B) \in Nat
    BY <2>3, <2>4, TotalType
  <2>7. /\ residual[c] \in Int /\ residual[c] + TotalCoupling(eirp, A) = point.threshold
        /\ unsat[c] = Cardinality(On(c, Open))
    BY <1>0 DEF IapInv, BudgetKept, IapShape, A
  <2>8. residual'[c] = residual[c] - TotalCoupling(eirp, B)
    BY <1>4 DEF B
  <2>9. TotalCoupling(eirp, B) <= residual[c]
    BY LockChannel DEF B
  <2>10. unsat'[c] = Cardinality(On(c, Open'))
    BY <1>0, <1>2, <1>3, <1>4, <2>7, OnWithout
  <2>11. residual'[c] >= 0
    BY <2>6, <2>7, <2>8, <2>9
  <2>12. residual'[c] + TotalCoupling(eirp, A \cup B) = point.threshold
    BY <2>5, <2>6, <2>7, <2>8
  <2> QED BY <2>1, <2>10, <2>11, <2>12
<1>7. ShareKept'
  <2> SUFFICES ASSUME NEW c \in IapChannels(point)
               PROVE  point.threshold * unsat'[c] <= residual'[c] * Cardinality(On(c, Running))
    BY <1>0, <1>1 DEF ShareKept, On, ChannelsOf
  <2> QED BY <1>4, LockChannel
<1>8. FairGrantsKeepPower'
  BY <1>0, <1>1 DEF IapInv, FairGrantsKeepPower, On, ChannelsOf
<1>9. RoomCutsNobody'
  BY <1>0, <1>1 DEF IapInv, RoomCutsNobody, On, ChannelsOf
<1> QED BY <1>5, <1>6, <1>7, <1>8, <1>9 DEF IapInv

(* A grant below the share it starts with can lock at once, as long as it  *)
(* is open.                                                                *)
LEMMA FairGrantsLock ==
    ASSUME IapInv, NEW g \in Open, ChannelsOf(g, point) # {},
           \A c \in ChannelsOf(g, point) :
              Coupling(g, g.eirp) * Cardinality(On(c, Running)) < point.threshold
    PROVE  g \in Satisfied
<1>0. IapShape
  BY DEF IapInv
<1>1. g \in Running /\ g.gain \in Nat /\ g.eirp \in Nat
  BY <1>0, RunningTypes
<1>2. eirp[g] = g.eirp
  BY <1>1 DEF IapInv, FairGrantsKeepPower
<1>3. ASSUME NEW c \in ChannelsOf(g, point)
      PROVE  Coupling(g, g.eirp) * unsat[c] < residual[c]
  <2> DEFINE k == Coupling(g, g.eirp)
             n == Cardinality(On(c, Running))
             u == unsat[c]
             r == residual[c]
             t == point.threshold
  <2>1. c \in IapChannels(point)
    BY DEF ChannelsOf
  <2>2. k \in Nat
    BY <1>1 DEF Coupling
  <2>3. n \in Nat /\ IsFiniteSet(On(c, Open)) /\ Cardinality(On(c, Open)) \in Nat
    <3>1. Open \in SUBSET Running /\ Running \in SUBSET Running
      BY <1>0, RunningTypes
    <3> QED BY <1>0, <3>1, OnFinite
  <2>4. u = Cardinality(On(c, Open)) /\ r \in Nat /\ t \in Nat
    BY <1>0, <2>1 DEF IapInv, BudgetKept, IapShape
  <2>5. u > 0
    <3>1. g \in On(c, Open)
      BY DEF On
    <3> QED BY <2>3, <2>4, <3>1, FS_EmptySet
  <2>6. k * n < t /\ t * u <= r * n
    BY <2>1 DEF IapInv, ShareKept
  <2>7. u \in Nat
    BY <2>3, <2>4
  <2> HIDE DEF k, n, u, r, t
  <2>8. k * u < r
    BY <2>2, <2>3, <2>4, <2>5, <2>6, <2>7, FairArithmetic
  <2> QED BY <2>8 DEF k, u, r
<1> QED BY <1>2, <1>3 DEF Satisfied, WithinFairShare

(* While there is room for everybody a channel has more left than all its  *)
(* open grants need.                                                       *)
LEMMA RoomLeft ==
    ASSUME IapInv, NEW c \in IapChannels(point),
           \A d \in IapChannels(point) : GrantedCoupling(On(d, Running)) < point.threshold
    PROVE  TotalCoupling(eirp, On(c, Open)) < residual[c]
<1> DEFINE A == On(c, settled)
           B == On(c, Open)
           R == On(c, Running)
<1>0. IapShape
  BY DEF IapInv
<1>1. /\ settled \in SUBSET Running /\ Open \in SUBSET Running /\ Running \in SUBSET Running
      /\ settled \cap Open = {}
  BY <1>0, RunningTypes DEF IapShape, Open
<1>2. \A g \in R : g \in Running /\ g \notin floored /\ eirp[g] = g.eirp
  BY DEF IapInv, RoomCutsNobody, On
<1>3. R = A \cup B /\ A \cap B = {}
  <2>1. \A g \in R : g \in settled \/ g \in Open
    BY <1>2 DEF Open
  <2> QED BY <1>1, <2>1 DEF On
<1>4. IsFiniteSet(A) /\ IsFiniteSet(B) /\ IsFiniteSet(R)
  BY <1>0, <1>1, OnFinite
<1>5. \A g \in R : g.gain \in Nat /\ eirp[g] \in Nat /\ g.eirp \in Nat
  BY <1>0, <1>2, RunningTypes
<1>6. residual[c] \in Int /\ residual[c] + TotalCoupling(eirp, A) = point.threshold
  BY <1>0 DEF IapInv, BudgetKept, IapShape
<1>7. GrantedCoupling(R) < point.threshold
  OBVIOUS
<1> HIDE DEF A, B, R
<1>8. GrantedCoupling(R) = TotalCoupling(eirp, R)
  <2> DEFINE level == [g \in R |-> g.eirp]
  <2>1. \A g \in R : level[g] = eirp[g]
    BY <1>2
  <2>2. GrantedCoupling(R) = TotalCoupling(level, R)
    BY DEF GrantedCoupling
  <2> HIDE DEF level
  <2> QED BY <1>4, <1>5, <2>1, <2>2, TotalAgree
<1>9. TotalCoupling(eirp, R) = TotalCoupling(eirp, A) + TotalCoupling(eirp, B)
  BY <1>3, <1>4, <1>5, TotalApart
<1>10. TotalCoupling(eirp, A) \in Nat /\ TotalCoupling(eirp, B) \in Nat
  BY <1>3, <1>4, <1>5, TotalType
<1>11. TotalCoupling(eirp, B) < residual[c]
  BY <1>6, <1>7, <1>8, <1>9, <1>10
<1> QED BY <1>11 DEF B

(* Then the weakest of the open grants is below its share on every channel *)
(* it is on, and a round locks.                                            *)
LEMMA RoomLocks ==
    ASSUME IapInv, NEW g \in Open, ChannelsOf(g, point) # {},
           \A c \in IapChannels(point) : GrantedCoupling(On(c, Running)) < point.threshold
    PROVE  Satisfied # {}
<1> DEFINE W == {h \in Open : ChannelsOf(h, point) # {}}
           N == {Coupling(h, eirp[h]) : h \in W}
<1>0. IapShape
  BY DEF IapInv
<1>1. Open \in SUBSET Running /\ \A h \in Open : h.gain \in Nat /\ eirp[h] \in Nat
  BY <1>0, RunningTypes DEF Open
<1>2. N \in SUBSET Nat /\ N # {}
  BY <1>1 DEF Coupling
<1>3. PICK k \in N : \A m \in N : k <= m
  <2> HIDE DEF N
  <2> QED BY <1>2, LeastNumber
<1>4. PICK h \in W : Coupling(h, eirp[h]) = k
  BY <1>3
<1>5. ASSUME NEW c \in ChannelsOf(h, point)
      PROVE  Coupling(h, eirp[h]) * unsat[c] < residual[c]
  <2> DEFINE B == On(c, Open)
             f == [x \in B |-> Coupling(x, eirp[x])]
  <2>1. c \in IapChannels(point)
    BY DEF ChannelsOf
  <2>2. IsFiniteSet(B) /\ Cardinality(B) \in Nat
    BY <1>0, <1>1, OnFinite
  <2>3. \A x \in B : x \in Open /\ x \in W
    BY DEF On
  <2>4. \A x \in B : f[x] \in Nat /\ k <= f[x]
    BY <1>1, <1>3, <2>3 DEF Coupling
  <2>5. k \in Nat
    BY <1>2
  <2>6. TotalCoupling(eirp, B) = SumFunctionOnSet(f, B)
    BY DEF TotalCoupling
  <2>7. TotalCoupling(eirp, B) < residual[c]
    BY <2>1, RoomLeft
  <2>8. unsat[c] = Cardinality(B) /\ residual[c] \in Int
    BY <1>0, <2>1 DEF IapInv, BudgetKept, IapShape
  <2> HIDE DEF B, f
  <2>9. k * Cardinality(B) <= SumFunctionOnSet(f, B) /\ SumFunctionOnSet(f, B) \in Nat
    BY <2>2, <2>4, <2>5, SumAbove, SumElement
  <2>10. k * Cardinality(B) < residual[c]
    BY <2>2, <2>5, <2>6, <2>7, <2>8, <2>9
  <2> QED BY <1>4, <2>8, <2>10
<1>6. h \in Satisfied
  BY <1>4, <1>5 DEF Satisfied, WithinFairShare
<1> QED BY <1>6

(* A round that lowers the others keeps the invariant.                     *)
LEMMA LowerRoundInv ==
    ASSUME IapInv, LowerRound
    PROVE  IapInv'
<1> DEFINE gone == {g \in Open : eirp[g] - 1 < Floor}
<1>0. IapShape /\ UNCHANGED <<point, grants, settled, residual>>
  BY DEF IapInv, LowerRound, inputs
<1>1. Running' = Running
  BY <1>0 DEF Running
<1>2. /\ Open \in SUBSET Running /\ gone \in SUBSET Open /\ gone \in SUBSET Running
      /\ settled \in SUBSET Running /\ settled \cap Open = {}
  BY <1>0, RunningTypes DEF Open, IapShape
<1>3. floored' = floored \cup gone /\ Open' = Open \ gone
  BY <1>0, <1>1 DEF LowerRound, Open
<1>4. /\ eirp' = [g \in Running |-> IF g \in Open THEN eirp[g] - 1 ELSE eirp[g]]
      /\ unsat' = [c \in DOMAIN unsat |-> unsat[c] - Cardinality(On(c, gone))]
  BY DEF LowerRound
<1>5. \A c \in IapChannels(point) :
          /\ Cardinality(On(c, gone)) \in Nat
          /\ unsat'[c] = unsat[c] - Cardinality(On(c, gone))
  BY <1>0, <1>2, <1>4, OnFinite DEF IapShape
<1>6. IapShape'
  <2>1. \A g \in Running \ floored' : eirp'[g] \in Nat
    <3> SUFFICES ASSUME NEW g \in Running \ floored' PROVE eirp'[g] \in Nat
      OBVIOUS
    <3>1. eirp[g] \in Nat
      BY <1>0, <1>3 DEF IapShape
    <3>2. CASE g \in Open
      <4>1. ~(eirp[g] - 1 < Floor) /\ Floor \in Nat
        BY <1>3, <3>2, IapAssumption
      <4> QED BY <1>4, <3>1, <3>2, <4>1
    <3> QED BY <1>4, <3>1, <3>2
  <2>2. DOMAIN eirp' = Running
    BY <1>4
  <2>3. /\ DOMAIN unsat' = IapChannels(point)
        /\ \A c \in IapChannels(point) : unsat'[c] \in Int
    BY <1>0, <1>4, <1>5 DEF IapShape
  <2>4. floored' \subseteq Running /\ settled \cap floored' = {}
    BY <1>0, <1>2, <1>3 DEF IapShape
  <2> HIDE DEF gone
  <2> QED BY <1>0, <1>1, <2>1, <2>2, <2>3, <2>4 DEF IapShape
<1>7. BudgetKept'
  <2> SUFFICES ASSUME NEW c \in IapChannels(point)
               PROVE  /\ residual[c] >= 0
                      /\ residual[c] + TotalCoupling(eirp', On(c, settled)) = point.threshold
                      /\ unsat'[c] = Cardinality(On(c, Open'))
    BY <1>0 DEF BudgetKept, On, ChannelsOf
  <2> DEFINE A == On(c, settled)
  <2>1. IsFiniteSet(A)
    BY <1>0, <1>2, OnFinite
  <2>2. \A g \in A : g.gain \in Nat /\ eirp[g] \in Nat /\ eirp'[g] = eirp[g]
    <3>1. \A g \in A : g \in Running \ floored /\ g \notin Open
      BY <1>0, <1>2 DEF On, IapShape
    <3> QED BY <1>0, <1>4, <3>1, RunningTypes
  <2>3. TotalCoupling(eirp', A) = TotalCoupling(eirp, A)
    BY <2>1, <2>2, TotalAgree
  <2>4. unsat[c] = Cardinality(On(c, Open))
    BY DEF IapInv, BudgetKept
  <2>5. unsat'[c] = Cardinality(On(c, Open'))
    <3> HIDE DEF gone
    <3>1. Cardinality(On(c, Open \ gone))
             = Cardinality(On(c, Open)) - Cardinality(On(c, gone))
      BY <1>0, <1>2, OnWithout
    <3>2. unsat'[c] = unsat[c] - Cardinality(On(c, gone))
      BY <1>5
    <3> QED BY <1>3, <2>4, <3>1, <3>2
  <2> QED BY <2>3, <2>5 DEF IapInv, BudgetKept
<1>8. ShareKept'
  <2> SUFFICES ASSUME NEW c \in IapChannels(point)
               PROVE  point.threshold * unsat'[c] <= residual[c] * Cardinality(On(c, Running))
    BY <1>0, <1>1 DEF ShareKept, On, ChannelsOf
  <2> DEFINE n == residual[c] * Cardinality(On(c, Running))
             t == point.threshold
             m == Cardinality(On(c, gone))
             u == unsat[c]
  <2>1. t * u <= n
    BY DEF IapInv, ShareKept
  <2>2. m \in Nat /\ unsat'[c] = u - m
    BY <1>5
  <2>3. u = Cardinality(On(c, Open)) /\ t \in Nat
    BY <1>0 DEF IapInv, BudgetKept, IapShape
  <2>4. u \in Nat /\ m <= u
    <3> HIDE DEF gone
    <3>1. Cardinality(On(c, Open)) \in Nat
      BY <1>0, <1>2, OnFinite
    <3>2. Cardinality(On(c, gone)) <= Cardinality(On(c, Open))
      BY <1>0, <1>2, OnWithout
    <3> QED BY <2>3, <3>1, <3>2
  <2>5. n \in Int
    <3>1. Running \in SUBSET Running
      OBVIOUS
    <3>2. Cardinality(On(c, Running)) \in Nat /\ residual[c] \in Int
      BY <1>0, <3>1, OnFinite DEF IapShape
    <3> QED BY <3>2
  <2> HIDE DEF n, t, m, u
  <2>6. t * (u - m) = t * u - t * m /\ t * m \in Nat /\ t * u \in Nat
    BY <2>2, <2>3, <2>4
  <2>7. t * (u - m) <= n
    BY <2>1, <2>5, <2>6
  <2> QED BY <2>2, <2>7 DEF n, t
<1>9. FairGrantsKeepPower'
  <2> DEFINE Fair(g) == /\ ChannelsOf(g, point) # {}
                        /\ \A c \in ChannelsOf(g, point) :
                              Coupling(g, g.eirp) * Cardinality(On(c, Running)) < point.threshold
  <2> SUFFICES ASSUME NEW g \in Running, Fair(g)
               PROVE  g \notin floored' /\ eirp'[g] = g.eirp
    BY <1>0, <1>1 DEF FairGrantsKeepPower, On, ChannelsOf
  <2>1. g \notin Open
    BY FairGrantsLock DEF LowerRound
  <2>2. g \notin floored /\ eirp[g] = g.eirp
    BY DEF IapInv, FairGrantsKeepPower
  <2> QED BY <1>3, <1>4, <2>1, <2>2
<1>10. RoomCutsNobody'
  <2> SUFFICES ASSUME \A c \in IapChannels(point) : GrantedCoupling(On(c, Running)) < point.threshold,
                      NEW g \in Running, ChannelsOf(g, point) # {}
               PROVE  g \notin floored' /\ eirp'[g] = g.eirp
    BY <1>0, <1>1 DEF RoomCutsNobody, On, ChannelsOf
  <2>1. g \notin Open
    BY RoomLocks DEF LowerRound
  <2>2. g \notin floored /\ eirp[g] = g.eirp
    BY DEF IapInv, RoomCutsNobody
  <2> QED BY <1>3, <1>4, <2>1, <2>2
<1> QED BY <1>6, <1>7, <1>8, <1>9, <1>10 DEF IapInv

-----------------------------------------------------------------------------
(* The snapshot, its grants and its points.                                *)

Views(p) == {View(g, p) : g \in Unresolved \cup PeerGrants}

(* The image of a finite set is finite.                                    *)
LEMMA ImageFinite ==
    ASSUME NEW S, IsFiniteSet(S), NEW f, NEW T, T = {f[x] : x \in S}
    PROVE  IsFiniteSet(T)
<1> DEFINE F == [x \in S |-> f[x]]
<1>1. F \in Surjection(S, T)
  BY DEF Surjection
<1> QED BY <1>1, FS_Surjection

(* The grants of the snapshot are finitely many and have positions, levels *)
(* and ranges.                                                             *)
GrantOK(g) ==
    /\ {g.id, g.at, g.eirp} \subseteq Nat
    /\ RangeOK(g.range)

PeerGrant(h, p) ==
    [id |-> h.id, cbsd |-> p.id, at |-> p.at, category |-> p.category,
     range |-> h.range, eirp |-> h.eirp, managing |-> FALSE,
     indoor |-> FALSE, height |-> p.height]
GrantsOf(p) == {PeerGrant(h, p) : h \in ActivePeerGrants(p)}

(* Local grants without a verdict and the grants of peers are finitely     *)
(* many, are in order, and a local one is known by its id.                 *)
LEMMA GrantsOK ==
    ASSUME SnapshotOK(snap)
    PROVE  /\ IsFiniteSet(Unresolved) /\ IsFiniteSet(PeerGrants)
           /\ Unresolved \in SUBSET snap.locals
           /\ \A g \in Unresolved \cup PeerGrants : GrantOK(g)
           /\ \A g \in PeerGrants : ~g.managing
           /\ \A g \in Unresolved : LocalOK(g)
           /\ \A g, h \in Unresolved : g.id = h.id => g = h
<1>1. Unresolved \in SUBSET snap.locals
  BY DEF Unresolved
<1>2. IsFiniteSet(Unresolved)
  BY <1>1, FS_Subset DEF SnapshotOK
<1>3. PeerGrants = UNION {GrantsOf(p) : p \in snap.peers}
  BY DEF PeerGrants, GrantsOf, PeerGrant
<1>4. \A p \in snap.peers : IsFiniteSet(GrantsOf(p))
  <2> SUFFICES ASSUME NEW p \in snap.peers PROVE IsFiniteSet(GrantsOf(p))
    OBVIOUS
  <2>1. ActivePeerGrants(p) \in SUBSET p.grants /\ IsFiniteSet(p.grants)
    BY DEF ActivePeerGrants, SnapshotOK, PeerOK
  <2>2. IsFiniteSet(ActivePeerGrants(p))
    BY <2>1, FS_Subset
  <2> DEFINE f == [h \in ActivePeerGrants(p) |-> PeerGrant(h, p)]
  <2>3. GrantsOf(p) = {f[h] : h \in ActivePeerGrants(p)}
    BY DEF GrantsOf
  <2> HIDE DEF f
  <2> QED BY <2>2, <2>3, ImageFinite
<1>5. IsFiniteSet(PeerGrants)
  <2> DEFINE Q == {GrantsOf(p) : p \in snap.peers}
             f == [p \in snap.peers |-> GrantsOf(p)]
  <2>1. Q = {f[p] : p \in snap.peers}
    OBVIOUS
  <2>2. IsFiniteSet(snap.peers)
    BY DEF SnapshotOK
  <2>3. \A q \in Q : IsFiniteSet(q)
    BY <1>4
  <2>4. PeerGrants = UNION Q
    BY <1>3
  <2> HIDE DEF Q, f
  <2>5. IsFiniteSet(Q)
    BY <2>1, <2>2, ImageFinite
  <2> QED BY <2>3, <2>4, <2>5, FS_UNION
<1>6. ASSUME NEW g \in PeerGrants PROVE GrantOK(g) /\ ~g.managing
  <2>0. PICK p \in snap.peers : g \in GrantsOf(p)
    BY <1>3
  <2>1. PICK h \in ActivePeerGrants(p) : g = PeerGrant(h, p)
    BY <2>0 DEF GrantsOf
  <2>2. p.at \in Nat /\ {h.id, h.eirp} \subseteq Nat /\ RangeOK(h.range)
    BY DEF ActivePeerGrants, SnapshotOK, PeerOK
  <2> QED BY <2>1, <2>2 DEF PeerGrant, GrantOK
<1>7. \A g \in Unresolved : LocalOK(g) /\ GrantOK(g)
  BY <1>1 DEF SnapshotOK, LocalOK, GrantOK
<1>8. \A g, h \in Unresolved : g.id = h.id => g = h
  BY <1>1 DEF SnapshotOK
<1> QED BY <1>1, <1>2, <1>5, <1>6, <1>7, <1>8

(* The values a grant brings to a point are natural numbers.               *)
LEMMA GainType ==
    ASSUME NEW d \in Nat
    PROVE  GainAt(d) \in Nat
<1>1. CASE d < Len(PathGain)
  <2>1. d + 1 \in 1 .. Len(PathGain)
    BY <1>1, EvaluationAssumption
  <2> QED BY <1>1, <2>1, EvaluationAssumption DEF GainAt
<1>2. CASE ~(d < Len(PathGain))
  BY <1>2 DEF GainAt
<1> QED BY <1>1, <1>2

(* The grants that reach a point are finitely many, with natural gains and *)
(* levels.                                                                 *)
LEMMA ViewsOK ==
    ASSUME SnapshotOK(snap), NEW p, p.at \in Nat
    PROVE  /\ IsFiniteSet(Views(p))
           /\ \A v \in Views(p) : v.gain \in Nat /\ v.eirp \in Nat
<1> DEFINE G == Unresolved \cup PeerGrants
           f == [g \in G |-> View(g, p)]
<1>1. IsFiniteSet(G) /\ \A g \in G : GrantOK(g)
  BY GrantsOK, FS_Union
<1>2. Views(p) = {f[g] : g \in G}
  BY DEF Views
<1>3. ASSUME NEW g \in G PROVE f[g].gain \in Nat /\ f[g].eirp \in Nat
  <2>1. g.at \in Nat /\ g.eirp \in Nat
    BY <1>1 DEF GrantOK
  <2>2. GainAt(Distance(g.at, p.at)) \in Nat
    <3>1. Distance(g.at, p.at) \in Nat
      BY <2>1 DEF Distance
    <3> QED BY <3>1, GainType
  <2> QED BY <2>1, <2>2 DEF View
<1>4. IsFiniteSet(Views(p))
  <2> HIDE DEF G, f
  <2> QED BY <1>1, <1>2, ImageFinite
<1> QED BY <1>2, <1>3, <1>4

(* A zone that is not empty has a representative position.                 *)
LEMMA RepresentativeOK ==
    ASSUME NEW zone, ZoneOK(zone), zone # {}
    PROVE  Representative(zone) \in Nat
<1> DEFINE N == {a.from : a \in zone}
<1>1. N \in SUBSET Nat /\ N # {}
  BY DEF ZoneOK
<1>2. PICK k \in N : \A m \in N : k <= m
  <2> HIDE DEF N
  <2> QED BY <1>1, LeastNumber
<1>3. PICK a \in zone : \A b \in zone : a.from <= b.from
  BY <1>2
<1> DEFINE ring == CHOOSE r \in zone : \A b \in zone : r.from <= b.from
<1>4. ring \in zone
  BY <1>3
<1>5. ring.from \in Nat /\ ring.to \in Nat
  BY <1>4 DEF ZoneOK
<1>6. Representative(zone) = (ring.from + ring.to) \div 2
  BY DEF Representative
<1> HIDE DEF ring
<1> QED BY <1>5, <1>6

(* Every protection point has a position and a threshold.                  *)
LEMMA PointAtOK ==
    ASSUME NEW kind \in {"fss_cochannel", "fss_blocking", "gwpz", "ppa", "esc"},
           NEW at \in Nat, NEW r, NEW p \in PointAt(kind, at, r)
    PROVE  p.at \in Nat /\ p.threshold \in Nat
<1>1. p.at = at /\ p.threshold = Profile[kind].threshold
  BY DEF PointAt
<1>2. Profile[kind].threshold \in Nat
  BY EvaluationAssumption
<1> QED BY <1>1, <1>2

(* Every point a snapshot yields lies on the line and has a threshold.     *)
LEMMA PointsOK ==
    ASSUME SnapshotOK(snap), NEW p \in FrozenPoints
    PROVE  p.at \in Nat /\ p.threshold \in Nat
<1>1. ASSUME NEW f \in snap.fss, p \in FssPoints(f) PROVE p.at \in Nat /\ p.threshold \in Nat
  <2>1. f.at \in Nat
    BY DEF SnapshotOK
  <2>2. \/ p \in PointAt("fss_cochannel", f.at, f.range)
        \/ p \in PointAt("fss_blocking", f.at, [low |-> BandLow, high |-> f.range.low])
    BY <1>1 DEF FssPoints
  <2> QED BY <2>1, <2>2, PointAtOK
<1>2. ASSUME NEW w \in snap.wisp, p \in WispPoints(w) PROVE p.at \in Nat /\ p.threshold \in Nat
  <2>1. w.zone # {} /\ p \in PointAt("gwpz", Representative(w.zone), w.range)
    BY <1>2 DEF WispPoints
  <2>2. ZoneOK(w.zone)
    BY DEF SnapshotOK
  <2> QED BY <2>1, <2>2, RepresentativeOK, PointAtOK
<1>3. ASSUME NEW z \in snap.ppas, p \in PpaPoints(z) PROVE p.at \in Nat /\ p.threshold \in Nat
  <2>1. /\ z.zone # {}
        /\ \E r : p \in PointAt("ppa", Representative(z.zone), r)
    BY <1>3 DEF PpaPoints
  <2>2. ZoneOK(z.zone)
    BY DEF SnapshotOK
  <2> QED BY <2>1, <2>2, RepresentativeOK, PointAtOK
<1>4. ASSUME NEW s \in snap.sensors \cup snap.peerSensors, p \in EscPoints(s)
      PROVE  p.at \in Nat /\ p.threshold \in Nat
  <2>1. \E r : p \in PointAt("esc", s.at, r)
    BY <1>4 DEF EscPoints
  <2>2. s.at \in Nat
    BY DEF SnapshotOK
  <2> QED BY <2>1, <2>2, PointAtOK
<1>5. \/ \E f \in snap.fss : p \in FssPoints(f)
      \/ \E w \in snap.wisp : p \in WispPoints(w)
      \/ \E z \in snap.ppas : p \in PpaPoints(z)
      \/ \E s \in snap.sensors \cup snap.peerSensors : p \in EscPoints(s)
  BY DEF FrozenPoints
<1> QED BY <1>1, <1>2, <1>3, <1>4, <1>5

(* Before the first point there is nothing to allocate.                    *)
LEMMA NoChannels == IapChannels(NoPoint) = {}
<1> DEFINE q == (Origin - Origin) \div Width
<1>1. Origin \in Nat /\ Width \in Nat \ {0}
  BY IapAssumption
<1>2. q = 0
  <2>1. Origin - Origin = 0
    BY <1>1
  <2>2. 0 \div Width = 0
    BY <1>1
  <2> QED BY <2>1, <2>2
<1>3. (q * Width) = 0
  BY <1>1, <1>2
<1>4. NoPoint.low = Origin /\ NoPoint.high = Origin
  BY DEF NoPoint
<1>5. {c \in Origin .. Origin - 1 : (c - Origin) % Width = 0} = {}
  BY <1>1
<1>6. Origin + q * Width = Origin
  BY <1>1, <1>3
<1> HIDE DEF q
<1>7. IapChannels(NoPoint) =
         {[low |-> c, high |-> c + Width] : c \in {x \in {c \in Origin .. Origin - 1 : (c - Origin) % Width = 0} : x + Width > Origin}}
  BY <1>4, <1>6, Zenon DEF IapChannels, q
<1> QED BY <1>5, <1>7

-----------------------------------------------------------------------------
(* The evaluation of a snapshot.                                           *)

(* What is known of the stages: the points that are done, the one the      *)
(* tables are about and the queue are the points of the snapshot.          *)
StagesOK ==
    /\ snap \in Snapshots
    /\ queue \in SUBSET FrozenPoints
    /\ stage = "screens" => queue = {} /\ verdicts = << >>
    /\ stage = "iap" => point \in FrozenPoints \ queue /\ grants = Views(point)
    /\ stage = "dpa" => queue = {}
    /\ stage = "done" => queue = {}

EvalInv == StagesOK /\ IapInv

(* A frozen snapshot, before its first protection point.                   *)
THEOREM InitEvalInv == Init => EvalInv
<1> SUFFICES ASSUME Init PROVE EvalInv
  OBVIOUS
<1>1. IapChannels(point) = {} /\ point.threshold = 0 /\ grants = {} /\ Running = {}
  BY NoChannels DEF Init, NoPoint, Running, Neighbors
<1>2. IsFiniteSet({})
  BY FS_EmptySet
<1>3. IapShape
  BY <1>1, <1>2 DEF Init, IapShape
<1>4. BudgetKept /\ ShareKept /\ FairGrantsKeepPower /\ RoomCutsNobody
  BY <1>1 DEF BudgetKept, ShareKept, FairGrantsKeepPower, RoomCutsNobody
<1>5. StagesOK
  BY DEF Init, StagesOK
<1> QED BY <1>3, <1>4, <1>5 DEF EvalInv, IapInv

(* The tables of the next point are those of an allocation that starts.    *)
LEMMA StartPointInv ==
    ASSUME snap \in Snapshots, NEW p \in FrozenPoints, StartPoint(p)
    PROVE  IapInv' /\ point' = p /\ grants' = Views(p)
<1>1. SnapshotOK(snap)
  BY SnapshotsAssumption
<1>2. p.at \in Nat /\ p.threshold \in Nat
  BY <1>1, PointsOK
<1>3. IsFiniteSet(Views(p)) /\ \A v \in Views(p) : v.gain \in Nat /\ v.eirp \in Nat
  BY <1>1, <1>2, ViewsOK
<1>4. /\ point' = p /\ grants' = Views(p)
      /\ eirp' = InitialTables(p, Views(p)).eirp
      /\ residual' = InitialTables(p, Views(p)).residual
      /\ unsat' = InitialTables(p, Views(p)).unsat
      /\ settled' = {} /\ floored' = {}
  BY Zenon DEF StartPoint, Views
<1> QED BY <1>2, <1>3, <1>4, StartIapInv

(* A set that is not empty has the element that is chosen first.           *)
LEMMA Chosen ==
    ASSUME NEW S, S # {}
    PROVE  (CHOOSE q \in S : TRUE) \in S
OBVIOUS

(* Every step of the evaluation (a point begun, a round of the engine, a   *)
(* point left, move lists, merge) keeps the invariant of the engine.       *)
THEOREM NextEvalInv == EvalInv /\ [Next]_vars => EvalInv'
<1> SUFFICES ASSUME EvalInv, [Next]_vars PROVE EvalInv'
  OBVIOUS
<1> USE DEF EvalInv
<1>0. ASSUME UNCHANGED snap PROVE FrozenPoints' = FrozenPoints /\ \A p : Views(p)' = Views(p)
  <2>1. FrozenPoints' = FrozenPoints
    BY <1>0 DEF FrozenPoints, FssPoints, WispPoints, PpaPoints, EscPoints, PalRanges
  <2>2. Unresolved' = Unresolved
    BY <1>0 DEF Unresolved, EndReason, PeerHasGrant, ConflictsPeerPpa, ConflictsPeerEsc, PalRanges
  <2>3. PeerGrants' = PeerGrants
    BY <1>0 DEF PeerGrants
  <2> QED BY <2>1, <2>2, <2>3 DEF Views
<1>a. ASSUME UNCHANGED iapVars PROVE IapInv'
  <2>1. UNCHANGED <<point, grants, eirp, settled, floored, residual, unsat>>
    BY <1>a DEF iapVars, inputs
  <2>2. Running' = Running /\ Open' = Open
    BY <2>1 DEF Running, Open
  <2>3. IapShape'
    BY <2>1, <2>2 DEF IapInv, IapShape
  <2>4. BudgetKept'
    BY <2>1, <2>2 DEF IapInv, BudgetKept, On, ChannelsOf
  <2>5. ShareKept'
    BY <2>1, <2>2 DEF IapInv, ShareKept, On, ChannelsOf
  <2>6. FairGrantsKeepPower'
    BY <2>1, <2>2 DEF IapInv, FairGrantsKeepPower, On, ChannelsOf
  <2>7. RoomCutsNobody'
    BY <2>1, <2>2 DEF IapInv, RoomCutsNobody, On, ChannelsOf
  <2> QED BY <2>3, <2>4, <2>5, <2>6, <2>7 DEF IapInv
<1>1. CASE ScreensFail
  BY <1>0, <1>1, <1>a DEF ScreensFail, StagesOK
<1>2. CASE AllResolved
  BY <1>0, <1>2, <1>a DEF AllResolved, StagesOK
<1>3. CASE SkipIap
  BY <1>0, <1>3, <1>a DEF SkipIap, StagesOK
<1>4. CASE StartIap
  <2> DEFINE p == CHOOSE q \in FrozenPoints : TRUE
  <2>1. p \in FrozenPoints
    BY <1>4, Chosen DEF StartIap
  <2>2. StartPoint(p) /\ queue' = FrozenPoints \ {p} /\ stage' = "iap" /\ UNCHANGED snap
    BY <1>4 DEF StartIap
  <2> HIDE DEF p
  <2>3. IapInv' /\ point' = p /\ grants' = Views(p)
    BY <2>1, <2>2, StartPointInv DEF StagesOK
  <2> QED BY <1>0, <2>1, <2>2, <2>3 DEF StagesOK
<1>5. CASE Allocate
  <2>1. IapInv'
    BY <1>5, LockRoundInv, LowerRoundInv DEF Allocate
  <2>2. UNCHANGED <<snap, stage, queue, verdicts, point, grants>>
    BY <1>5 DEF Allocate, evalVars, LockRound, LowerRound, inputs
  <2> QED BY <1>0, <2>1, <2>2 DEF StagesOK
<1>6. CASE NextPoint
  <2> DEFINE p == CHOOSE q \in queue : TRUE
  <2>1. p \in queue
    BY <1>6, Chosen DEF NextPoint
  <2>2. StartPoint(p) /\ queue' = queue \ {p} /\ UNCHANGED <<snap, stage>> /\ stage = "iap"
    BY <1>6 DEF NextPoint
  <2> HIDE DEF p
  <2>3. IapInv' /\ point' = p /\ grants' = Views(p)
    BY <2>1, <2>2, StartPointInv DEF StagesOK
  <2> QED BY <1>0, <2>1, <2>2, <2>3 DEF StagesOK
<1>7. CASE LastPoint
  BY <1>0, <1>7, <1>a DEF LastPoint, StagesOK
<1>8. CASE MoveGrants
  BY <1>0, <1>8, <1>a DEF MoveGrants, StagesOK
<1>9. CASE UNCHANGED vars
  <2>1. UNCHANGED <<iapVars, snap, stage, queue, verdicts>>
    BY <1>9 DEF vars, evalVars
  <2>2. UNCHANGED <<point, grants>>
    BY <2>1 DEF iapVars, inputs
  <2> QED BY <1>0, <1>a, <2>1, <2>2 DEF StagesOK
<1> QED BY <1>1, <1>2, <1>3, <1>4, <1>5, <1>6, <1>7, <1>8, <1>9 DEF Next

(* The engine's tables agree with each other in every state of the         *)
(* evaluation of any snapshot (engine.py:150-343).                         *)
THEOREM EvalInvHolds == Spec => []EvalInv
BY InitEvalInv, NextEvalInv, PTL DEF Spec

(* Property BudgetKept, for every snapshot and every point: what is locked *)
(* fits the threshold of every channel, and the residual and the counters  *)
(* the engine goes on with are exact (engine.py:185-219).                  *)
THEOREM BudgetIsKept == Spec => []BudgetKept
<1>1. EvalInv => BudgetKept
  BY DEF EvalInv, IapInv
<1> QED BY <1>1, EvalInvHolds, PTL

(* Property FairGrantsKeepPower: a grant below the share it starts with is *)
(* never reduced, however many rounds the others take (engine.py:165-183). *)
THEOREM FairGrantsAreNotReduced == Spec => []FairGrantsKeepPower
<1>1. EvalInv => FairGrantsKeepPower
  BY DEF EvalInv, IapInv
<1> QED BY <1>1, EvalInvHolds, PTL

(* Property RoomCutsNobody: at a point with room for all its neighbours the *)
(* rounds of engine.py:156-220 take no power from a constrained grant.     *)
THEOREM RoomCuts == Spec => []RoomCutsNobody
<1>1. EvalInv => RoomCutsNobody
  BY DEF EvalInv, IapInv
<1> QED BY <1>1, EvalInvHolds, PTL

(* The plan over all points.                                               *)

(* The level a verdict leaves of a level e.                                *)
Left(v, e) ==
    CASE v.action = "terminate" -> 0
      [] v.action = "reduce_power" -> v.eirp
      [] OTHER -> e

(* The level a local grant is left with by the points that are done.       *)
LevelOf(g) == IF g.id \in DOMAIN verdicts THEN Left(verdicts[g.id], g.eirp) ELSE g.eirp

(* The local grants on a channel of a point, and what they put on it.      *)
Affected(p, c) ==
    {g \in Unresolved : /\ View(g, p) \in Neighbors(p, Views(p))
                        /\ c \in ChannelsOf(View(g, p), p)}
Load(p, c) ==
    SumFunctionOnSet([g \in Affected(p, c) |-> View(g, p).gain * LevelOf(g)], Affected(p, c))

(* The points whose decisions are merged.                                  *)
Merged ==
    IF stage = "iap" THEN FrozenPoints \ (queue \cup {point})
    ELSE IF stage \in {"dpa", "done"} THEN FrozenPoints
    ELSE {}

(* The decisions lower levels only, and the points that are done hold      *)
(* their thresholds whatever the points after them decide.                 *)
VerdictsOK ==
    /\ \A id \in DOMAIN verdicts : verdicts[id] \in [action : DOMAIN Rank, eirp : Nat]
    /\ \A g \in Unresolved : LevelOf(g) <= g.eirp
MergedHold == \A p \in Merged : \A c \in IapChannels(p) : Load(p, c) <= p.threshold

(* The move lists are those of the levels that are left.                   *)
MovedGrants ==
    {h \in UNION {MoveList(d, DpaLocals \cup DpaPeers) : d \in snap.dpas} : h.managing}
MovedOK == stage = "done" => Unresolved = {} \/ moved = {g.id : g \in MovedGrants}

PlanInv == EvalInv /\ VerdictsOK /\ MergedHold /\ MovedOK

-----------------------------------------------------------------------------
(* Merging the decisions of a point.                                       *)

(* A verdict removes the grant, sets its level, or leaves it alone.         *)
LEMMA LeftCases ==
    ASSUME NEW v \in [action : DOMAIN Rank, eirp : Nat], NEW e
    PROVE  /\ \/ v.action = "terminate" /\ Left(v, e) = 0
              \/ v.action = "reduce_power" /\ Left(v, e) = v.eirp
              \/ v.action = "keep" /\ Left(v, e) = e
           /\ v.eirp \in Nat
<1>1. v.action \in {"keep", "reduce_power", "terminate"} /\ v.eirp \in Nat
  BY DEF Rank
<1>2. CASE v.action = "terminate"
  BY <1>1, <1>2, Zenon DEF Left
<1>3. CASE v.action = "reduce_power"
  <2>1. v.action # "terminate"
    BY <1>3
  <2>2. Left(v, e) = v.eirp
    BY <1>3, <2>1, Zenon DEF Left
  <2> QED BY <1>1, <1>3, <2>2
<1>4. CASE v.action = "keep"
  <2>1. v.action # "terminate" /\ v.action # "reduce_power"
    BY <1>4
  <2>2. Left(v, e) = e
    BY <2>1, Zenon DEF Left
  <2> QED BY <1>1, <1>4, <2>2
<1> QED BY <1>1, <1>2, <1>3, <1>4

(* The stricter decision wins, and of two equal ones the lower level.      *)
LEMMA MergeCases ==
    ASSUME NEW old \in [action : DOMAIN Rank, eirp : Nat],
           NEW new \in [action : DOMAIN Rank, eirp : Nat]
    PROVE  \/ Rank[old.action] > Rank[new.action] /\ MergeIap(old, new) = old
           \/ Rank[old.action] < Rank[new.action] /\ MergeIap(old, new) = new
           \/ /\ old.action = new.action
              /\ MergeIap(old, new) = [old EXCEPT !.eirp = Min({@, new.eirp})]
<1>1. /\ old.action \in {"keep", "reduce_power", "terminate"}
      /\ new.action \in {"keep", "reduce_power", "terminate"}
  BY DEF Rank
<1>2. Rank["keep"] = 0 /\ Rank["reduce_power"] = 1 /\ Rank["terminate"] = 2
  BY DEF Rank
<1>3. Rank[old.action] \in Nat /\ Rank[new.action] \in Nat
  BY <1>1, <1>2
<1>4. CASE Rank[old.action] > Rank[new.action]
  <2>1. ~(Rank[old.action] < Rank[new.action])
    BY <1>3, <1>4
  <2>2. MergeIap(old, new) = old
    BY <1>4, <2>1, Zenon DEF MergeIap
  <2> QED BY <1>4, <2>2, Zenon
<1>5. CASE Rank[old.action] < Rank[new.action]
  <2>1. ~(Rank[old.action] > Rank[new.action])
    BY <1>3, <1>5
  <2>2. MergeIap(old, new) = new
    BY <1>5, <2>1, Zenon DEF MergeIap
  <2> QED BY <1>5, <2>2, Zenon
<1>6. CASE Rank[old.action] = Rank[new.action]
  <2>1. ~(Rank[old.action] > Rank[new.action]) /\ ~(Rank[old.action] < Rank[new.action])
    BY <1>3, <1>6
  <2>2. old.action = new.action
    BY <1>1, <1>2, <1>6
  <2>3. MergeIap(old, new) = [old EXCEPT !.eirp = Min({@, new.eirp})]
    BY <2>1, Zenon DEF MergeIap
  <2> QED BY <2>2, <2>3, Zenon
<1>7. \/ Rank[old.action] > Rank[new.action]
      \/ Rank[old.action] < Rank[new.action]
      \/ Rank[old.action] = Rank[new.action]
  BY <1>3
<1> QED BY <1>4, <1>5, <1>6, <1>7, Zenon

(* Of two numbers the smaller.                                             *)
LEMMA MinOfTwo ==
    ASSUME NEW a \in Nat, NEW b \in Nat
    PROVE  Min({a, b}) \in {a, b} /\ Min({a, b}) <= a /\ Min({a, b}) <= b
<1>1. \E x \in {a, b} : \A y \in {a, b} : x <= y
  OBVIOUS
<1> QED BY <1>1 DEF Min

(* A merged decision leaves no more than either of the two.                *)
LEMMA MergeLowers ==
    ASSUME NEW old \in [action : DOMAIN Rank, eirp : Nat],
           NEW new \in [action : DOMAIN Rank, eirp : Nat],
           NEW e \in Nat, Left(old, e) <= e, Left(new, e) <= e
    PROVE  /\ MergeIap(old, new) \in [action : DOMAIN Rank, eirp : Nat]
           /\ Left(MergeIap(old, new), e) \in Nat
           /\ Left(MergeIap(old, new), e) <= Left(old, e)
           /\ Left(MergeIap(old, new), e) <= Left(new, e)
<1> DEFINE m == MergeIap(old, new)
           low == Min({old.eirp, new.eirp})
<1>0. old.eirp \in Nat /\ new.eirp \in Nat
  OBVIOUS
<1>1. low \in Nat /\ low <= old.eirp /\ low <= new.eirp
  BY <1>0, MinOfTwo
<1>2. \/ Rank[old.action] > Rank[new.action] /\ m = old
      \/ Rank[old.action] < Rank[new.action] /\ m = new
      \/ old.action = new.action /\ m = [old EXCEPT !.eirp = low]
  BY MergeCases
<1> HIDE DEF m, low
<1>3. m \in [action : DOMAIN Rank, eirp : Nat]
  BY <1>1, <1>2
<1>4. Rank["keep"] = 0 /\ Rank["reduce_power"] = 1 /\ Rank["terminate"] = 2
  BY DEF Rank
<1>5. /\ \/ old.action = "terminate" /\ Left(old, e) = 0
         \/ old.action = "reduce_power" /\ Left(old, e) = old.eirp
         \/ old.action = "keep" /\ Left(old, e) = e
      /\ \/ new.action = "terminate" /\ Left(new, e) = 0
         \/ new.action = "reduce_power" /\ Left(new, e) = new.eirp
         \/ new.action = "keep" /\ Left(new, e) = e
      /\ \/ m.action = "terminate" /\ Left(m, e) = 0
         \/ m.action = "reduce_power" /\ Left(m, e) = m.eirp
         \/ m.action = "keep" /\ Left(m, e) = e
  BY <1>3, LeftCases
<1> DEFINE Lower == Left(m, e) \in Nat /\ Left(m, e) <= Left(old, e) /\ Left(m, e) <= Left(new, e)
<1>6. ASSUME Rank[old.action] > Rank[new.action], m = old
      PROVE  Lower
  <2>1. \/ old.action = "terminate" /\ Left(m, e) = 0 /\ Left(new, e) \in {e, new.eirp}
        \/ /\ old.action = "reduce_power" /\ new.action = "keep"
           /\ Left(m, e) = old.eirp /\ Left(new, e) = e
    BY <1>4, <1>5, <1>6
  <2> QED BY <1>0, <1>5, <1>6, <2>1
<1>7. ASSUME Rank[old.action] < Rank[new.action], m = new
      PROVE  Lower
  <2>1. \/ new.action = "terminate" /\ Left(m, e) = 0 /\ Left(old, e) \in {e, old.eirp}
        \/ /\ new.action = "reduce_power" /\ old.action = "keep"
           /\ Left(m, e) = new.eirp /\ Left(old, e) = e
    BY <1>4, <1>5, <1>7
  <2> QED BY <1>0, <1>5, <1>7, <2>1
<1>8. ASSUME old.action = new.action, m = [old EXCEPT !.eirp = low]
      PROVE  Lower
  <2>1. m.action = old.action /\ m.eirp = low
    BY <1>8
  <2>2. \/ Left(m, e) = 0 /\ Left(old, e) = 0 /\ Left(new, e) = 0
        \/ Left(m, e) = low /\ Left(old, e) = old.eirp /\ Left(new, e) = new.eirp
        \/ Left(m, e) = e /\ Left(old, e) = e /\ Left(new, e) = e
    BY <1>5, <1>8, <2>1
  <2> QED BY <1>0, <1>1, <2>2
<1>9. Lower
  BY <1>2, <1>6, <1>7, <1>8
<1> QED BY <1>3, <1>9 DEF m

(* What is not removed is left at its effective level.                     *)
LEMMA LevelIsEffective ==
    ASSUME NEW g, g.id \notin IapTerminated
    PROVE  LevelOf(g) = EffectiveEirp(g)
<1>1. CASE g.id \notin DOMAIN verdicts
  BY <1>1 DEF LevelOf, EffectiveEirp
<1>2. CASE g.id \in DOMAIN verdicts
  <2>1. verdicts[g.id].action # "terminate"
    BY <1>2 DEF IapTerminated
  <2>2. CASE verdicts[g.id].action = "reduce_power"
    <3>1. Left(verdicts[g.id], g.eirp) = verdicts[g.id].eirp
      BY <2>1, <2>2, Zenon DEF Left
    <3> QED BY <1>2, <2>2, <3>1 DEF LevelOf, EffectiveEirp
  <2>3. CASE verdicts[g.id].action # "reduce_power"
    <3>1. Left(verdicts[g.id], g.eirp) = g.eirp
      BY <2>1, <2>3, Zenon DEF Left
    <3> QED BY <1>2, <2>3, <3>1 DEF LevelOf, EffectiveEirp
  <2> QED BY <2>2, <2>3
<1> QED BY <1>1, <1>2

(* The view of a local grant keeps its id and level.                       *)
LEMMA LocalView ==
    ASSUME SnapshotOK(snap), NEW p, p.at \in Nat, NEW g \in Unresolved
    PROVE  /\ View(g, p) \in Views(p) /\ View(g, p).managing
           /\ View(g, p).id = g.id /\ View(g, p).eirp = g.eirp
           /\ View(g, p).gain \in Nat /\ g.eirp \in Nat
<1>1. g.managing /\ g.eirp \in Nat
  BY GrantsOK DEF LocalOK
<1>2. View(g, p) \in Views(p)
  BY DEF Views
<1>3. View(g, p).gain \in Nat
  BY <1>2, ViewsOK
<1> QED BY <1>1, <1>2, <1>3 DEF View

(* The grants the engine decides on at a point are the local ones.         *)
LEMMA ManagedViews ==
    ASSUME SnapshotOK(snap), point.at \in Nat, grants = Views(point)
    PROVE  /\ Managed = {View(g, point) : g \in Unresolved}
           /\ \A g \in Unresolved :
                 (CHOOSE h \in Managed : h.id = g.id) = View(g, point)
<1>1. \A g \in Unresolved : View(g, point).managing
  BY LocalView
<1>2. \A g \in PeerGrants : ~View(g, point).managing
  BY GrantsOK DEF View
<1>3. Managed = {View(g, point) : g \in Unresolved}
  BY <1>1, <1>2 DEF Managed, Views
<1>4. ASSUME NEW g \in Unresolved
      PROVE  (CHOOSE h \in Managed : h.id = g.id) = View(g, point)
  <2>1. View(g, point) \in Managed /\ View(g, point).id = g.id
    BY <1>3, LocalView
  <2>2. ASSUME NEW h \in Managed, h.id = g.id PROVE h = View(g, point)
    <3>1. PICK k \in Unresolved : h = View(k, point)
      BY <1>3
    <3>2. k.id = g.id
      BY <2>2, <3>1, LocalView
    <3>3. k = g
      BY <3>2, GrantsOK
    <3> QED BY <3>1, <3>3
  <2> QED BY <2>1, <2>2
<1> QED BY <1>3, <1>4

(* The decision of a point on a local grant: no more than the level it is  *)
(* granted, and no more than the level the rounds left it.                 *)
LEMMA PointDecides ==
    ASSUME SnapshotOK(snap), point.at \in Nat, grants = Views(point), IapInv,
           NEW g \in Unresolved
    PROVE  LET v == View(g, point)
               d == PointVerdict(v)
           IN  /\ d \in [action : DOMAIN Rank, eirp : Nat]
               /\ Left(d, g.eirp) \in Nat /\ Left(d, g.eirp) <= g.eirp
               /\ IapChannels(point) # {} /\ v \in Running \ floored => Left(d, g.eirp) <= eirp[v]
               /\ IapChannels(point) # {} /\ v \in floored => Left(d, g.eirp) = 0
<1> DEFINE v == View(g, point)
           d == PointVerdict(v)
<1>1. v.eirp = g.eirp /\ g.eirp \in Nat /\ v \in grants
  BY LocalView
<1>2. IapShape
  BY DEF IapInv
<1>3. Floor \in Nat /\ floored \in SUBSET Running
  BY <1>2, IapAssumption DEF IapShape
<1> HIDE DEF v
<1>4. v \in Running \ floored => eirp[v] \in Nat
  BY <1>2, RunningTypes
<1>5. /\ d.action = Decision(v)
      /\ d.eirp = IF v \in floored THEN Floor ELSE IF v \in Running THEN eirp[v] ELSE v.eirp
      /\ d = [action |-> Decision(v), eirp |-> d.eirp]
  BY DEF PointVerdict
<1> HIDE DEF d
<1>6. /\ d.eirp \in Nat
      /\ v \in Running \ floored => d.eirp = eirp[v]
  BY <1>1, <1>3, <1>4, <1>5
<1>7. \/ /\ Decision(v) = "keep"
         /\ \/ IapChannels(point) = {} \/ v \notin Running
            \/ v \notin floored /\ ~(eirp[v] < v.eirp)
      \/ /\ Decision(v) = "terminate" /\ v \in floored
      \/ /\ Decision(v) = "reduce_power" /\ v \in Running \ floored /\ eirp[v] < v.eirp
  BY DEF Decision
<1>8. Decision(v) \in DOMAIN Rank
  BY <1>7 DEF Rank
<1>9. d \in [action : DOMAIN Rank, eirp : Nat]
  BY <1>5, <1>6, <1>8
<1>10. \/ d.action = "terminate" /\ Left(d, g.eirp) = 0
       \/ d.action = "reduce_power" /\ Left(d, g.eirp) = d.eirp
       \/ d.action = "keep" /\ Left(d, g.eirp) = g.eirp
  BY <1>9, LeftCases
<1>11. CASE Decision(v) = "keep"
  BY <1>1, <1>3, <1>4, <1>5, <1>7, <1>9, <1>10, <1>11 DEF v, d
<1>12. CASE Decision(v) = "terminate"
  BY <1>1, <1>3, <1>4, <1>5, <1>7, <1>9, <1>10, <1>12 DEF v, d
<1>13. CASE Decision(v) = "reduce_power"
  BY <1>1, <1>3, <1>4, <1>5, <1>6, <1>7, <1>9, <1>10, <1>13 DEF v, d
<1> QED BY <1>7, <1>11, <1>12, <1>13

(* The decisions of a finished point are merged: levels only go down, and  *)
(* to no more than the point leaves.                                       *)
LEMMA MergeVerdicts ==
    ASSUME EvalInv, VerdictsOK, stage = "iap", verdicts' = MergedVerdicts
    PROVE  /\ \A id \in DOMAIN verdicts' : verdicts'[id] \in [action : DOMAIN Rank, eirp : Nat]
           /\ \A g \in Unresolved :
                 LET level == IF g.id \in DOMAIN verdicts' THEN Left(verdicts'[g.id], g.eirp)
                              ELSE g.eirp
                 IN  /\ level \in Nat
                     /\ level <= LevelOf(g) /\ LevelOf(g) <= g.eirp
                     /\ level <= Left(PointVerdict(View(g, point)), g.eirp)
<1>1. SnapshotOK(snap) /\ point \in FrozenPoints /\ grants = Views(point)
  BY SnapshotsAssumption DEF EvalInv, StagesOK
<1>2. point.at \in Nat
  BY <1>1, PointsOK
<1> DEFINE new(g) == PointVerdict(View(g, point))
           merged(g) == IF g.id \in DOMAIN verdicts THEN MergeIap(verdicts[g.id], new(g)) ELSE new(g)
<1>3. PICK after : after = verdicts'
  OBVIOUS
<1>4. /\ DOMAIN after = {g.id : g \in Unresolved}
      /\ \A g \in Unresolved : after[g.id] = merged(g)
  <2>1. /\ Managed = {View(g, point) : g \in Unresolved}
        /\ \A g \in Unresolved : (CHOOSE h \in Managed : h.id = g.id) = View(g, point)
    BY <1>1, <1>2, ManagedViews
  <2>2. \A g \in Unresolved : View(g, point).id = g.id
    BY <1>1, <1>2, LocalView
  <2>3. {h.id : h \in Managed} = {g.id : g \in Unresolved}
    BY <2>1, <2>2
  <2>4. ASSUME NEW g \in Unresolved PROVE after[g.id] = merged(g)
    <3>1. g.id \in {h.id : h \in Managed}
      BY <2>3
    <3> DEFINE k == CHOOSE h \in Managed : h.id = g.id
    <3>2. after[g.id] = IF g.id \in DOMAIN verdicts THEN MergeIap(verdicts[g.id], PointVerdict(k))
                        ELSE PointVerdict(k)
      BY <1>3, <3>1 DEF MergedVerdicts
    <3>3. k = View(g, point)
      BY <2>1
    <3> HIDE DEF k
    <3> QED BY <3>2, <3>3
  <2>5. DOMAIN after = {h.id : h \in Managed}
    BY <1>3 DEF MergedVerdicts
  <2> QED BY <2>3, <2>4, <2>5
<1>5. ASSUME NEW g \in Unresolved
      PROVE  /\ merged(g) \in [action : DOMAIN Rank, eirp : Nat]
             /\ Left(merged(g), g.eirp) \in Nat
             /\ Left(merged(g), g.eirp) <= LevelOf(g) /\ LevelOf(g) <= g.eirp
             /\ Left(merged(g), g.eirp) <= Left(new(g), g.eirp)
  <2>1. g.eirp \in Nat
    BY <1>1, <1>2, LocalView
  <2>2. /\ new(g) \in [action : DOMAIN Rank, eirp : Nat]
        /\ Left(new(g), g.eirp) \in Nat /\ Left(new(g), g.eirp) <= g.eirp
    BY <1>1, <1>2, PointDecides DEF EvalInv
  <2>3. LevelOf(g) <= g.eirp
    BY DEF VerdictsOK
  <2> HIDE DEF new
  <2>4. CASE g.id \in DOMAIN verdicts
    <3>1. verdicts[g.id] \in [action : DOMAIN Rank, eirp : Nat]
      BY <2>4 DEF VerdictsOK
    <3>2. LevelOf(g) = Left(verdicts[g.id], g.eirp)
      BY <2>4 DEF LevelOf
    <3>3. merged(g) = MergeIap(verdicts[g.id], new(g))
      BY <2>4
    <3> QED BY <2>1, <2>2, <2>3, <3>1, <3>2, <3>3, MergeLowers
  <2>5. CASE g.id \notin DOMAIN verdicts
    <3>1. LevelOf(g) = g.eirp /\ merged(g) = new(g)
      BY <2>5 DEF LevelOf
    <3> QED BY <2>1, <2>2, <3>1
  <2> QED BY <2>4, <2>5
<1> HIDE DEF merged
<1>6. \A id \in DOMAIN after : after[id] \in [action : DOMAIN Rank, eirp : Nat]
  BY <1>4, <1>5
<1>7. \A g \in Unresolved : g.id \in DOMAIN after /\ after[g.id] = merged(g)
  BY <1>4
<1> QED BY <1>3, <1>5, <1>6, <1>7

(* What depends on the snapshot alone does not change with the decisions.  *)
LEMMA SnapshotFixed ==
    ASSUME UNCHANGED snap
    PROVE  /\ FrozenPoints' = FrozenPoints /\ Unresolved' = Unresolved /\ PeerGrants' = PeerGrants
           /\ \A p : Views(p)' = Views(p)
           /\ \A p, c : Affected(p, c)' = Affected(p, c)
<1>1. FrozenPoints' = FrozenPoints
  BY DEF FrozenPoints, FssPoints, WispPoints, PpaPoints, EscPoints, PalRanges
<1>2. Unresolved' = Unresolved
  BY DEF Unresolved, EndReason, PeerHasGrant, ConflictsPeerPpa, ConflictsPeerEsc, PalRanges
<1>3. PeerGrants' = PeerGrants
  BY DEF PeerGrants
<1>4. \A p : Views(p)' = Views(p)
  BY <1>2, <1>3 DEF Views
<1>5. \A p, c : Affected(p, c)' = Affected(p, c)
  BY <1>2, <1>4 DEF Affected
<1> QED BY <1>1, <1>2, <1>3, <1>4, <1>5

(* The load of a channel is a sum of natural numbers over a finite set.    *)
LEMMA AffectedOK ==
    ASSUME SnapshotOK(snap), NEW p, p.at \in Nat, NEW c
    PROVE  /\ IsFiniteSet(Affected(p, c)) /\ Affected(p, c) \in SUBSET Unresolved
           /\ \A g \in Affected(p, c) : View(g, p).gain \in Nat /\ g.eirp \in Nat
<1>1. Affected(p, c) \in SUBSET Unresolved
  BY DEF Affected
<1>2. IsFiniteSet(Affected(p, c))
  BY <1>1, GrantsOK, FS_Subset
<1> QED BY <1>1, <1>2, LocalView

(* What the channel carries after the point is decided is what the engine  *)
(* has locked there, or less.                                              *)
LEMMA PointHolds ==
    ASSUME EvalInv, VerdictsOK, stage = "iap", Done, verdicts' = MergedVerdicts, UNCHANGED snap,
           NEW p, p = point, NEW c \in IapChannels(p)
    PROVE  Load(p, c)' <= p.threshold
<1>1. SnapshotOK(snap) /\ p \in FrozenPoints /\ grants = Views(p) /\ IapInv
  BY SnapshotsAssumption DEF EvalInv, StagesOK
<1>2. p.at \in Nat /\ p.threshold \in Nat
  BY <1>1, PointsOK
<1>3. IapShape /\ BudgetKept /\ Running \in SUBSET settled \cup floored
  BY <1>1 DEF IapInv, Done, Open
<1> DEFINE A == Affected(p, c)
           after(g) == IF g.id \in DOMAIN verdicts' THEN Left(verdicts'[g.id], g.eirp) ELSE g.eirp
           B == {g \in A : View(g, p) \in settled}
           T == On(c, settled)
           k == [v \in T |-> Coupling(v, eirp[v])]
           h == [g \in B |-> View(g, p)]
<1>4. IsFiniteSet(A) /\ \A g \in A : g \in Unresolved /\ View(g, p).gain \in Nat /\ g.eirp \in Nat
  BY <1>1, <1>2, AffectedOK
<1>5. PICK f : f = [g \in A |-> View(g, p).gain * after(g)]
  OBVIOUS
<1>6. Load(p, c)' = SumFunctionOnSet(f, A)
  BY <1>5, SnapshotFixed DEF Load, LevelOf
<1>7. ASSUME NEW g \in A
      PROVE  /\ View(g, p) \in Running /\ c \in ChannelsOf(View(g, p), point)
             /\ after(g) \in Nat /\ f[g] \in Nat
             /\ View(g, p) \in settled => f[g] <= Coupling(View(g, p), eirp[View(g, p)])
             /\ View(g, p) \notin settled => f[g] = 0
  <2> DEFINE v == View(g, p)
  <2>1. v \in Running /\ c \in ChannelsOf(v, point)
    BY <1>1 DEF Affected, Running
  <2>2. after(g) \in Nat /\ after(g) <= Left(PointVerdict(v), g.eirp)
    BY <1>4, MergeVerdicts
  <2>3. /\ v \in Running \ floored => Left(PointVerdict(v), g.eirp) <= eirp[v]
        /\ v \in floored => Left(PointVerdict(v), g.eirp) = 0
        /\ Left(PointVerdict(v), g.eirp) \in Nat
    BY <1>1, <1>2, <1>4, PointDecides
  <2>4. f[g] = v.gain * after(g) /\ v.gain \in Nat
    BY <1>4, <1>5
  <2>5. v \in Running \ floored => eirp[v] \in Nat
    BY <1>3, RunningTypes
  <2>6. v \in settled => v \notin floored
    BY <1>3 DEF IapShape
  <2> HIDE DEF v, after
  <2>7. ASSUME v \in settled PROVE f[g] <= Coupling(v, eirp[v])
    <3>1. after(g) <= eirp[v] /\ eirp[v] \in Nat
      BY <2>1, <2>2, <2>3, <2>5, <2>6, <2>7
    <3>2. after(g) * v.gain <= eirp[v] * v.gain
      BY <2>2, <2>4, <3>1, TimesKeepsOrder
    <3>3. after(g) * v.gain = v.gain * after(g) /\ eirp[v] * v.gain = v.gain * eirp[v]
      BY <2>2, <2>4, <3>1
    <3> QED BY <2>4, <3>2, <3>3 DEF Coupling
  <2>8. ASSUME v \notin settled PROVE f[g] = 0
    <3>1. after(g) = 0
      BY <1>3, <2>1, <2>2, <2>3, <2>8
    <3> QED BY <2>4, <3>1
  <2>9. f[g] \in Nat
    BY <2>2, <2>4
  <2> QED BY <2>1, <2>2, <2>7, <2>8, <2>9 DEF v
<1> HIDE DEF A, after
<1>8. SumFunctionOnSet(f, A) = SumFunctionOnSet(f, B)
  <2>1. B \in SUBSET A /\ \A g \in A \ B : f[g] = 0
    BY <1>7
  <2> HIDE DEF B
  <2> QED BY <1>4, <1>7, <2>1, SumSupport
<1>9. SumFunctionOnSet(f, B) <= SumFunctionOnSet(k, T)
  <2>1. IsFiniteSet(B) /\ \A g \in B : f[g] \in Nat
    BY <1>4, <1>7, FS_Subset
  <2>2. IsFiniteSet(T) /\ \A v \in T : k[v] \in Nat
    <3>1. settled \in SUBSET Running /\ \A v \in T : v \in Running \ floored
      BY <1>3 DEF IapShape, On
    <3>2. IsFiniteSet(T)
      BY <1>3, <3>1, OnFinite
    <3>3. \A v \in T : v.gain \in Nat /\ eirp[v] \in Nat
      BY <1>3, <3>1, RunningTypes
    <3> QED BY <3>2, <3>3 DEF Coupling
  <2>3. \A g \in B : h[g] \in T /\ f[g] <= k[h[g]]
    BY <1>7 DEF On
  <2>4. \A g1, g2 \in B : h[g1] = h[g2] => g1 = g2
    <3> SUFFICES ASSUME NEW g1 \in B, NEW g2 \in B, View(g1, p) = View(g2, p) PROVE g1 = g2
      BY DEF h
    <3>1. g1 \in Unresolved /\ g2 \in Unresolved
      BY <1>4
    <3>2. g1.id = g2.id
      BY <1>1, <1>2, <3>1, LocalView
    <3> QED BY <1>1, <3>1, <3>2, GrantsOK
  <2> HIDE DEF B, T, k, h
  <2> QED BY <2>1, <2>2, <2>3, <2>4, SumInto
<1>10. SumFunctionOnSet(k, T) = TotalCoupling(eirp, On(c, settled))
  BY DEF TotalCoupling
<1>11. /\ TotalCoupling(eirp, On(c, settled)) \in Nat
       /\ TotalCoupling(eirp, On(c, settled)) <= p.threshold
  <2>1. residual[c] \in Int /\ residual[c] >= 0
        /\ residual[c] + TotalCoupling(eirp, On(c, settled)) = p.threshold
    BY <1>3 DEF BudgetKept, IapShape
  <2>2. TotalCoupling(eirp, On(c, settled)) \in Nat
    <3>1. settled \in SUBSET Running /\ \A v \in On(c, settled) : v \in Running \ floored
      BY <1>3 DEF IapShape, On
    <3>2. IsFiniteSet(On(c, settled))
      BY <1>3, <3>1, OnFinite
    <3>3. \A v \in On(c, settled) : v.gain \in Nat /\ eirp[v] \in Nat
      BY <1>3, <3>1, RunningTypes
    <3> QED BY <3>2, <3>3, TotalType
  <2> QED BY <1>2, <2>1, <2>2
<1>12. SumFunctionOnSet(f, A) \in Nat
  BY <1>4, <1>7, SumElement
<1> QED BY <1>2, <1>6, <1>8, <1>9, <1>10, <1>11, <1>12

(* Lowering levels lowers the load of every channel.                       *)
LEMMA LoadFalls ==
    ASSUME SnapshotOK(snap), UNCHANGED snap, NEW p, p.at \in Nat, NEW c,
           \A g \in Unresolved : LevelOf(g)' \in Nat /\ LevelOf(g) \in Nat /\ LevelOf(g)' <= LevelOf(g)
    PROVE  Load(p, c)' <= Load(p, c) /\ Load(p, c)' \in Nat /\ Load(p, c) \in Nat
<1> DEFINE A == Affected(p, c)
           f == [g \in A |-> View(g, p).gain * LevelOf(g)]
           h == [g \in A |-> g]
<1>1. PICK after : after = [g \in A |-> View(g, p).gain * LevelOf(g)']
  OBVIOUS
<1>2. IsFiniteSet(A) /\ \A g \in A : g \in Unresolved /\ View(g, p).gain \in Nat
  BY AffectedOK
<1>3. Load(p, c)' = SumFunctionOnSet(after, A)
  BY <1>1, SnapshotFixed DEF Load
<1>4. Load(p, c) = SumFunctionOnSet(f, A)
  BY DEF Load
<1>5. ASSUME NEW g \in A
      PROVE  after[g] \in Nat /\ f[g] \in Nat /\ after[g] <= f[g]
  <2> DEFINE low == LevelOf(g)'
             high == LevelOf(g)
             gain == View(g, p).gain
  <2>1. low \in Nat /\ high \in Nat /\ low <= high /\ gain \in Nat
    BY <1>2
  <2>2. after[g] = gain * low /\ f[g] = gain * high
    BY <1>1
  <2> HIDE DEF low, high, gain
  <2>3. PICK a \in Nat, b \in Nat : a = low /\ b = high
    BY <2>1
  <2>4. a * gain <= b * gain
    BY <2>1, <2>3, TimesKeepsOrder
  <2>5. a * gain = gain * a /\ b * gain = gain * b /\ gain * a \in Nat /\ gain * b \in Nat
    BY <2>1
  <2> QED BY <2>2, <2>3, <2>4, <2>5
<1>6. \A g \in A : h[g] \in A /\ after[g] <= f[h[g]]
  BY <1>5
<1>7. \A g1, g2 \in A : h[g1] = h[g2] => g1 = g2
  OBVIOUS
<1> HIDE DEF A, f, h
<1>8. SumFunctionOnSet(after, A) <= SumFunctionOnSet(f, A)
  BY <1>2, <1>5, <1>6, <1>7, SumInto
<1>9. SumFunctionOnSet(after, A) \in Nat /\ SumFunctionOnSet(f, A) \in Nat
  BY <1>2, <1>5, SumElement
<1> QED BY <1>3, <1>4, <1>8, <1>9

(* After the merge every finished point, this one included, is held.       *)
LEMMA MergeHolds ==
    ASSUME EvalInv, VerdictsOK, MergedHold, stage = "iap", Done,
           verdicts' = MergedVerdicts, UNCHANGED snap
    PROVE  /\ VerdictsOK'
           /\ \A p \in Merged \cup {point} : \A c \in IapChannels(p) : Load(p, c)' <= p.threshold
<1>1. SnapshotOK(snap) /\ point \in FrozenPoints
  BY SnapshotsAssumption DEF EvalInv, StagesOK
<1>2. ASSUME NEW g \in Unresolved
      PROVE  /\ LevelOf(g)' \in Nat /\ LevelOf(g) \in Nat
             /\ LevelOf(g)' <= LevelOf(g) /\ LevelOf(g)' <= g.eirp
  <2>1. g.eirp \in Nat
    BY <1>1, GrantsOK DEF GrantOK
  <2>2. LevelOf(g)' = IF g.id \in DOMAIN verdicts' THEN Left(verdicts'[g.id], g.eirp) ELSE g.eirp
    BY DEF LevelOf
  <2>3. LevelOf(g)' \in Nat /\ LevelOf(g)' <= LevelOf(g) /\ LevelOf(g) <= g.eirp
    BY <2>2, MergeVerdicts
  <2>4. LevelOf(g) \in Nat
    <3>1. CASE g.id \in DOMAIN verdicts
      <4>1. verdicts[g.id] \in [action : DOMAIN Rank, eirp : Nat]
        BY <3>1 DEF VerdictsOK
      <4>2. Left(verdicts[g.id], g.eirp) \in Nat
        BY <2>1, <4>1, LeftCases
      <4> QED BY <3>1, <4>2 DEF LevelOf
    <3>2. CASE g.id \notin DOMAIN verdicts
      BY <2>1, <3>2 DEF LevelOf
    <3> QED BY <3>1, <3>2
  <2> QED BY <2>1, <2>3, <2>4
<1>3. VerdictsOK'
  <2>1. \A id \in DOMAIN verdicts' : verdicts'[id] \in [action : DOMAIN Rank, eirp : Nat]
    BY MergeVerdicts
  <2>2. Unresolved' = Unresolved
    BY SnapshotFixed
  <2> QED BY <1>2, <2>1, <2>2 DEF VerdictsOK
<1>4. ASSUME NEW p \in Merged, NEW c \in IapChannels(p)
      PROVE  Load(p, c)' <= p.threshold
  <2>1. p \in FrozenPoints
    BY DEF Merged
  <2>2. p.at \in Nat /\ p.threshold \in Nat
    BY <1>1, <2>1, PointsOK
  <2>3. Load(p, c) <= p.threshold
    BY DEF MergedHold
  <2>4. Load(p, c)' <= Load(p, c) /\ Load(p, c)' \in Nat /\ Load(p, c) \in Nat
    BY <1>1, <1>2, <2>2, LoadFalls
  <2> QED BY <2>2, <2>3, <2>4
<1>5. ASSUME NEW p, p = point, NEW c \in IapChannels(p)
      PROVE  Load(p, c)' <= p.threshold
  BY <1>5, PointHolds
<1> QED BY <1>3, <1>4, <1>5

(* While no decision is merged, levels and loads stay.                     *)
LEMMA VerdictsFixed ==
    ASSUME UNCHANGED <<snap, verdicts>>, VerdictsOK
    PROVE  VerdictsOK' /\ \A p, c : Load(p, c)' = Load(p, c)
<1>1. \A g : LevelOf(g)' = LevelOf(g)
  BY DEF LevelOf
<1>2. Unresolved' = Unresolved /\ \A p, c : Affected(p, c)' = Affected(p, c)
  BY SnapshotFixed
<1>3. VerdictsOK'
  BY <1>1, <1>2 DEF VerdictsOK
<1>4. ASSUME NEW p, NEW c PROVE Load(p, c)' = Load(p, c)
  <2>1. PICK A : A = Affected(p, c) /\ A = Affected(p, c)'
    BY <1>2
  <2>2. [g \in A |-> View(g, p).gain * LevelOf(g)'] = [g \in A |-> View(g, p).gain * LevelOf(g)]
    BY <1>1
  <2> QED BY <2>1, <2>2 DEF Load
<1> QED BY <1>3, <1>4

(* Before the first point no verdict is merged and nothing has moved.      *)
THEOREM InitPlanInv == Init => PlanInv
<1> SUFFICES ASSUME Init PROVE PlanInv
  OBVIOUS
<1>1. EvalInv
  BY InitEvalInv
<1>2. SnapshotOK(snap)
  BY SnapshotsAssumption DEF Init
<1>3. VerdictsOK
  <2>1. DOMAIN verdicts = {}
    BY DEF Init
  <2>2. \A g \in Unresolved : LevelOf(g) = g.eirp /\ g.eirp \in Nat
    BY <1>2, <2>1, GrantsOK DEF LevelOf, GrantOK
  <2> QED BY <2>1, <2>2 DEF VerdictsOK
<1>4. MergedHold
  BY DEF Init, Merged, MergedHold
<1>5. MovedOK
  BY DEF Init, MovedOK
<1> QED BY <1>1, <1>3, <1>4, <1>5 DEF PlanInv

(* The move lists read the snapshot and the decisions only.                *)
LEMMA MoveListsFixed ==
    ASSUME UNCHANGED <<snap, verdicts>>
    PROVE  MovedGrants' = MovedGrants /\ Unresolved' = Unresolved
<1>1. Unresolved' = Unresolved /\ PeerGrants' = PeerGrants
  BY SnapshotFixed
<1>2. DpaLocals' = DpaLocals /\ DpaPeers' = DpaPeers
  BY <1>1 DEF DpaLocals, DpaPeers, IapTerminated, EffectiveEirp
<1>3. \A d, gs : MoveList(d, gs)' = MoveList(d, gs)
  BY DEF MoveList, Unevaluable
<1> QED BY <1>1, <1>2, <1>3 DEF MovedGrants

(* Every step keeps what is merged within the limits: a later point only   *)
(* lowers levels, so an earlier point stays within its budget.             *)
THEOREM NextPlanInv == PlanInv /\ [Next]_vars => PlanInv'
<1> SUFFICES ASSUME PlanInv, [Next]_vars PROVE PlanInv'
  OBVIOUS
<1>0. EvalInv /\ VerdictsOK /\ MergedHold /\ MovedOK /\ EvalInv'
  BY NextEvalInv DEF PlanInv
<1>a. SnapshotOK(snap)
  BY <1>0, SnapshotsAssumption DEF EvalInv, StagesOK
<1>b. ASSUME UNCHANGED <<snap, verdicts>>, Merged' \in SUBSET Merged
      PROVE  VerdictsOK' /\ MergedHold'
  BY <1>0, <1>b, VerdictsFixed DEF MergedHold
<1>c. ASSUME stage' # "done" PROVE MovedOK'
  BY <1>c DEF MovedOK
<1>1. CASE ScreensFail
  <2>1. UNCHANGED <<snap, verdicts>> /\ Merged' = {} /\ stage' # "done"
    BY <1>1 DEF ScreensFail, Merged
  <2> QED BY <1>0, <1>b, <1>c, <2>1 DEF PlanInv
<1>2. CASE AllResolved
  <2>1. UNCHANGED <<snap, verdicts>> /\ stage' = "done" /\ Unresolved = {}
    BY <1>2 DEF AllResolved
  <2>2. VerdictsOK' /\ FrozenPoints' = FrozenPoints /\ Unresolved' = {}
    BY <1>0, <2>1, VerdictsFixed, SnapshotFixed
  <2>3. ASSUME NEW p \in FrozenPoints, NEW c PROVE Load(p, c)' <= p.threshold
    <3>1. Affected(p, c) = {}
      BY <2>1 DEF Affected
    <3>2. Load(p, c) = 0
      BY <3>1, SumEmpty DEF Load
    <3>3. p.threshold \in Nat
      BY <1>a, PointsOK
    <3> QED BY <1>0, <2>1, <3>2, <3>3, VerdictsFixed
  <2>4. MergedHold'
    <3>1. Merged' = FrozenPoints
      BY <2>1, <2>2 DEF Merged
    <3> QED BY <2>3, <3>1 DEF MergedHold
  <2>5. MovedOK'
    BY <2>2 DEF MovedOK
  <2> QED BY <1>0, <2>2, <2>4, <2>5 DEF PlanInv
<1>3. CASE SkipIap
  <2>1. UNCHANGED <<snap, verdicts>> /\ stage' = "dpa" /\ FrozenPoints = {}
    BY <1>3 DEF SkipIap
  <2>2. Merged' = {}
    BY <2>1, SnapshotFixed DEF Merged
  <2> QED BY <1>0, <1>b, <1>c, <2>1, <2>2 DEF PlanInv
<1>4. CASE StartIap
  <2> DEFINE p == CHOOSE q \in FrozenPoints : TRUE
  <2>1. /\ UNCHANGED <<snap, verdicts>> /\ stage' = "iap"
        /\ StartPoint(p) /\ queue' = FrozenPoints \ {p}
    BY <1>4 DEF StartIap
  <2>2. point' = p
    BY <2>1 DEF StartPoint
  <2> HIDE DEF p
  <2>3. Merged' = {}
    BY <2>1, <2>2, SnapshotFixed DEF Merged
  <2> QED BY <1>0, <1>b, <1>c, <2>1, <2>3 DEF PlanInv
<1>5. CASE Allocate
  <2>1. UNCHANGED <<snap, stage, queue, verdicts, moved, point>>
    BY <1>5 DEF Allocate, evalVars, LockRound, LowerRound, inputs
  <2>2. Merged' = Merged
    BY <2>1, SnapshotFixed DEF Merged
  <2>3. stage' # "done"
    BY <1>5, <2>1 DEF Allocate
  <2> QED BY <1>0, <1>b, <1>c, <2>1, <2>2, <2>3 DEF PlanInv
<1>6. CASE NextPoint
  <2> DEFINE p == CHOOSE q \in queue : TRUE
  <2>1. /\ stage = "iap" /\ stage' = "iap" /\ Done /\ queue # {} /\ verdicts' = MergedVerdicts
        /\ UNCHANGED snap /\ StartPoint(p) /\ queue' = queue \ {p}
    BY <1>6 DEF NextPoint
  <2>2. point' = p
    BY <2>1 DEF StartPoint
  <2>3. p \in queue
    BY <2>1, Chosen
  <2> HIDE DEF p
  <2>4. queue' \cup {point'} = queue
    BY <2>1, <2>2, <2>3
  <2>5. point \in FrozenPoints
    BY <1>0, <2>1 DEF EvalInv, StagesOK
  <2>6. Merged' \in SUBSET (Merged \cup {point})
    BY <2>1, <2>4, <2>5, SnapshotFixed DEF Merged
  <2>7. VerdictsOK' /\ \A q \in Merged \cup {point} : \A c \in IapChannels(q) : Load(q, c)' <= q.threshold
    BY <1>0, <2>1, MergeHolds
  <2>8. MergedHold'
    BY <2>6, <2>7 DEF MergedHold
  <2> QED BY <1>0, <1>c, <2>1, <2>7, <2>8 DEF PlanInv
<1>7. CASE LastPoint
  <2>1. /\ stage = "iap" /\ stage' = "dpa" /\ Done /\ queue = {} /\ verdicts' = MergedVerdicts
        /\ UNCHANGED snap
    BY <1>7 DEF LastPoint
  <2>2. Merged' \in SUBSET (Merged \cup {point})
    BY <2>1, SnapshotFixed DEF Merged
  <2>3. VerdictsOK' /\ \A q \in Merged \cup {point} : \A c \in IapChannels(q) : Load(q, c)' <= q.threshold
    BY <1>0, <2>1, MergeHolds
  <2>4. MergedHold'
    BY <2>2, <2>3 DEF MergedHold
  <2> QED BY <1>0, <1>c, <2>1, <2>3, <2>4 DEF PlanInv
<1>8. CASE MoveGrants
  <2>1. /\ stage = "dpa" /\ stage' = "done" /\ UNCHANGED <<snap, queue, verdicts>>
        /\ moved' = {g.id : g \in MovedGrants}
    BY <1>8 DEF MoveGrants, MovedGrants
  <2>2. Merged' = Merged
    BY <2>1, SnapshotFixed DEF Merged
  <2>3. MovedOK'
    BY <2>1, MoveListsFixed DEF MovedOK
  <2> QED BY <1>0, <1>b, <2>1, <2>2, <2>3 DEF PlanInv
<1>9. CASE UNCHANGED vars
  <2>1. UNCHANGED <<snap, stage, queue, verdicts, moved, point>>
    BY <1>9 DEF vars, evalVars, iapVars, inputs
  <2>2. Merged' = Merged
    BY <2>1, SnapshotFixed DEF Merged
  <2>3. MovedOK'
    BY <1>0, <2>1, MoveListsFixed DEF MovedOK
  <2> QED BY <1>0, <1>b, <2>1, <2>2, <2>3 DEF PlanInv
<1> QED BY <1>1, <1>2, <1>3, <1>4, <1>5, <1>6, <1>7, <1>8, <1>9 DEF Next

-----------------------------------------------------------------------------
(* The plan.                                                               *)

(* A grant at another level is the same grant otherwise.                   *)
LEMMA WithLevel ==
    ASSUME NEW g, LocalOK(g), NEW e, NEW k, k = [g EXCEPT !.eirp = e]
    PROVE  /\ k.eirp = e /\ k.id = g.id /\ k.cbsd = g.cbsd /\ k.at = g.at
           /\ k.category = g.category /\ k.range = g.range /\ k.managing = g.managing
           /\ k.indoor = g.indoor /\ k.height = g.height /\ k.ground = g.ground
<1>1. DOMAIN g = LocalFields
  BY DEF LocalOK
<1>2. \A x \in LocalFields : k[x] = IF x = "eirp" THEN e ELSE g[x]
  BY <1>1
<1> QED BY <1>2 DEF LocalFields

(* Whether a grant counts at a point does not depend on its level.         *)
LEMMA SameNeighbor ==
    ASSUME NEW p, NEW v, NEW w, v.low = w.low, v.high = w.high, v.km = w.km,
           v.category = w.category, NEW gs, NEW hs, w \in hs, v \in Neighbors(p, gs)
    PROVE  /\ w \in Neighbors(p, hs)
           /\ \A c : c \in ChannelsOf(v, p) => c \in ChannelsOf(w, p)
<1>1. Cross(w, p) /\ \A c : Cross(v, c) <=> Cross(w, c)
  BY DEF Neighbors, Cross
<1>2. (CASE p.kind = "esc" -> w.km <= EscNeighborhoodKm(w.category)
         [] p.radius >= 0 -> w.km <= p.radius
         [] OTHER -> TRUE)
  BY Zenon DEF Neighbors
<1>3. w \in Neighbors(p, hs)
  BY <1>1, <1>2, Zenon DEF Neighbors
<1>4. \A c : c \in ChannelsOf(v, p) => c \in ChannelsOf(w, p)
  BY <1>1 DEF ChannelsOf, GrantOverlapsChannel
<1> QED BY <1>3, <1>4

(* The levels that are left are natural numbers.                           *)
LEMMA LevelType ==
    ASSUME SnapshotOK(snap), VerdictsOK, NEW g \in Unresolved
    PROVE  LevelOf(g) \in Nat
<1>1. g.eirp \in Nat
  BY GrantsOK DEF GrantOK
<1>2. CASE g.id \in DOMAIN verdicts
  <2>1. verdicts[g.id] \in [action : DOMAIN Rank, eirp : Nat]
    BY <1>2 DEF VerdictsOK
  <2>2. Left(verdicts[g.id], g.eirp) \in Nat
    BY <1>1, <2>1, LeftCases
  <2> QED BY <1>2, <2>2 DEF LevelOf
<1>3. CASE g.id \notin DOMAIN verdicts
  BY <1>1, <1>3 DEF LevelOf
<1> QED BY <1>2, <1>3

(* What is kept is a local grant at the level the allocation left it.      *)
KeptOf(k, g) ==
    /\ k = [g EXCEPT !.eirp = LevelOf(g)]
    /\ k.eirp = LevelOf(g) /\ k.id = g.id /\ k.cbsd = g.cbsd /\ k.at = g.at
    /\ k.category = g.category /\ k.range = g.range /\ k.managing
    /\ k.height = g.height /\ k.ground = g.ground
    /\ LevelOf(g) \in Nat /\ GrantOK(k)

(* The local grants a DPA sees are those the merge left, each at its       *)
(* merged level and known by its id.                                       *)
LEMMA DpaLocalsOK ==
    ASSUME SnapshotOK(snap), VerdictsOK
    PROVE  /\ \A k \in DpaLocals : \E g \in Unresolved : KeptOf(k, g)
           /\ \A k, l \in DpaLocals : k.id = l.id => k = l
           /\ Kept = {k \in DpaLocals : k.id \notin moved}
           /\ IsFiniteSet(DpaLocals)
<1> DEFINE left == {h \in Unresolved : h.id \notin IapTerminated}
           f == [g \in left |-> [g EXCEPT !.eirp = EffectiveEirp(g)]]
<1>1. \A g \in left : LocalOK(g) /\ EffectiveEirp(g) = LevelOf(g) /\ LevelOf(g) \in Nat
  BY GrantsOK, LevelType, LevelIsEffective
<1>2. ASSUME NEW g \in left PROVE KeptOf(f[g], g) /\ f[g].id = g.id
  <2> DEFINE k == f[g]
  <2>1. k = [g EXCEPT !.eirp = LevelOf(g)]
    BY <1>1
  <2>2. LocalOK(g)
    BY <1>1
  <2> HIDE DEF k, f
  <2>3. /\ k.eirp = LevelOf(g) /\ k.id = g.id /\ k.cbsd = g.cbsd /\ k.at = g.at
        /\ k.category = g.category /\ k.range = g.range /\ k.managing = g.managing
        /\ k.height = g.height /\ k.ground = g.ground
    BY <2>1, <2>2, WithLevel
  <2>4. GrantOK(k) /\ k.managing
    BY <1>1, <2>2, <2>3 DEF LocalOK, GrantOK
  <2> QED BY <1>1, <2>1, <2>3, <2>4 DEF KeptOf, k
<1>3. DpaLocals = {f[g] : g \in left}
  BY DEF DpaLocals
<1>4. Kept = {f[g] : g \in {h \in left : h.id \notin moved}}
  BY DEF Kept
<1> HIDE DEF f
<1>5. Kept = {k \in DpaLocals : k.id \notin moved}
  BY <1>2, <1>3, <1>4
<1>6. \A k, l \in DpaLocals : k.id = l.id => k = l
  <2>1. \A g, h \in left : g.id = h.id => g = h
    BY GrantsOK
  <2> QED BY <1>2, <1>3, <2>1
<1>7. IsFiniteSet(DpaLocals)
  <2>1. IsFiniteSet(left)
    BY GrantsOK, FS_Subset
  <2> HIDE DEF left
  <2> QED BY <1>3, <2>1, ImageFinite
<1> QED BY <1>2, <1>3, <1>5, <1>6, <1>7

(* What the kept grants put on a channel of a point is its load, at most.  *)
LEMMA KeptFits ==
    ASSUME SnapshotOK(snap), VerdictsOK, NEW p \in FrozenPoints, NEW c,
           Load(p, c) <= p.threshold
    PROVE  GrantedCoupling({v \in Neighbors(p, {View(k, p) : k \in Kept}) : c \in ChannelsOf(v, p)})
              <= p.threshold
<1> DEFINE S == {v \in Neighbors(p, {View(k, p) : k \in Kept}) : c \in ChannelsOf(v, p)}
           A == Affected(p, c)
           load == [g \in A |-> View(g, p).gain * LevelOf(g)]
           own == [v \in S |-> v.eirp]
           f == [v \in S |-> Coupling(v, own[v])]
           h == [v \in S |-> CHOOSE g \in Unresolved : g.id = v.id]
<1>1. p.at \in Nat /\ p.threshold \in Nat
  BY PointsOK
<1>2. IsFiniteSet(A) /\ A \in SUBSET Unresolved /\ \A g \in A : load[g] \in Nat
  <2>1. IsFiniteSet(A) /\ A \in SUBSET Unresolved /\ \A g \in A : View(g, p).gain \in Nat
    BY <1>1, AffectedOK
  <2>2. \A g \in A : LevelOf(g) \in Nat
    BY <2>1, LevelType
  <2> QED BY <2>1, <2>2
<1>3. ASSUME NEW v \in S
      PROVE  \E k \in Kept : \E g \in A :
                /\ KeptOf(k, g) /\ v = View(k, p) /\ h[v] = g
                /\ f[v] = load[g]
  <2>1. PICK k \in Kept : v = View(k, p)
    BY DEF Neighbors
  <2>2. PICK g \in Unresolved : KeptOf(k, g)
    BY DpaLocalsOK
  <2> DEFINE w == View(g, p)
  <2>3. /\ v.low = w.low /\ v.high = w.high /\ v.km = w.km /\ v.category = w.category
        /\ v.id = g.id /\ v.gain = w.gain /\ v.eirp = LevelOf(g)
    BY <2>1, <2>2 DEF View, KeptOf
  <2>4. w \in Views(p)
    BY DEF Views
  <2> HIDE DEF w
  <2>5. w \in Neighbors(p, Views(p)) /\ c \in ChannelsOf(w, p)
    BY <2>3, <2>4, SameNeighbor
  <2>6. g \in A
    BY <2>5 DEF Affected, w
  <2>7. h[v] = g
    <3>1. \A x \in Unresolved : x.id = v.id => x = g
      BY <2>3, GrantsOK
    <3> QED BY <2>3, <3>1
  <2>8. f[v] = load[g]
    BY <2>3, <2>6 DEF Coupling, w
  <2> QED BY <2>1, <2>2, <2>6, <2>7, <2>8
<1>4. \A v \in S : h[v] \in A /\ f[v] \in Nat /\ f[v] <= load[h[v]]
  <2> SUFFICES ASSUME NEW v \in S PROVE h[v] \in A /\ f[v] \in Nat /\ f[v] <= load[h[v]]
    OBVIOUS
  <2> HIDE DEF S, A, f, h, load
  <2>1. PICK g \in A : h[v] = g /\ f[v] = load[g]
    BY <1>3
  <2> QED BY <1>2, <2>1
<1>5. \A v, w \in S : h[v] = h[w] => v = w
  <2> SUFFICES ASSUME NEW v \in S, NEW w \in S, h[v] = h[w] PROVE v = w
    OBVIOUS
  <2> HIDE DEF S, A, f, h, load
  <2>1. PICK k \in Kept, g \in A : KeptOf(k, g) /\ v = View(k, p) /\ h[v] = g
    BY <1>3
  <2>2. PICK l \in Kept, x \in A : KeptOf(l, x) /\ w = View(l, p) /\ h[w] = x
    BY <1>3
  <2> QED BY <2>1, <2>2 DEF KeptOf
<1>6. IsFiniteSet(S)
  <2>1. IsFiniteSet(Kept)
    BY DpaLocalsOK, FS_Subset
  <2> DEFINE V == {View(k, p) : k \in Kept}
             view == [k \in Kept |-> View(k, p)]
  <2>2. V = {view[k] : k \in Kept} /\ S \in SUBSET V
    BY DEF Neighbors
  <2> HIDE DEF V, view, S
  <2>3. IsFiniteSet(V)
    BY <2>1, <2>2, ImageFinite
  <2> QED BY <2>2, <2>3, FS_Subset
<1>7. GrantedCoupling(S) = SumFunctionOnSet(f, S)
  BY DEF GrantedCoupling, TotalCoupling
<1>8. Load(p, c) = SumFunctionOnSet(load, A)
  BY DEF Load
<1> HIDE DEF S, A, f, h, load
<1>9. SumFunctionOnSet(f, S) <= SumFunctionOnSet(load, A)
  BY <1>2, <1>4, <1>5, <1>6, SumInto
<1>10. SumFunctionOnSet(f, S) \in Nat /\ SumFunctionOnSet(load, A) \in Nat
  BY <1>2, <1>4, <1>6, SumElement
<1>11. GrantedCoupling(S) <= p.threshold
  BY <1>1, <1>7, <1>8, <1>9, <1>10
<1> QED BY <1>11 DEF S

-----------------------------------------------------------------------------
(* The move lists.                                                         *)

(* What the DPA stage looks at.                                            *)
LEMMA DpaGrantsOK ==
    ASSUME SnapshotOK(snap), VerdictsOK
    PROVE  /\ IsFiniteSet(DpaLocals \cup DpaPeers)
           /\ \A k \in DpaLocals \cup DpaPeers : GrantOK(k)
           /\ \A k \in DpaPeers : ~k.managing
           /\ \A k \in DpaLocals : k.managing
<1>1. IsFiniteSet(DpaLocals) /\ \A k \in DpaLocals : GrantOK(k) /\ k.managing
  BY DpaLocalsOK DEF KeptOf
<1> DEFINE f == [g \in PeerGrants |-> [g EXCEPT !.category = "A"]]
<1>2. DpaPeers = {f[g] : g \in PeerGrants}
  BY DEF DpaPeers
<1>3. ASSUME NEW g \in PeerGrants PROVE GrantOK(f[g]) /\ ~f[g].managing
  <2>1. PICK p \in snap.peers : \E h \in ActivePeerGrants(p) : g = PeerGrant(h, p)
    BY DEF PeerGrants, PeerGrant
  <2>2. PICK h \in ActivePeerGrants(p) : g = PeerGrant(h, p)
    BY <2>1
  <2>3. GrantOK(g) /\ ~g.managing
    BY GrantsOK
  <2>4. /\ f[g].id = g.id /\ f[g].at = g.at /\ f[g].eirp = g.eirp /\ f[g].range = g.range
        /\ f[g].managing = g.managing
    BY <2>2 DEF PeerGrant
  <2> QED BY <2>3, <2>4 DEF GrantOK
<1> HIDE DEF f
<1>4. IsFiniteSet(DpaPeers)
  BY <1>2, GrantsOK, ImageFinite
<1>5. \A k \in DpaPeers : GrantOK(k) /\ ~k.managing
  BY <1>2, <1>3
<1> QED BY <1>1, <1>4, <1>5, FS_Union

(* Of two numbers the greater.                                             *)
LEMMA MaxOfTwo ==
    ASSUME NEW a \in Nat, NEW b \in Nat
    PROVE  Max({a, b}) \in {a, b} /\ Max({a, b}) >= a /\ Max({a, b}) >= b
<1>1. \E x \in {a, b} : \A y \in {a, b} : x >= y
  OBVIOUS
<1> QED BY <1>1 DEF Max

(* The interference of a grant inside the channel of a DPA.                *)
LEMMA InterferenceType ==
    ASSUME NEW d, DpaOK(d), d.zone # {}, NEW g, GrantOK(g), Overlap(g.range, d.range)
    PROVE  Interference(d, g) \in Nat
<1> DEFINE high == Min({g.range.high, d.range.high})
           low == Max({g.range.low, d.range.low})
           gain == GainAt(Distance(g.at, Representative(d.zone)))
<1>1. /\ g.eirp \in Nat /\ g.at \in Nat
      /\ g.range.low \in Nat /\ g.range.high \in Nat /\ g.range.low < g.range.high
      /\ d.range.low \in Nat /\ d.range.high \in Nat /\ d.range.low < d.range.high
      /\ g.range.low < d.range.high /\ g.range.high > d.range.low
  BY DEF GrantOK, DpaOK, RangeOK, Overlap
<1>2. high \in {g.range.high, d.range.high} /\ low \in {g.range.low, d.range.low}
  BY <1>1, MinOfTwo, MaxOfTwo
<1>3. high - low \in Nat
  <2> HIDE DEF high, low
  <2> QED BY <1>1, <1>2
<1>4. gain \in Nat
  <2>1. Representative(d.zone) \in Nat
    BY RepresentativeOK DEF DpaOK
  <2>2. Distance(g.at, Representative(d.zone)) \in Nat
    BY <1>1, <2>1 DEF Distance
  <2> QED BY <2>2, GainType
<1>5. Interference(d, g) = (g.eirp * (high - low)) * gain
  BY DEF Interference
<1> HIDE DEF high, low, gain
<1>6. g.eirp * (high - low) \in Nat
  BY <1>1, <1>3
<1> QED BY <1>4, <1>5, <1>6

(* The order a move list is built in: of finitely many grants there is a   *)
(* strongest.                                                              *)
LEMMA Strongest ==
    ASSUME NEW d, NEW K, IsFiniteSet(K), K # {},
           \A g \in K : Interference(d, g) \in Nat /\ g.id \in Nat
    PROVE  \E s \in K : \A h \in K : ~Stronger(d, h, s)
<1> DEFINE Good(t) == t # {} => \E s \in t : \A h \in t : ~Stronger(d, h, s)
           Bad == {t \in SUBSET K : ~Good(t)}
<1>a. ASSUME Bad # {} PROVE FALSE
  <2>0. Bad \in SUBSET (SUBSET K)
    OBVIOUS
  <2>1. PICK t \in Bad : \A u \in SUBSET t : u # t => u \notin Bad
    <3> HIDE DEF Bad
    <3> QED BY <1>a, <2>0, SmallestBad, Zenon
  <2>2. t \in SUBSET K /\ ~Good(t)
    BY <2>1
  <2>3. \A u \in SUBSET t : u # t => Good(u)
    BY <2>1, <2>2
  <2> HIDE DEF Bad
  <2>4. PICK x \in t : TRUE
    BY <2>2
  <2>5. ~Stronger(d, x, x)
    BY <2>2 DEF Stronger
  <2>6. CASE t \ {x} = {}
    <3>1. \A h \in t : ~Stronger(d, h, x)
      BY <2>5, <2>6
    <3> QED BY <2>2, <3>1
  <2>7. CASE t \ {x} # {}
    <3>1. PICK y \in t \ {x} : \A h \in t \ {x} : ~Stronger(d, h, y)
      BY <2>3, <2>7
    <3>2. CASE ~Stronger(d, x, y)
      <4>1. \A h \in t : ~Stronger(d, h, y)
        BY <3>1, <3>2
      <4> QED BY <2>2, <4>1
    <3>3. CASE Stronger(d, x, y)
      <4>1. ASSUME NEW h \in t, Stronger(d, h, x) PROVE FALSE
        <5>1. h # x
          BY <2>5, <4>1
        <5>2. Stronger(d, h, y)
          BY <2>2, <3>1, <3>3, <4>1 DEF Stronger
        <5> QED BY <3>1, <5>1, <5>2
      <4> QED BY <2>2, <4>1
    <3> QED BY <3>2, <3>3
  <2> QED BY <2>6, <2>7
<1>b. Good(K)
  <2>1. K \in SUBSET K
    OBVIOUS
  <2> HIDE DEF Good
  <2> QED BY <1>a, <2>1
<1> QED BY <1>b

(* The aggregate of fewer grants is no greater.                            *)
LEMMA AggregatePart ==
    ASSUME NEW d, NEW W, IsFiniteSet(W), \A g \in W : Interference(d, g) \in Nat, NEW K \in SUBSET W
    PROVE  /\ Aggregate(d, K) \in Nat /\ Aggregate(d, W) \in Nat
           /\ Aggregate(d, K) <= Aggregate(d, W)
<1> DEFINE f == [g \in W |-> Interference(d, g)]
           k == [g \in K |-> Interference(d, g)]
<1>1. \A g \in W : f[g] \in Nat
  OBVIOUS
<1>2. IsFiniteSet(K) /\ \A g \in K : k[g] \in Nat /\ k[g] = f[g]
  BY FS_Subset
<1>3. Aggregate(d, W) = SumFunctionOnSet(f, W) /\ Aggregate(d, K) = SumFunctionOnSet(k, K)
  BY DEF Aggregate
<1> HIDE DEF f, k
<1>4. SumFunctionOnSet(k, K) = SumFunctionOnSet(f, K)
  BY <1>2, SumAgree
<1>5. SumFunctionOnSet(f, K) <= SumFunctionOnSet(f, W)
  BY <1>1, SumPart
<1>6. SumFunctionOnSet(k, K) \in Nat /\ SumFunctionOnSet(f, W) \in Nat
  BY <1>1, <1>2, SumElement
<1> QED BY <1>3, <1>4, <1>5, <1>6

(* The grants a move list leaves are within the limit of the DPA.          *)
LEMMA RestFits ==
    ASSUME NEW d, DpaOK(d), d.zone # {}, NEW near, IsFiniteSet(near),
           \A g \in near : GrantOK(g) /\ Overlap(g.range, d.range),
           NEW K \in SUBSET (near \ BuildMovelist(d, near))
    PROVE  Aggregate(d, K) <= d.limit
<1>1. \A g \in near : Interference(d, g) \in Nat /\ g.id \in Nat
  BY InterferenceType DEF GrantOK
<1>2. d.limit \in Nat
  BY DEF DpaOK
<1>3. CASE K = {}
  <2>1. Aggregate(d, K) = 0
    BY <1>3, SumEmpty DEF Aggregate
  <2> QED BY <1>2, <2>1
<1>4. CASE K # {}
  <2>1. IsFiniteSet(K) /\ K \in SUBSET near
    BY FS_Subset
  <2>2. PICK s \in K : \A h \in K : ~Stronger(d, h, s)
    BY <1>1, <1>4, <2>1, Strongest
  <2> DEFINE W == {h \in near : ~Stronger(d, h, s)}
  <2>3. K \in SUBSET W /\ W \in SUBSET near
    BY <2>1, <2>2
  <2>4. ~(Aggregate(d, W) > d.limit)
    BY <2>1 DEF BuildMovelist
  <2> HIDE DEF W
  <2>5. IsFiniteSet(W)
    BY <2>3, FS_Subset
  <2>6. /\ Aggregate(d, K) \in Nat /\ Aggregate(d, W) \in Nat
        /\ Aggregate(d, K) <= Aggregate(d, W)
    BY <1>1, <2>3, <2>5, AggregatePart
  <2> QED BY <1>2, <2>4, <2>6
<1> QED BY <1>3, <1>4

(* What is near a DPA and what is kept of it.                              *)
LEMMA NearOK ==
    ASSUME SnapshotOK(snap), VerdictsOK, NEW d \in snap.dpas, NEW gs \in SUBSET (DpaLocals \cup DpaPeers)
    PROVE  /\ IsFiniteSet(Overlapping(d, InNeighborhood(d, gs)))
           /\ Overlapping(d, InNeighborhood(d, gs)) \in SUBSET gs
           /\ \A g \in Overlapping(d, InNeighborhood(d, gs)) :
                 GrantOK(g) /\ Overlap(g.range, d.range)
<1>1. Overlapping(d, InNeighborhood(d, gs)) \in SUBSET gs
  BY DEF Overlapping, InNeighborhood
<1>2. IsFiniteSet(gs) /\ \A g \in gs : GrantOK(g)
  BY DpaGrantsOK, FS_Subset
<1>3. \A g \in Overlapping(d, InNeighborhood(d, gs)) : Overlap(g.range, d.range)
  BY DEF Overlapping
<1> QED BY <1>1, <1>2, <1>3, FS_Subset

(* A plan keeps every limit: what is kept of the channels of a point is    *)
(* its load, and what is kept near a DPA is what its move list left.       *)
LEMMA PlanHolds ==
    ASSUME PlanInv
    PROVE  PlanKeepsLimits
<1> SUFFICES ASSUME stage = "done"
             PROVE  /\ \A p \in FrozenPoints : \A c \in IapChannels(p) :
                          GrantedCoupling({v \in Neighbors(p, {View(g, p) : g \in Kept}) :
                                              c \in ChannelsOf(v, p)}) <= p.threshold
                    /\ \A d \in snap.dpas :
                          LET near == Overlapping(d, InNeighborhood(d, Kept))
                          IN IF Unevaluable(d) THEN near = {} ELSE Aggregate(d, near) <= d.limit
  BY DEF PlanKeepsLimits
<1>1. SnapshotOK(snap) /\ VerdictsOK /\ MergedHold /\ MovedOK
  BY SnapshotsAssumption DEF PlanInv, EvalInv, StagesOK
<1>2. ASSUME NEW p \in FrozenPoints, NEW c \in IapChannels(p)
      PROVE  GrantedCoupling({v \in Neighbors(p, {View(g, p) : g \in Kept}) :
                                 c \in ChannelsOf(v, p)}) <= p.threshold
  <2>1. Load(p, c) <= p.threshold
    BY <1>1 DEF MergedHold, Merged
  <2> QED BY <1>1, <2>1, KeptFits
<1>3. ASSUME NEW d \in snap.dpas
      PROVE  LET near == Overlapping(d, InNeighborhood(d, Kept))
             IN IF Unevaluable(d) THEN near = {} ELSE Aggregate(d, near) <= d.limit
  <2> DEFINE all == DpaLocals \cup DpaPeers
             near == Overlapping(d, InNeighborhood(d, all))
             kept == Overlapping(d, InNeighborhood(d, Kept))
  <2>1. Kept = {k \in DpaLocals : k.id \notin moved}
    BY <1>1, DpaLocalsOK
  <2>2. kept \in SUBSET near /\ kept \in SUBSET Kept
    BY <2>1 DEF Overlapping, InNeighborhood
  <2>3. ASSUME NEW k \in kept PROVE k \notin MoveList(d, all)
    <3>1. k \in DpaLocals /\ k.id \notin moved
      BY <2>1, <2>2
    <3>2. Unresolved # {}
      BY <3>1 DEF DpaLocals
    <3>3. moved = {g.id : g \in MovedGrants}
      BY <1>1, <3>2 DEF MovedOK
    <3>4. k.managing
      BY <1>1, <3>1, DpaGrantsOK
    <3> QED BY <3>1, <3>3, <3>4 DEF MovedGrants
  <2>4. /\ IsFiniteSet(near)
        /\ \A g \in near : GrantOK(g) /\ Overlap(g.range, d.range)
    <3>1. all \in SUBSET all
      OBVIOUS
    <3> QED BY <1>1, <3>1, NearOK
  <2>5. CASE Unevaluable(d)
    <3>1. MoveList(d, all) = near
      BY <2>5 DEF MoveList
    <3>2. kept = {}
      BY <2>2, <2>3, <3>1
    <3> QED BY <2>5, <3>2
  <2>6. CASE ~Unevaluable(d)
    <3>1. MoveList(d, all) = BuildMovelist(d, near)
      BY <2>6 DEF MoveList
    <3>2. kept \in SUBSET (near \ BuildMovelist(d, near))
      BY <2>2, <2>3, <3>1
    <3>3. DpaOK(d) /\ d.zone # {}
      BY <1>1, <2>6 DEF SnapshotOK, Unevaluable
    <3> HIDE DEF near, kept
    <3>4. Aggregate(d, kept) <= d.limit
      BY <2>4, <3>2, <3>3, RestFits
    <3> QED BY <2>6, <3>4 DEF kept
  <2> QED BY <2>5, <2>6
<1> QED BY <1>2, <1>3

(* Without peers and with heights above ground the screen of a request and *)
(* the move list add up the same grants.                                   *)
LEMMA ScreenAgrees ==
    ASSUME PlanInv
    PROVE  AdmittedGrantIsNotMoved
<1> SUFFICES ASSUME stage = "done", DpaPeers = {}, NEW g \in DpaLocals, g.ground = 0,
                    ~ \E h \in DpaLocals \ {g} : h.cbsd = g.cbsd /\ Overlap(g.range, h.range),
                    ~ViolatesDpa(g, DpaLocals), g.id \in moved
             PROVE  FALSE
  BY DEF AdmittedGrantIsNotMoved
<1>1. SnapshotOK(snap) /\ VerdictsOK /\ MovedOK
  BY SnapshotsAssumption DEF PlanInv, EvalInv, StagesOK
<1>2. moved = {h.id : h \in MovedGrants}
  <2>1. Unresolved # {}
    BY DEF DpaLocals
  <2> QED BY <1>1, <2>1 DEF MovedOK
<1>3. DpaLocals \cup DpaPeers = DpaLocals
  OBVIOUS
<1>4. PICK d \in snap.dpas, h \in MovedGrants : h.id = g.id /\ h \in MoveList(d, DpaLocals)
  <2>1. PICK h \in MovedGrants : h.id = g.id
    BY <1>2
  <2>2. PICK d \in snap.dpas : h \in MoveList(d, DpaLocals)
    BY <1>3, <2>1 DEF MovedGrants
  <2> QED BY <2>1, <2>2
<1> DEFINE near == Overlapping(d, InNeighborhood(d, DpaLocals))
<1>5. /\ IsFiniteSet(near) /\ near \in SUBSET DpaLocals
      /\ \A k \in near : GrantOK(k) /\ Overlap(k.range, d.range)
  <2>1. DpaLocals \in SUBSET (DpaLocals \cup DpaPeers)
    OBVIOUS
  <2> QED BY <1>1, <2>1, NearOK
<1>6. h \in near
  BY <1>4 DEF MoveList, BuildMovelist
<1>7. h = g
  BY <1>1, <1>4, <1>5, <1>6, DpaLocalsOK
<1>8. g.height - g.ground = g.height
  <2>1. PICK k \in Unresolved : KeptOf(g, k)
    BY <1>1, DpaLocalsOK
  <2>2. g.height \in Int
    BY <1>1, <2>1, GrantsOK DEF KeptOf, LocalOK
  <2> QED BY <2>2
<1>9. /\ Overlap(g.range, d.range)
      /\ d.zone = {} \/ Within(g.at, d.zone, RadiusKm(d, g, g.height - g.ground))
  BY <1>5, <1>6, <1>7, <1>8 DEF Overlapping, InNeighborhood
<1> DEFINE others == {k \in near : ~(k.cbsd = g.cbsd /\ Overlap(k.range, g.range))}
<1>10. ~Unevaluable(d) /\ ~(Aggregate(d, others \cup {g}) > d.limit)
  BY <1>9 DEF ViolatesDpa
<1>11. others \cup {g} = near
  <2>1. ASSUME NEW k \in near, k # g PROVE k \in others
    <3>1. k \in DpaLocals \ {g}
      BY <1>5, <2>1
    <3>2. ~(k.cbsd = g.cbsd /\ Overlap(g.range, k.range))
      BY <3>1
    <3>3. Overlap(k.range, g.range) => Overlap(g.range, k.range)
      BY <1>5, <1>6, <1>7, <2>1 DEF Overlap, GrantOK, RangeOK
    <3> QED BY <3>2, <3>3
  <2> QED BY <1>6, <1>7, <2>1
<1>12. g \in BuildMovelist(d, near)
  BY <1>4, <1>7, <1>10 DEF MoveList
<1> DEFINE W == {k \in near : ~Stronger(d, k, g)}
<1>13. Aggregate(d, W) > d.limit
  BY <1>12 DEF BuildMovelist
<1>14. ~(Aggregate(d, near) > d.limit)
  BY <1>10, <1>11
<1>15. d.limit \in Nat /\ \A k \in near : Interference(d, k) \in Nat
  <2>1. DpaOK(d) /\ d.zone # {}
    BY <1>1, <1>10 DEF SnapshotOK, Unevaluable
  <2>2. \A k \in near : Interference(d, k) \in Nat
    BY <1>5, <2>1, InterferenceType
  <2> QED BY <2>1, <2>2 DEF DpaOK
<1>16. W \in SUBSET near
  OBVIOUS
<1> HIDE DEF W, near
<1>17. /\ Aggregate(d, W) \in Nat /\ Aggregate(d, near) \in Nat
       /\ Aggregate(d, W) <= Aggregate(d, near)
  BY <1>5, <1>15, <1>16, AggregatePart
<1> QED BY <1>13, <1>14, <1>15, <1>17

(* The merged plan keeps the points already evaluated within their budgets *)
(* and the move lists explained, throughout the evaluation.                *)
THEOREM PlanInvHolds == Spec => []PlanInv
BY InitPlanInv, NextPlanInv, PTL DEF Spec

(* Property PlanKeepsLimits: the plan merged from all protection points    *)
(* and DPAs holds every limit at once, whatever the number and order of    *)
(* the points (mcp_protection.py:160-190, engine.py:313-343).              *)
THEOREM PlanLimits == Spec => []PlanKeepsLimits
BY PlanHolds, PlanInvHolds, PTL

(* Property AdmittedGrantIsNotMoved: the DPA screen of a request and the   *)
(* move list of an evaluation agree on a grant that fits                   *)
(* (dpa_protection.py:650-699,828-998).                                    *)
THEOREM ScreenAndMoveListAgree == Spec => []AdmittedGrantIsNotMoved
BY ScreenAgrees, PlanInvHolds, PTL
=============================================================================
